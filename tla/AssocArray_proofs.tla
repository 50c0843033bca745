-------------------------- MODULE AssocArray_proofs --------------------------
(***************************************************************************)
(* IndInv is an invariant of AssocArray for every heap, table and set of   *)
(* keys, and the properties of AssocArrayProps follow from it.  The first  *)
(* lemmas are about what the list operations do to a ring and to the       *)
(* chains of a table, for any set of entries S in any order o.             *)
(*                                                                         *)
(* The second part is what the walks meet, on every heap that is finite.   *)
(* A walk of arr->list meets the items of AssocSpec, which the array       *)
(* implements: the invariant of the array is joined by WalkInv, that the   *)
(* walk meets the entries of the array in the order of their age.  The     *)
(* walks of the chains count the entries of each bucket, and what the      *)
(* counting functions return follows from the invariant alone.             *)
(***************************************************************************)
EXTENDS AssocRefinement, AssocArrayMeasures, KListWalk_lemmas, FiniteSetTheorems, TLAPS

\* The types of a ring and of the chains of a table.
RingType == [next : [Entry \cup {ListHead} -> Entry \cup {ListHead} \cup Poison],
             prev : [Entry \cup {ListHead} -> Entry \cup {ListHead} \cup Poison]]

ChainType == [link  : [Bucket \cup Entry -> Entry \cup {NULL} \cup Poison],
              pprev : [Entry -> Bucket \cup Entry \cup {NULL} \cup Poison]]

\* The order o without entry e, and with e as the newest of S.
Without(o, e) == [x \in Entry |-> IF x = e THEN {} ELSE o[x] \ {e}]

WithNewest(o, S, e) == [o EXCEPT ![e] = S]

\* A set in order is in order without one of its entries.
LEMMA OrderedWithout ==
    ASSUME NEW S \in SUBSET Entry, NEW o, Ordered(S, o), NEW e \in S
    PROVE  Ordered(S \ {e}, Without(o, e))
  BY DEF Ordered, Without

\* A set in order is in order with a new entry behind all others.
LEMMA OrderedWithNewest ==
    ASSUME NEW S \in SUBSET Entry, NEW o, Ordered(S, o), NEW e \in Entry \ S
    PROVE  Ordered(S \cup {e}, WithNewest(o, S, e))
  BY DEF Ordered, WithNewest

-----------------------------------------------------------------------------
\* K_INIT_LIST_HEAD makes an empty ring.
LEMMA RingInit ==
    ASSUME NEW l \in RingType, NEW o
    PROVE  /\ RingOf(K_INIT_LIST_HEAD(l, ListHead), {}, o)
           /\ K_INIT_LIST_HEAD(l, ListHead) \in RingType
  BY DEF RingOf, After, K_INIT_LIST_HEAD, RingType

\* k_list_add_tail appends the newest entry.
LEMMA RingAddTail ==
    ASSUME NEW S \in SUBSET Entry, NEW o, Ordered(S, o), NEW e \in Entry \ S,
           NEW l \in RingType, RingOf(l, S, o)
    PROVE  /\ RingOf(k_list_add_tail(l, e, ListHead), S \cup {e}, WithNewest(o, S, e))
           /\ k_list_add_tail(l, e, ListHead) \in RingType
  <1> DEFINE m == k_list_add_tail(l, e, ListHead)
             last == l.prev[ListHead]
  <1>1. last \in S \cup {ListHead} /\ l.next[last] = ListHead
    BY DEF RingOf
  <1>2. /\ m.next = [l.next EXCEPT ![e] = ListHead, ![last] = e]
        /\ m.prev = [l.prev EXCEPT ![ListHead] = e, ![e] = last]
        /\ m = [next |-> m.next, prev |-> m.prev]
    BY DEF k_list_add_tail, list_add_between
  <1>3. ListHead \notin Entry
    BY AddressAssumption
  <1>4. m \in RingType
    BY <1>1, <1>2, <1>3 DEF RingType
  <1>5. RingOf(m, S \cup {e}, WithNewest(o, S, e))
    BY <1>1, <1>2, <1>3 DEF RingOf, RingType, After, WithNewest, Ordered
  <1> QED BY <1>4, <1>5

\* k_list_del takes out any entry.
LEMMA RingDel ==
    ASSUME NEW S \in SUBSET Entry, NEW o, Ordered(S, o), NEW e \in S,
           NEW l \in RingType, RingOf(l, S, o)
    PROVE  /\ RingOf(k_list_del(l, e), S \ {e}, Without(o, e))
           /\ k_list_del(l, e) \in RingType
  <1> DEFINE m == k_list_del(l, e)
             p == l.prev[e]
             n == l.next[e]
  <1>1. /\ p \in S \cup {ListHead} /\ l.next[p] = e
        /\ n \in S \cup {ListHead} /\ l.prev[n] = e
        /\ p # e /\ n # e
    BY AddressAssumption DEF RingOf, After, Ordered
  <1>2. /\ m.next = [l.next EXCEPT ![p] = n, ![e] = LIST_POISON1]
        /\ m.prev = [l.prev EXCEPT ![n] = p, ![e] = LIST_POISON2]
        /\ m = [next |-> m.next, prev |-> m.prev]
    BY DEF k_list_del, list_del_between
  <1>3. ListHead \notin Entry
    BY AddressAssumption
  <1>4. m \in RingType
    BY <1>1, <1>2, <1>3 DEF RingType, Poison
  <1>5. RingOf(m, S \ {e}, Without(o, e))
    <2> SUFFICES ASSUME NEW x \in (S \ {e}) \cup {ListHead}
                 PROVE  /\ m.next[x] = ListHead => After(S \ {e}, Without(o, e), x) = {}
                        /\ m.next[x] # ListHead => m.next[x] \in After(S \ {e}, Without(o, e), x)
                        /\ \A y \in After(S \ {e}, Without(o, e), x) \ {m.next[x]} :
                              m.next[x] \in Without(o, e)[y]
                        /\ m.prev[m.next[x]] = x
                        /\ m.prev[x] \in (S \ {e}) \cup {ListHead}
                        /\ m.next[m.prev[x]] = x
      BY DEF RingOf
    <2>1. After(S \ {e}, Without(o, e), x) = After(S, o, x) \ {e}
      BY <1>3 DEF After, Without
    <2>2. CASE x = p
      <3>1. m.next[x] = n
        BY <1>1, <1>2, <2>2, <1>3 DEF RingType
      <3>2. After(S, o, x) \ {e} = After(S, o, e)
        BY <1>1, <1>3, <2>2 DEF RingOf, After, Ordered
      <3>3. After(S, o, e) = {y \in S : e \in o[y]}
        BY <1>3 DEF After
      <3> QED BY <1>1, <1>2, <1>3, <2>1, <2>2, <3>1, <3>2, <3>3
              DEF RingOf, RingType, Without, After, Ordered
    <2>3. CASE x # p
      <3>1. m.next[x] = l.next[x] /\ l.next[x] # e
        BY <1>1, <1>2, <1>3, <2>3 DEF RingType, RingOf
      <3> QED BY <1>1, <1>2, <1>3, <2>1, <2>3, <3>1
              DEF RingOf, RingType, Without, After, Ordered
    <2> QED BY <2>2, <2>3
  <1> QED BY <1>4, <1>5

-----------------------------------------------------------------------------
\* A bucket index is in the table.
LEMMA BucketOfType ==
    ASSUME NEW q \in Key
    PROVE  BucketOf(q) \in Bucket
  <1>1. Hash[q] \in Nat /\ NumBuckets \in Nat \ {0}
    BY KeyAssumption, TableAssumption
  <1> QED BY <1>1 DEF BucketOf, calc_bkt, Bucket

\* There is a bucket, and the one after a bucket is one unless it is the last.
LEMMA BucketRange ==
    /\ 0 \in Bucket
    /\ \A b \in Bucket : b \in Nat /\ (b + 1 < NumBuckets => b + 1 \in Bucket)
    /\ \A b, c \in Bucket : b + 1 >= NumBuckets => c <= b
  BY TableAssumption DEF Bucket

\* Addresses, indices and pointers to nothing do not mix.
LEMMA Addresses ==
    /\ NULL \notin Entry \cup Bucket
    /\ Poison \cap (Entry \cup Bucket) = {}
    /\ Entry \cap Bucket = {}
    /\ LIST_POISON2 # NULL
  BY AddressAssumption, PoisonAssumption DEF Poison

\* Behind a bucket, and behind an entry.
LEMMA BehindBucket ==
    ASSUME NEW S, NEW o, NEW q, NEW s \in Bucket
    PROVE  Behind(S, o, q, s) = {y \in S : BucketOf(q[y]) = s}
  BY DEF Behind

LEMMA BehindEntry ==
    ASSUME NEW S, NEW o, NEW q, NEW s \in Entry
    PROVE  Behind(S, o, q, s) = {y \in o[s] : BucketOf(q[y]) = BucketOf(q[s])}
  BY Addresses DEF Behind

\* What is behind a slot of the chains is an entry, and the slot is its pprev.
ChainsLinked(h, S, o, q) ==
    /\ \A s \in Bucket \cup S :
          /\ Behind(S, o, q, s) \subseteq S
          /\ \/ h.link[s] = NULL /\ Behind(S, o, q, s) = {}
             \/ /\ h.link[s] \in Behind(S, o, q, s)
                /\ h.link[s] \in S
                /\ h.link[s] # NULL
                /\ h.pprev[h.link[s]] = s
          /\ \A y \in Behind(S, o, q, s) \ {h.link[s]} : y \in o[h.link[s]]
    /\ \A e \in S :
          /\ h.pprev[e] \in (Bucket \cup S) \ {e}
          /\ h.link[h.pprev[e]] = e
          /\ e \in Behind(S, o, q, h.pprev[e])
          /\ e \notin Behind(S, o, q, e)

LEMMA ChainsFacts ==
    ASSUME NEW S \in SUBSET Entry, NEW o, Ordered(S, o), NEW h, NEW q, ChainsOf(h, S, o, q)
    PROVE  ChainsLinked(h, S, o, q)
  <1>1. \A s \in Bucket \cup S : Behind(S, o, q, s) \subseteq S
    BY DEF Behind, Ordered
  <1>2. ASSUME NEW s \in Bucket \cup S
        PROVE  \/ h.link[s] = NULL /\ Behind(S, o, q, s) = {}
               \/ /\ h.link[s] \in Behind(S, o, q, s)
                  /\ h.link[s] \in S
                  /\ h.pprev[h.link[s]] = s
    BY <1>1 DEF ChainsOf
  <1>3. \A e \in S : e \notin Behind(S, o, q, e)
    BY Addresses DEF Behind, Ordered
  <1>4. ASSUME NEW e \in S
        PROVE  /\ h.pprev[e] \in (Bucket \cup S) \ {e}
               /\ h.link[h.pprev[e]] = e
               /\ e \in Behind(S, o, q, h.pprev[e])
    <2>1. h.pprev[e] \in Bucket \cup S /\ h.link[h.pprev[e]] = e
      BY DEF ChainsOf
    <2>2. e \in Behind(S, o, q, h.pprev[e])
      BY <1>2, <2>1, Addresses
    <2> QED BY <1>3, <2>1, <2>2
  <1>5. \A s \in Bucket \cup S :
           \A y \in Behind(S, o, q, s) \ {h.link[s]} : y \in o[h.link[s]]
    BY DEF ChainsOf
  <1> QED BY <1>1, <1>2, <1>3, <1>4, <1>5, Addresses DEF ChainsLinked

\* A table of empty buckets has the chains of no entry.
LEMMA ChainsInit ==
    ASSUME NEW h \in ChainType, \A b \in Bucket : h.link[b] = NULL, NEW o, NEW q
    PROVE  ChainsOf(h, {}, o, q)
  BY Addresses DEF ChainsOf, Behind

\* Chains depend on what their slots and the pprev of their entries hold, and on
\* the keys of their entries, and on nothing else.
LEMMA ChainsFrame ==
    ASSUME NEW S \in SUBSET Entry, NEW o \in [Entry -> SUBSET S], NEW q, NEW r,
           NEW g, NEW h, ChainsOf(g, S, o, q),
           \A s \in Bucket \cup S : h.link[s] = g.link[s],
           \A x \in S : h.pprev[x] = g.pprev[x],
           \A x \in S : r[x] = q[x]
    PROVE  ChainsOf(h, S, o, r)
  <1>1. \A s \in Bucket \cup S : Behind(S, o, r, s) = Behind(S, o, q, s)
    BY Addresses DEF Behind
  <1>2. ASSUME NEW s \in Bucket \cup S, h.link[s] # NULL
        PROVE  h.link[s] \in S
    BY <1>2, Addresses DEF ChainsOf, Behind
  <1> QED BY <1>1, <1>2 DEF ChainsOf

\* hlist_add_head puts a new entry before all the others of its bucket.
LEMMA ChainsAddHead ==
    ASSUME NEW S \in SUBSET Entry, NEW o, Ordered(S, o), NEW e \in Entry \ S,
           NEW h \in ChainType, NEW q, ChainsOf(h, S, o, q),
           BucketOf(q[e]) \in Bucket
    PROVE  /\ ChainsOf(hlist_add_head(h, e, BucketOf(q[e])), S \cup {e},
                       WithNewest(o, S, e), q)
           /\ hlist_add_head(h, e, BucketOf(q[e])) \in ChainType
  <1> DEFINE b == BucketOf(q[e])
             f == h.link[b]
             m == hlist_add_head(h, e, b)
             T == S \cup {e}
             w == WithNewest(o, S, e)
  <1>0. ChainsLinked(h, S, o, q)
    BY ChainsFacts
  <1>1. f = NULL \/ (f \in S /\ h.pprev[f] = b)
    BY <1>0 DEF ChainsLinked
  <1>2. /\ m.link = [h.link EXCEPT ![e] = f, ![b] = e]
        /\ m.pprev = IF f = NULL THEN [h.pprev EXCEPT ![e] = b]
                     ELSE [h.pprev EXCEPT ![f] = e, ![e] = b]
        /\ m = [link |-> m.link, pprev |-> m.pprev]
    BY DEF hlist_add_head
  <1>3. m \in ChainType
    BY <1>1, <1>2, Addresses DEF ChainType
  <1>4. /\ m.link[e] = f /\ m.link[b] = e /\ m.pprev[e] = b
        /\ f # NULL => m.pprev[f] = e
        /\ \A s \in (Bucket \cup S) \ {b} : m.link[s] = h.link[s]
        /\ \A x \in S \ {f} : m.pprev[x] = h.pprev[x]
    BY <1>1, <1>2, Addresses DEF ChainType
  <1>5. /\ Behind(T, w, q, b) = Behind(S, o, q, b) \cup {e}
        /\ Behind(T, w, q, e) = Behind(S, o, q, b)
        /\ \A s \in (Bucket \cup S) \ {b} : Behind(T, w, q, s) = Behind(S, o, q, s)
    <2>1. /\ \A x \in S : w[x] = o[x]
          /\ w[e] = S
          /\ \A x \in S : e \notin o[x]
          /\ T \in SUBSET Entry
      BY DEF WithNewest, Ordered
    <2>2. Behind(T, w, q, b) = Behind(S, o, q, b) \cup {e}
      BY BehindBucket
    <2>3. Behind(T, w, q, e) = Behind(S, o, q, b)
      <3>1. Behind(T, w, q, e) = {y \in S : BucketOf(q[y]) = b}
        BY <2>1, BehindEntry
      <3>2. Behind(S, o, q, b) = {y \in S : BucketOf(q[y]) = b}
        BY BehindBucket
      <3> QED BY <3>1, <3>2
    <2>4. ASSUME NEW s \in Bucket \ {b}
          PROVE  Behind(T, w, q, s) = Behind(S, o, q, s)
      BY <2>4, BehindBucket
    <2>5. ASSUME NEW s \in S
          PROVE  Behind(T, w, q, s) = Behind(S, o, q, s)
      BY <2>1, <2>5, BehindEntry
    <2> QED BY <2>2, <2>3, <2>4, <2>5
  <1>6. ASSUME NEW s \in Bucket \cup T
        PROVE  /\ m.link[s] = NULL => Behind(T, w, q, s) = {}
               /\ m.link[s] # NULL => m.link[s] \in Behind(T, w, q, s) /\ m.pprev[m.link[s]] = s
               /\ \A y \in Behind(T, w, q, s) \ {m.link[s]} : y \in w[m.link[s]]
    <2> \A x \in S : w[x] = o[x]
      BY DEF WithNewest, Ordered
    <2> w[e] = S
      BY DEF WithNewest, Ordered
    <2>1. CASE s = b
      <3>1. Behind(S, o, q, b) \subseteq S
        BY <1>0 DEF ChainsLinked
      <3> QED BY <2>1, <1>4, <1>5, <3>1, Addresses
    <2>2. CASE s = e
      <3>1. /\ m.link[s] = f /\ Behind(T, w, q, s) = Behind(S, o, q, b)
            /\ f # NULL => m.pprev[f] = s
        BY <2>2, <1>4, <1>5
      <3>2. /\ f = NULL => Behind(S, o, q, b) = {}
            /\ f # NULL => f \in Behind(S, o, q, b) /\ f \in S
            /\ \A y \in Behind(S, o, q, b) \ {f} : y \in o[f]
        BY <1>0 DEF ChainsLinked
      <3> QED BY <3>1, <3>2
    <2>3. CASE s \in (Bucket \cup S) \ {b}
      <3>1. h.link[s] = NULL \/ (h.link[s] \in S /\ h.link[s] # f)
        BY <1>0, <2>3, <1>1 DEF ChainsLinked
      <3>2. /\ m.link[s] = h.link[s] /\ Behind(T, w, q, s) = Behind(S, o, q, s)
            /\ h.link[s] # NULL => m.pprev[h.link[s]] = h.pprev[h.link[s]]
        BY <2>3, <1>4, <1>5, <3>1
      <3>3. /\ h.link[s] = NULL => Behind(S, o, q, s) = {}
            /\ h.link[s] # NULL => /\ h.link[s] \in Behind(S, o, q, s)
                                 /\ h.pprev[h.link[s]] = s
            /\ \A y \in Behind(S, o, q, s) \ {h.link[s]} : y \in o[h.link[s]]
        BY <1>0, <2>3 DEF ChainsLinked
      <3> QED BY <3>1, <3>2, <3>3
    <2> QED BY <2>1, <2>2, <2>3
  <1>7. ASSUME NEW x \in T
        PROVE  m.pprev[x] \in Bucket \cup T /\ m.link[m.pprev[x]] = x
    <2>1. CASE x = e
      BY <2>1, <1>4
    <2>2. CASE x \in S /\ x = f
      BY <2>2, <1>4, Addresses
    <2>3. CASE x \in S /\ x # f
      <3>1. h.pprev[x] \in (Bucket \cup S) \ {b}
        BY <1>0, <2>3 DEF ChainsLinked
      <3> QED BY <1>0, <2>3, <3>1, <1>4 DEF ChainsLinked
    <2> QED BY <2>1, <2>2, <2>3
  <1>8. ChainsOf(m, T, w, q)
    BY <1>6, <1>7 DEF ChainsOf
  <1> QED BY <1>3, <1>8

\* __hlist_del takes any entry out of its chain.
LEMMA ChainsUnlink ==
    ASSUME NEW S \in SUBSET Entry, NEW o, Ordered(S, o), NEW e \in S,
           NEW h \in ChainType, NEW q, ChainsOf(h, S, o, q)
    PROVE  /\ ChainsOf(hlist_unlink(h, e), S \ {e}, Without(o, e), q)
           /\ hlist_unlink(h, e) \in ChainType
           /\ h.pprev[e] # NULL
  <1> DEFINE p == h.pprev[e]
             n == h.link[e]
             m == hlist_unlink(h, e)
             T == S \ {e}
             w == Without(o, e)
  <1>0. ChainsLinked(h, S, o, q)
    BY ChainsFacts
  <1>1. /\ p \in Bucket \cup T /\ h.link[p] = e
        /\ e \in Behind(S, o, q, p)
        /\ n = NULL \/ (n \in T /\ h.pprev[n] = e)
    BY <1>0 DEF ChainsLinked
  <1>2. /\ m.link = [h.link EXCEPT ![p] = n]
        /\ m.pprev = IF n = NULL THEN h.pprev ELSE [h.pprev EXCEPT ![n] = p]
        /\ m = [link |-> m.link, pprev |-> m.pprev]
    BY DEF hlist_unlink
  <1>3. m \in ChainType
    BY <1>1, <1>2, Addresses DEF ChainType
  <1>4. /\ m.link[p] = n
        /\ n # NULL => m.pprev[n] = p
        /\ \A s \in (Bucket \cup S) \ {p} : m.link[s] = h.link[s]
        /\ \A x \in S \ {n} : m.pprev[x] = h.pprev[x]
    BY <1>1, <1>2, Addresses DEF ChainType
  <1>5. \A s \in Bucket \cup T : Behind(T, w, q, s) = Behind(S, o, q, s) \ {e}
    <2>1. T \in SUBSET Entry /\ \A x \in T : w[x] = o[x] \ {e}
      BY DEF Without
    <2>2. ASSUME NEW s \in Bucket
          PROVE  Behind(T, w, q, s) = Behind(S, o, q, s) \ {e}
      BY BehindBucket
    <2>3. ASSUME NEW s \in T
          PROVE  Behind(T, w, q, s) = Behind(S, o, q, s) \ {e}
      BY <2>1, BehindEntry
    <2> QED BY <2>2, <2>3
  <1>6. Behind(S, o, q, p) \ {e} = Behind(S, o, q, e)
    <2>0. /\ \A y \in Behind(S, o, q, p) \ {e} : y \in o[e]
          /\ o[e] \subseteq S /\ e \notin o[e]
      BY <1>0, <1>1 DEF ChainsLinked, Ordered
    <2>1. CASE p \in Bucket
      <3>1. Behind(S, o, q, p) = {y \in S : BucketOf(q[y]) = p}
        BY <2>1, BehindBucket
      <3>2. Behind(S, o, q, e) = {y \in o[e] : BucketOf(q[y]) = BucketOf(q[e])}
        BY BehindEntry
      <3> QED BY <2>0, <1>1, <3>1, <3>2
    <2>2. CASE p \in T
      <3>1. e \in o[p] /\ BucketOf(q[e]) = BucketOf(q[p])
        BY <2>2, <1>1, BehindEntry
      <3>2. o[e] \subseteq o[p]
        BY <2>0, <2>2, <3>1 DEF Ordered
      <3>3. Behind(S, o, q, p) = {y \in o[p] : BucketOf(q[y]) = BucketOf(q[p])}
        BY <2>2, BehindEntry
      <3>4. Behind(S, o, q, e) = {y \in o[e] : BucketOf(q[y]) = BucketOf(q[e])}
        BY BehindEntry
      <3> QED BY <2>0, <2>2, <3>1, <3>2, <3>3, <3>4
    <2> QED BY <1>1, <2>1, <2>2
  <1>7. ASSUME NEW s \in Bucket \cup T
        PROVE  /\ m.link[s] = NULL => Behind(T, w, q, s) = {}
               /\ m.link[s] # NULL => m.link[s] \in Behind(T, w, q, s) /\ m.pprev[m.link[s]] = s
               /\ \A y \in Behind(T, w, q, s) \ {m.link[s]} : y \in w[m.link[s]]
    <2>0. \A x \in T : w[x] = o[x] \ {e}
      BY DEF Without
    <2>1. CASE s = p
      <3>1. Behind(T, w, q, s) = Behind(S, o, q, e) /\ e \notin Behind(S, o, q, e)
        BY <2>1, <1>1, <1>5, <1>6
      <3>2. /\ n = NULL => Behind(S, o, q, e) = {}
            /\ n # NULL => n \in Behind(S, o, q, e)
            /\ \A y \in Behind(S, o, q, e) \ {n} : y \in o[n]
        BY <1>0 DEF ChainsLinked
      <3> QED BY <2>0, <2>1, <1>1, <1>4, <3>1, <3>2
    <2>2. CASE s # p
      <3>1. h.link[s] # e
        BY <1>0, <2>2, <1>1, Addresses DEF ChainsLinked
      <3>2. h.link[s] = NULL \/ (h.link[s] \in T /\ (n # NULL => h.link[s] # n))
        BY <1>0, <1>1, <3>1, Addresses DEF ChainsLinked
      <3>3. /\ m.link[s] = h.link[s] /\ Behind(T, w, q, s) = Behind(S, o, q, s) \ {e}
            /\ h.link[s] # NULL => m.pprev[h.link[s]] = h.pprev[h.link[s]]
        BY <2>2, <1>1, <1>4, <1>5, <3>2
      <3>4. /\ h.link[s] = NULL => Behind(S, o, q, s) = {}
            /\ h.link[s] # NULL => /\ h.link[s] \in Behind(S, o, q, s)
                                 /\ h.pprev[h.link[s]] = s
            /\ \A y \in Behind(S, o, q, s) \ {h.link[s]} : y \in o[h.link[s]]
        BY <1>0 DEF ChainsLinked
      <3> QED BY <2>0, <3>1, <3>2, <3>3, <3>4
    <2> QED BY <2>1, <2>2
  <1>8. ASSUME NEW x \in T
        PROVE  m.pprev[x] \in Bucket \cup T /\ m.link[m.pprev[x]] = x
    <2>1. CASE x = n
      BY <2>1, <1>1, <1>4, Addresses
    <2>2. CASE x # n
      <3>1. h.pprev[x] \in Bucket \cup S /\ h.link[h.pprev[x]] = x
        BY <1>0 DEF ChainsLinked
      <3>2. h.pprev[x] # p /\ h.pprev[x] # e
        BY <2>2, <1>1, <3>1
      <3> QED BY <2>2, <1>4, <3>1, <3>2
    <2> QED BY <2>1, <2>2
  <1>9. ChainsOf(m, T, w, q)
    BY <1>7, <1>8 DEF ChainsOf
  <1> QED BY <1>1, <1>3, <1>9, Addresses

\* hlist_del and hlist_del_init do the same, and differ in what they leave in
\* the node alone.
LEMMA ChainsDel ==
    ASSUME NEW S \in SUBSET Entry, NEW o, Ordered(S, o), NEW e \in S,
           NEW h \in ChainType, NEW q, ChainsOf(h, S, o, q)
    PROVE  /\ ChainsOf(hlist_del(h, e), S \ {e}, Without(o, e), q)
           /\ hlist_del(h, e) \in ChainType
           /\ ChainsOf(hlist_del_init(h, e), S \ {e}, Without(o, e), q)
           /\ hlist_del_init(h, e) \in ChainType
  <1> DEFINE g == hlist_unlink(h, e)
             T == S \ {e}
  <1>1. ChainsOf(g, T, Without(o, e), q) /\ g \in ChainType /\ h.pprev[e] # NULL
    BY ChainsUnlink
  <1>2. Without(o, e) \in [Entry -> SUBSET T]
    BY DEF Without, Ordered
  <1>3. /\ hlist_del(h, e) \in ChainType
        /\ \A s \in Bucket \cup T : hlist_del(h, e).link[s] = g.link[s]
        /\ \A x \in T : hlist_del(h, e).pprev[x] = g.pprev[x]
    BY <1>1, Addresses DEF hlist_del, ChainType, Poison
  <1>4. /\ hlist_del_init(h, e) = hlist_init_node(g, e)
        /\ hlist_init_node(g, e) \in ChainType
        /\ \A s \in Bucket \cup T : hlist_init_node(g, e).link[s] = g.link[s]
        /\ \A x \in T : hlist_init_node(g, e).pprev[x] = g.pprev[x]
    BY <1>1, Addresses DEF hlist_del_init, hlist_unhashed, hlist_init_node, ChainType
  <1>5. ChainsOf(hlist_del(h, e), T, Without(o, e), q)
    BY <1>1, <1>2, <1>3, ChainsFrame
  <1>6. ChainsOf(hlist_init_node(g, e), T, Without(o, e), q)
    BY <1>1, <1>2, <1>4, ChainsFrame
  <1> QED BY <1>3, <1>4, <1>5, <1>6

-----------------------------------------------------------------------------
\* The first entry of a ring that is not empty is the oldest, the last the newest.
LEMMA RingEnds ==
    ASSUME NEW S \in SUBSET Entry, NEW o, Ordered(S, o), NEW l, RingOf(l, S, o),
           ~k_list_empty(l, ListHead)
    PROVE  /\ k_list_first(l, ListHead) \in S
           /\ o[k_list_first(l, ListHead)] = {}
           /\ k_list_last(l, ListHead) \in S
           /\ o[k_list_last(l, ListHead)] = S \ {k_list_last(l, ListHead)}
  <1> DEFINE f == l.next[ListHead]
             z == l.prev[ListHead]
  <1>1. ListHead \notin S
    BY AddressAssumption
  <1>2. /\ f # ListHead /\ f \in After(S, o, ListHead)
        /\ \A y \in After(S, o, ListHead) \ {f} : f \in o[y]
        /\ z \in S \cup {ListHead} /\ l.next[z] = ListHead
    BY DEF RingOf, k_list_empty
  <1>3. After(S, o, ListHead) = S
    BY DEF After
  <1>4. f \in S /\ o[f] = {}
    BY <1>2, <1>3 DEF Ordered
  <1>5. z \in S /\ After(S, o, z) = {}
    BY <1>2 DEF RingOf
  <1>6. \A y \in S : z \notin o[y]
    BY <1>1, <1>5 DEF After
  <1>7. o[z] = S \ {z}
    BY <1>5, <1>6 DEF Ordered
  <1> QED BY <1>4, <1>5, <1>7 DEF k_list_first, k_list_last

-----------------------------------------------------------------------------
(* The invariant. *)

\* The pointer structures and what describes them.
Structure ==
    /\ Ordered(alive, older)
    /\ RingInOrder /\ ChainsNewestFirst /\ SizeExact

LEMMA InitIndInv == Init => IndInv
  <1> SUFFICES ASSUME Init PROVE IndInv
    OBVIOUS
  <1> USE Addresses DEF Init
  <1>2. TypeOK
    BY BucketRange DEF TypeOK, Poison
  <1>3. Structure
    BY DEF Structure, Ordered, RingInOrder, ChainsNewestFirst, SizeExact
  <1>4. HeapExact /\ DataHeldOnce
    BY DEF HeapExact, DataHeldOnce, InFlight, Filled
  <1>5. CallOK /\ ArrayOK /\ SearchOK /\ ClearOK
    BY FS_EmptySet DEF CallOK, ArrayOK, SearchOK, ClearOK, Clearing
  <1> QED BY <1>2, <1>3, <1>4, <1>5 DEF IndInv, Structure

\* Creating an array touches nothing of an array that is not there.
LEMMA CreateStep ==
    ASSUME IndInv, Create \/ CreateHt \/ CreateTable
    PROVE  IndInv'
  <1> USE DEF IndInv, Call, Return, Goto, heap, fields, links, call, cursor, history
  <1>1. CASE Create
    <2> USE <1>1 DEF Create
    <2>1. TypeOK'
      BY BucketRange DEF TypeOK, Blocks
    <2>2. Structure'
      BY DEF Structure, RingInOrder, ChainsNewestFirst, SizeExact, Clearing
    <2>3. (HeapExact /\ DataHeldOnce)'
      BY DEF HeapExact, DataHeldOnce, InFlight, Filled
    <2>4. (CallOK /\ ArrayOK)'
      BY DEF CallOK, ArrayOK, Clearing
    <2>5. (SearchOK /\ ClearOK)'
      BY DEF SearchOK, ClearOK, Clearing
    <2> QED BY <2>1, <2>2, <2>3, <2>4, <2>5 DEF Structure
  <1>2. CASE CreateHt
    <2> USE <1>2 DEF CreateHt
    <2>1. TypeOK'
      BY BucketRange DEF TypeOK, Blocks
    <2>2. Structure'
      BY DEF Structure, RingInOrder, ChainsNewestFirst, SizeExact, Clearing, ArrayOK
    <2>3. (HeapExact /\ DataHeldOnce)'
      BY DEF HeapExact, DataHeldOnce, InFlight, Filled, ArrayOK
    <2>4. (CallOK /\ ArrayOK)'
      BY DEF CallOK, ArrayOK, Clearing
    <2>5. (SearchOK /\ ClearOK)'
      BY DEF SearchOK, ClearOK, Clearing
    <2> QED BY <2>1, <2>2, <2>3, <2>4, <2>5 DEF Structure
  <1>3. CASE CreateTable
    <2> USE <1>3 DEF CreateTable, hashtable_init, EmptyArray
    <2>1. TypeOK'
      <3>1. K_INIT_LIST_HEAD(list, ListHead) \in RingType
        BY RingInit DEF TypeOK, RingType
      <3>2. list' \in RingType
        BY <3>1 DEF TypeOK, RingType
      <3>3. [ht EXCEPT !.link = [s \in Bucket \cup Entry |->
                IF s \in Bucket THEN NULL ELSE ht.link[s]]] \in ChainType
        BY DEF TypeOK, ChainType
      <3>4. ht' \in ChainType
        BY <3>3 DEF TypeOK, ChainType
      <3> QED BY <3>2, <3>4, BucketRange DEF TypeOK, Blocks, RingType, ChainType
    <2>2. Structure'
      <3>1. alive' = {} /\ alive = {} /\ older' = older /\ Ordered(alive', older')
        BY DEF ArrayOK
      <3>2. (RingInOrder /\ SizeExact)'
        <4>1. RingOf(K_INIT_LIST_HEAD(list, ListHead), {}, older')
          BY RingInit DEF TypeOK, RingType
        <4> QED BY <3>1, <4>1, FS_EmptySet
                DEF RingInOrder, SizeExact, Clearing, ArrayOK
      <3>3. ChainsNewestFirst'
        <4>1. arr' # NULL => ht' \in ChainType /\ \A b \in Bucket : ht'.link[b] = NULL
          BY <2>1, Addresses DEF ArrayOK, TypeOK, ChainType
        <4> QED BY <3>1, <4>1, ChainsInit DEF ChainsNewestFirst
      <3> QED BY <3>1, <3>2, <3>3 DEF Structure
    <2>3. (HeapExact /\ DataHeldOnce)'
      BY DEF HeapExact, DataHeldOnce, InFlight, Filled, ArrayOK, Blocks
    <2>4. (CallOK /\ ArrayOK)'
      BY AddressAssumption DEF CallOK, ArrayOK, Clearing
    <2>5. (SearchOK /\ ClearOK)'
      BY DEF SearchOK, ClearOK, Clearing
    <2> QED BY <2>1, <2>2, <2>3, <2>4, <2>5 DEF Structure
  <1> QED BY <1>1, <1>2, <1>3

\* A step that changes no pointer structure, and does not end array_free.
LEMMA StructureKept ==
    ASSUME IndInv, UNCHANGED <<arr, key, links, history>>,
           pc \notin {"clear", "clear_entry", "free_entry", "shrink"},
           pc' \notin {"free_entry", "shrink"}
    PROVE  Structure'
  BY DEF IndInv, Structure, RingInOrder, ChainsNewestFirst, SizeExact, Clearing,
         links, history

\* The table read by a search, with the facts about it spelled out.
LEMMA TableLinked ==
    ASSUME IndInv, arr # NULL
    PROVE  /\ ChainsLinked(ht, alive, older, key)
           /\ ht \in ChainType /\ list \in RingType
           /\ alive \in SUBSET Entry
  <1>1. ht \in ChainType /\ list \in RingType /\ alive \in SUBSET Entry
    BY DEF IndInv, TypeOK, ChainType, RingType
  <1>2. ChainsLinked(ht, alive, older, key)
    BY <1>1, ChainsFacts DEF IndInv, ChainsNewestFirst
  <1> QED BY <1>1, <1>2

\* The calls that return at once, and the one that starts with malloc.
LEMMA CallStep ==
    ASSUME IndInv, CallOnNull \/ GetEnd \/ Add
    PROVE  IndInv'
  <1> USE DEF IndInv, Call, Return, Goto, heap, fields, links, call, cursor, history
  <1>1. CASE CallOnNull
    <2> USE <1>1 DEF CallOnNull
    <2>1. TypeOK'
      BY BucketRange DEF TypeOK
    <2>2. Structure'
      BY StructureKept
    <2>3. (HeapExact /\ DataHeldOnce)'
      BY DEF HeapExact, DataHeldOnce, InFlight, Filled
    <2>4. (CallOK /\ ArrayOK)'
      BY DEF CallOK, ArrayOK, Clearing
    <2>5. (SearchOK /\ ClearOK)'
      BY DEF SearchOK, ClearOK, Clearing
    <2> QED BY <2>1, <2>2, <2>3, <2>4, <2>5 DEF Structure
  <1>2. CASE GetEnd
    <2> USE <1>2 DEF GetEnd, EndOf
    <2>0. pc = "idle" /\ pc' = "idle" /\ ret' \in alive \cup {NULL}
      <3>1. RingOf(list, alive, older) /\ alive \in SUBSET Entry
        BY DEF RingInOrder, Clearing, TypeOK
      <3> QED BY <3>1, RingEnds DEF ListEmpty
    <2>1. TypeOK'
      BY <2>0, BucketRange DEF TypeOK
    <2>2. Structure'
      BY StructureKept
    <2>3. (HeapExact /\ DataHeldOnce)'
      BY DEF HeapExact, DataHeldOnce, InFlight, Filled
    <2>4. (CallOK /\ ArrayOK)'
      BY DEF CallOK, ArrayOK, Clearing
    <2>5. (SearchOK /\ ClearOK)'
      BY DEF SearchOK, ClearOK, Clearing
    <2> QED BY <2>1, <2>2, <2>3, <2>4, <2>5 DEF Structure
  <1>3. CASE Add
    <2> USE <1>3 DEF Add
    <2>1. TypeOK'
      BY BucketRange DEF TypeOK
    <2>2. Structure'
      BY StructureKept
    <2>3. (HeapExact /\ DataHeldOnce)'
      BY DEF HeapExact, DataHeldOnce, InFlight, Filled
    <2>4. (CallOK /\ ArrayOK)'
      BY DEF CallOK, ArrayOK, Clearing
    <2>5. (SearchOK /\ ClearOK)'
      BY DEF SearchOK, ClearOK, Clearing
    <2> QED BY <2>1, <2>2, <2>3, <2>4, <2>5 DEF Structure
  <1> QED BY <1>1, <1>2, <1>3

\* The start of a search, and the choice of the entry at an end of the ring.
LEMMA StartStep ==
    ASSUME IndInv, Search \/ DelEnd
    PROVE  IndInv'
  <1> USE DEF IndInv, Call, Return, Goto, heap, fields, links, call, cursor, history
  <1>1. CASE Search
    <2> USE <1>1 DEF Search
    <2>0. PICK q \in Key : /\ k' = q /\ bkt' = BucketOf(q) /\ cur' = ht.link[BucketOf(q)]
                           /\ BucketOf(q) \in Bucket
      BY BucketOfType
    <2>00. ChainsLinked(ht, alive, older, key)
      BY TableLinked
    <2>1. TypeOK'
      <3>1. cur' \in alive \cup {NULL}
        BY <2>0, <2>00 DEF ChainsLinked
      <3> QED BY <2>0, <3>1 DEF TypeOK
    <2>2. Structure'
      BY StructureKept
    <2>3. (HeapExact /\ DataHeldOnce)'
      <3>1. cur' \in alive \cup {NULL}
        BY <2>0, <2>00 DEF ChainsLinked
      <3> QED BY <3>1 DEF HeapExact, DataHeldOnce, InFlight, Filled
    <2>4. (CallOK /\ ArrayOK)'
      BY DEF CallOK, ArrayOK, Clearing
    <2>5. (SearchOK /\ ClearOK)'
      <3>1. Behind(alive, older, key, bkt') = {y \in alive : BucketOf(key[y]) = bkt'}
        BY <2>0, BehindBucket
      <3>2. /\ cur' # NULL => cur' \in Behind(alive, older, key, bkt')
            /\ cur' = NULL => Behind(alive, older, key, bkt') = {}
            /\ \A y \in Behind(alive, older, key, bkt') \ {cur'} : y \in older[cur']
        BY <2>0, <2>00 DEF ChainsLinked
      <3> QED BY <2>0, <3>1, <3>2 DEF SearchOK, ClearOK, Clearing
    <2> QED BY <2>1, <2>2, <2>3, <2>4, <2>5 DEF Structure
  <1>2. CASE DelEnd
    <2> USE <1>2 DEF DelEnd, EndOf
    <2>0. /\ pc = "idle"
          /\ op' \in {"del_first", "del_last"} /\ k' = NULL /\ d' = NULL
          /\ \/ pc' = "idle" /\ ret' = -1 /\ bkt' = 0 /\ cur' = NULL /\ tmp' = NULL
             \/ /\ pc' = "unlink" /\ ret' = ret /\ bkt' = bkt /\ tmp' = tmp
                /\ cur' \in alive
                /\ op' = "del_first" => older[cur'] = {}
                /\ op' = "del_last" => older[cur'] = alive \ {cur'}
      <3>1. RingOf(list, alive, older) /\ alive \in SUBSET Entry
        BY DEF RingInOrder, Clearing, TypeOK
      <3> QED BY <3>1, RingEnds DEF ListEmpty
    <2>1. TypeOK'
      BY <2>0, BucketRange DEF TypeOK
    <2>2. Structure'
      BY <2>0, StructureKept
    <2>3. (HeapExact /\ DataHeldOnce)'
      BY <2>0 DEF HeapExact, DataHeldOnce, InFlight, Filled
    <2>4. (CallOK /\ ArrayOK)'
      BY <2>0 DEF CallOK, ArrayOK, Clearing
    <2>5. (SearchOK /\ ClearOK)'
      BY <2>0 DEF SearchOK, ClearOK, Clearing
    <2> QED BY <2>1, <2>2, <2>3, <2>4, <2>5 DEF Structure
  <1> QED BY <1>1, <1>2

\* The steps of a search.
LEMMA SearchStep ==
    ASSUME IndInv, SearchEnd \/ SearchHit \/ SearchNext
    PROVE  IndInv'
  <1> USE DEF IndInv, Call, Return, Goto, heap, fields, links, call, cursor, history
  <1>0. /\ pc = "search" /\ arr # NULL /\ ChainsLinked(ht, alive, older, key)
        /\ cur \in alive \cup {NULL}
    BY TableLinked DEF SearchEnd, SearchHit, SearchNext, ArrayOK, HeapExact
  <1>1. CASE SearchEnd
    <2> USE <1>0, <1>1 DEF SearchEnd
    <2>1. TypeOK'
      BY BucketRange DEF TypeOK
    <2>2. Structure'
      BY StructureKept
    <2>3. (HeapExact /\ DataHeldOnce)'
      BY DEF HeapExact, DataHeldOnce, InFlight, Filled
    <2>4. (CallOK /\ ArrayOK)'
      BY DEF CallOK, ArrayOK, Clearing
    <2>5. (SearchOK /\ ClearOK)'
      BY DEF SearchOK, ClearOK, Clearing
    <2> QED BY <2>1, <2>2, <2>3, <2>4, <2>5 DEF Structure
  <1>2. CASE SearchHit
    <2> USE <1>0, <1>2 DEF SearchHit
    <2>1. TypeOK'
      BY BucketRange DEF TypeOK
    <2>2. Structure'
      BY StructureKept
    <2>3. (HeapExact /\ DataHeldOnce)'
      BY DEF HeapExact, DataHeldOnce, InFlight, Filled
    <2>4. (CallOK /\ ArrayOK)'
      BY DEF CallOK, ArrayOK, Clearing
    <2>5. (SearchOK /\ ClearOK)'
      BY DEF SearchOK, ClearOK, Clearing, NotOlderThanAny
    <2> QED BY <2>1, <2>2, <2>3, <2>4, <2>5 DEF Structure
  <1>3. CASE SearchNext
    <2> USE <1>0, <1>3 DEF SearchNext, chain_next
    <2>0. cur \in alive /\ cur' \in alive \cup {NULL} /\ key[cur] # k
      <3>1. KeyMatches(k, k) = {TRUE}
        BY DEF KeyMatches
      <3> QED BY <3>1 DEF ChainsLinked
    <2>1. TypeOK'
      BY <2>0 DEF TypeOK
    <2>2. Structure'
      BY StructureKept
    <2>3. (HeapExact /\ DataHeldOnce)'
      BY <2>0 DEF HeapExact, DataHeldOnce, InFlight, Filled
    <2>4. (CallOK /\ ArrayOK)'
      BY DEF CallOK, ArrayOK, Clearing
    <2>5. (SearchOK /\ ClearOK)'
      <3>1. Behind(alive, older, key, cur)
              = {y \in older[cur] : BucketOf(key[y]) = BucketOf(key[cur])}
        BY <2>0, BehindEntry DEF TypeOK
      <3>2. /\ cur' # NULL => cur' \in Behind(alive, older, key, cur)
            /\ cur' = NULL => Behind(alive, older, key, cur) = {}
            /\ \A y \in Behind(alive, older, key, cur) \ {cur'} : y \in older[cur']
        BY <2>0 DEF ChainsLinked
      <3>3. ASSUME NEW y \in alive, key[y] = k
            PROVE  y \in Behind(alive, older, key, cur)
        BY <2>0, <3>1, <3>3 DEF SearchOK
      <3>4. bkt = BucketOf(k) /\ BucketOf(key[cur]) = bkt
        BY <2>0 DEF SearchOK
      <3> QED BY <2>0, <3>1, <3>2, <3>3, <3>4 DEF SearchOK, ClearOK, Clearing
    <2> QED BY <2>1, <2>2, <2>3, <2>4, <2>5 DEF Structure
  <1> QED BY <1>1, <1>2, <1>3

\* The history step of a removal.
LEMMA Forgotten ==
    ASSUME IndInv, NEW e \in alive, Forget(e)
    PROVE  /\ older' = Without(older, e)
           /\ Ordered(alive', older')
           /\ IsFiniteSet(alive')
           /\ Cardinality(alive') = Cardinality(alive) - 1
           /\ Cardinality(alive) \in Nat
  <1>1. IsFiniteSet(alive) /\ alive \in SUBSET Entry
    BY DEF IndInv, ArrayOK, TypeOK
  <1>2. Ordered(alive \ {e}, Without(older, e))
    BY <1>1, OrderedWithout DEF IndInv
  <1>3. older' = Without(older, e) /\ alive' = alive \ {e}
    BY DEF Forget, Without
  <1> QED BY <1>1, <1>2, <1>3, FS_RemoveElement, FS_CardinalityType

\* The entry leaves both structures.
LEMMA UnlinkStep ==
    ASSUME IndInv, Unlink
    PROVE  IndInv'
  <1> USE DEF IndInv, Call, Return, Goto, heap, fields, links, call, cursor, history, Unlink
  <1>0. /\ pc = "unlink" /\ pc' = "free_entry" /\ arr # NULL /\ ~Clearing /\ ~Clearing'
        /\ cur \in alive /\ alive \in SUBSET Entry /\ alive' = alive \ {cur}
        /\ ht \in ChainType /\ list \in RingType
    BY TableLinked DEF Clearing, ArrayOK, HeapExact, Forget
  <1>a. /\ older' = Without(older, cur)
        /\ Ordered(alive', older')
        /\ IsFiniteSet(alive')
        /\ Cardinality(alive') = Cardinality(alive) - 1
        /\ Cardinality(alive) \in Nat
    BY <1>0, Forgotten
  <1>b. ChainsOf(ht', alive', older', key) /\ ht' \in ChainType
    <2>1. /\ ChainsOf(hlist_del(ht, cur), alive \ {cur}, Without(older, cur), key)
          /\ hlist_del(ht, cur) \in ChainType
      BY <1>0, ChainsDel DEF ChainsNewestFirst
    <2> QED BY <1>0, <1>a, <2>1
  <1>c. /\ RingOf(list', alive', older') /\ list' \in RingType
    <2>1. /\ RingOf(k_list_del(list, cur), alive \ {cur}, Without(older, cur))
          /\ k_list_del(list, cur) \in RingType
      BY <1>0, RingDel DEF RingInOrder
    <2> QED BY <1>0, <1>a, <2>1
  <1>1. TypeOK'
    <2>1. older' \in [Entry -> SUBSET Entry]
      BY <1>0, <1>a DEF Ordered
    <2> QED BY <1>0, <1>b, <1>c, <2>1 DEF TypeOK, ChainType, RingType
  <1>2. Structure'
    BY <1>0, <1>a, <1>b, <1>c
       DEF Structure, RingInOrder, ChainsNewestFirst, SizeExact
  <1>3. (HeapExact /\ DataHeldOnce)'
    <2>1. Filled' = alive /\ Filled = alive
      BY <1>0 DEF Filled
    <2> QED BY <1>0, <2>1 DEF HeapExact, DataHeldOnce, InFlight
  <1>4. (CallOK /\ ArrayOK)'
    BY <1>0, <1>a DEF CallOK, ArrayOK, Clearing
  <1>5. (SearchOK /\ ClearOK)'
    BY <1>0 DEF SearchOK, ClearOK
  <1> QED BY <1>1, <1>2, <1>3, <1>4, <1>5 DEF Structure

\* What the callback leaves when it has freed an entry that is out of the array.
LEMMA Freed ==
    ASSUME IndInv, pc \in {"free_entry", "clear_entry"},
           free_assoc_array_entry(cur), UNCHANGED history
    PROVE  /\ cur \in Entry /\ cur \notin alive
           /\ mem' = alive
           /\ held' = {data'[e] : e \in alive}
           /\ \A e \in alive : key'[e] = key[e] /\ data'[e] = data[e]
           /\ key' \in [Entry -> Key \cup {NULL}]
           /\ data' \in [Entry -> Data \cup {NULL}]
           /\ mem' \subseteq Entry /\ held' \subseteq Data
  <1>1. /\ InFlight = {cur} /\ Filled = alive \cup {cur}
        /\ cur \in Entry /\ cur \notin alive /\ mem = alive \cup {cur}
    BY DEF IndInv, HeapExact, TypeOK, InFlight, Filled
  <1>2. \A e \in alive : key'[e] = key[e] /\ data'[e] = data[e]
    BY <1>1 DEF free_assoc_array_entry, IndInv, TypeOK
  <1>3. held' = {data[e] : e \in alive}
    BY <1>1 DEF free_assoc_array_entry, IndInv, DataHeldOnce
  <1>4. mem' = alive
    BY <1>1 DEF free_assoc_array_entry
  <1> QED BY <1>1, <1>2, <1>3, <1>4 DEF free_assoc_array_entry, IndInv, TypeOK

\* The callback, and the counter after it.
LEMMA FreeEntryStep ==
    ASSUME IndInv, FreeEntry \/ Shrink
    PROVE  IndInv'
  <1> USE DEF IndInv, Call, Return, Goto, heap, fields, links, call, cursor, history
  <1>1. CASE FreeEntry
    <2> USE <1>1 DEF FreeEntry
    <2>0. /\ cur \in Entry /\ cur \notin alive
          /\ mem' = alive
          /\ held' = {data'[e] : e \in alive}
          /\ \A e \in alive : key'[e] = key[e] /\ data'[e] = data[e]
          /\ key' \in [Entry -> Key \cup {NULL}]
          /\ data' \in [Entry -> Data \cup {NULL}]
          /\ mem' \subseteq Entry /\ held' \subseteq Data
      BY Freed
    <2>00. pc = "free_entry" /\ pc' = "shrink" /\ arr # NULL /\ ~Clearing /\ ~Clearing'
      BY DEF Clearing, ArrayOK
    <2>1. TypeOK'
      BY <2>0 DEF TypeOK
    <2>2. Structure'
      <3>1. ChainsOf(ht, alive, older, key')
        <4>1. ChainsOf(ht, alive, older, key) /\ alive \in SUBSET Entry
              /\ older \in [Entry -> SUBSET alive]
          BY <2>00 DEF ChainsNewestFirst, Ordered, TypeOK
        <4> QED BY <2>0, <4>1, ChainsFrame
      <3> QED BY <2>00, <3>1 DEF Structure, RingInOrder, ChainsNewestFirst, SizeExact
    <2>3. (HeapExact /\ DataHeldOnce)'
      <3>1. Filled' = alive /\ alive \subseteq Filled /\ InFlight' = {}
        BY <2>00 DEF Filled, InFlight
      <3> QED BY <2>0, <2>00, <3>1 DEF HeapExact, DataHeldOnce
    <2>4. (CallOK /\ ArrayOK)'
      BY <2>0, <2>00 DEF CallOK, ArrayOK, free_assoc_array_entry
    <2>5. (SearchOK /\ ClearOK)'
      BY <2>00 DEF SearchOK, ClearOK
    <2> QED BY <2>1, <2>2, <2>3, <2>4, <2>5 DEF Structure
  <1>2. CASE Shrink
    <2> USE <1>2 DEF Shrink
    <2>0. /\ pc = "shrink" /\ pc' \in {"idle", "malloc_entry"}
          /\ arr # NULL /\ ~Clearing /\ ~Clearing'
          /\ Cardinality(alive) \in Nat /\ size' = Cardinality(alive)
      BY FS_CardinalityType DEF Clearing, ArrayOK, SizeExact
    <2>1. TypeOK'
      BY <2>0, BucketRange DEF TypeOK
    <2>2. Structure'
      BY <2>0 DEF Structure, RingInOrder, ChainsNewestFirst, SizeExact
    <2>3. (HeapExact /\ DataHeldOnce)'
      BY <2>0 DEF HeapExact, DataHeldOnce, InFlight, Filled
    <2>4. (CallOK /\ ArrayOK)'
      BY <2>0 DEF CallOK, ArrayOK
    <2>5. (SearchOK /\ ClearOK)'
      BY <2>0 DEF SearchOK, ClearOK
    <2> QED BY <2>1, <2>2, <2>3, <2>4, <2>5 DEF Structure
  <1> QED BY <1>1, <1>2

\* The two allocations of array_add, with their failures.
LEMMA AllocStep ==
    ASSUME IndInv, MallocEntry \/ FillEntry
    PROVE  IndInv'
  <1> USE DEF IndInv, Call, Return, Goto, heap, fields, links, call, cursor, history
  <1>1. CASE MallocEntry
    <2> USE <1>1 DEF MallocEntry
    <2>0. /\ pc = "malloc_entry" /\ arr # NULL
          /\ \/ pc' = "idle" /\ mem' = mem /\ cur' = NULL
             \/ pc' = "fill_entry" /\ cur' \in Entry \ mem /\ mem' = mem \cup {cur'}
      BY DEF ArrayOK
    <2>1. TypeOK'
      BY <2>0, BucketRange DEF TypeOK
    <2>2. Structure'
      BY <2>0, StructureKept
    <2>3. (HeapExact /\ DataHeldOnce)'
      BY <2>0 DEF HeapExact, DataHeldOnce, InFlight, Filled
    <2>4. (CallOK /\ ArrayOK)'
      BY <2>0 DEF CallOK, ArrayOK, Clearing
    <2>5. (SearchOK /\ ClearOK)'
      BY <2>0 DEF SearchOK, ClearOK, Clearing
    <2> QED BY <2>1, <2>2, <2>3, <2>4, <2>5 DEF Structure
  <1>2. CASE FillEntry
    <2> USE <1>2 DEF FillEntry, fill_assoc_array_entry
    <2>0. /\ pc = "fill_entry" /\ arr # NULL /\ mem = alive \cup {cur}
          /\ cur \in Entry /\ cur \notin alive /\ ~Clearing /\ ~Clearing'
          /\ k \in Key /\ d \in Data /\ d \notin held
          /\ alive \in SUBSET Entry
      BY DEF ArrayOK, HeapExact, InFlight, TypeOK, CallOK, Clearing
    <2>00. \A e \in alive : key'[e] = key[e] /\ data'[e] = data[e]
      BY <2>0 DEF TypeOK
    <2>1. TypeOK'
      BY <2>0, BucketRange DEF TypeOK
    <2>2. Structure'
      <3>1. ChainsOf(ht, alive, older, key')
        <4>1. ChainsOf(ht, alive, older, key) /\ older \in [Entry -> SUBSET alive]
          BY <2>0 DEF ChainsNewestFirst, Ordered
        <4> QED BY <2>0, <2>00, <4>1, ChainsFrame
      <3> QED BY <2>0, <3>1 DEF Structure, RingInOrder, ChainsNewestFirst, SizeExact
    <2>3. (HeapExact /\ DataHeldOnce)'
      <3>1. CASE pc' = "idle"
        BY <2>0, <3>1 DEF HeapExact, DataHeldOnce, InFlight, Filled
      <3>2. CASE pc' = "link"
        <4>1. /\ cur' = cur /\ mem' = mem /\ data'[cur] = d /\ held' = held \cup {d}
              /\ Filled = alive /\ Filled' = alive \cup {cur}
          BY <2>0, <3>2 DEF Filled, TypeOK
        <4>2. held' = {data'[e] : e \in Filled'}
          BY <2>00, <4>1 DEF DataHeldOnce
        <4>3. \A x, y \in Filled' : data'[x] = data'[y] => x = y
          BY <2>0, <2>00, <4>1 DEF DataHeldOnce
        <4> QED BY <2>0, <3>2, <4>1, <4>2, <4>3 DEF HeapExact, DataHeldOnce, InFlight
      <3> QED BY <3>1, <3>2
    <2>4. (CallOK /\ ArrayOK)'
      BY <2>0, <2>00 DEF CallOK, ArrayOK, TypeOK
    <2>5. (SearchOK /\ ClearOK)'
      BY <2>0 DEF SearchOK, ClearOK
    <2> QED BY <2>1, <2>2, <2>3, <2>4, <2>5 DEF Structure
  <1> QED BY <1>1, <1>2

\* The new entry joins both structures.
LEMMA LinkStep ==
    ASSUME IndInv, LinkEntry
    PROVE  IndInv'
  <1> USE DEF IndInv, Call, Return, Goto, heap, fields, links, call, cursor, history, LinkEntry
  <1>0. /\ pc = "link" /\ pc' = "idle" /\ arr # NULL /\ ~Clearing /\ ~Clearing'
        /\ cur \in Entry \ alive /\ alive \in SUBSET Entry /\ mem = alive \cup {cur}
        /\ key[cur] = k /\ k \in Key /\ BucketOf(k) \in Bucket
        /\ ht \in ChainType /\ list \in RingType
        /\ older' = WithNewest(older, alive, cur)
    BY TableLinked, BucketOfType
       DEF Clearing, ArrayOK, HeapExact, InFlight, CallOK, TypeOK, WithNewest
  <1>a. /\ Ordered(alive', older')
        /\ IsFiniteSet(alive')
        /\ Cardinality(alive') = Cardinality(alive) + 1
        /\ Cardinality(alive) \in Nat
    <2>1. Ordered(alive \cup {cur}, WithNewest(older, alive, cur))
      BY <1>0, OrderedWithNewest
    <2> QED BY <1>0, <2>1, FS_AddElement, FS_CardinalityType DEF ArrayOK
  <1>b. ChainsOf(ht', alive', older', key) /\ ht' \in ChainType
    <2>1. /\ ChainsOf(hlist_add_head(ht, cur, BucketOf(key[cur])), alive \cup {cur},
                      WithNewest(older, alive, cur), key)
          /\ hlist_add_head(ht, cur, BucketOf(key[cur])) \in ChainType
      BY <1>0, ChainsAddHead DEF ChainsNewestFirst
    <2> QED BY <1>0, <2>1
  <1>c. RingOf(list', alive', older') /\ list' \in RingType
    <2>1. /\ RingOf(k_list_add_tail(list, cur, ListHead), alive \cup {cur},
                    WithNewest(older, alive, cur))
          /\ k_list_add_tail(list, cur, ListHead) \in RingType
      BY <1>0, RingAddTail DEF RingInOrder
    <2> QED BY <1>0, <2>1
  <1>1. TypeOK'
    <2>1. older' \in [Entry -> SUBSET Entry]
      BY <1>0, <1>a DEF Ordered
    <2> QED BY <1>0, <1>a, <1>b, <1>c, <2>1, BucketRange DEF TypeOK, ChainType, RingType
  <1>2. Structure'
    BY <1>0, <1>a, <1>b, <1>c
       DEF Structure, RingInOrder, ChainsNewestFirst, SizeExact
  <1>3. (HeapExact /\ DataHeldOnce)'
    BY <1>0 DEF HeapExact, DataHeldOnce, InFlight, Filled
  <1>4. (CallOK /\ ArrayOK)'
    BY <1>0, <1>a DEF CallOK, ArrayOK
  <1>5. (SearchOK /\ ClearOK)'
    BY <1>0 DEF SearchOK, ClearOK
  <1> QED BY <1>1, <1>2, <1>3, <1>4, <1>5 DEF Structure

\* The slot of a bucket, and what an empty bucket means.
LEMMA BucketSlot ==
    ASSUME IndInv, arr # NULL, NEW b \in Bucket
    PROVE  /\ ht.link[b] \in alive \cup {NULL}
           /\ ht.link[b] # NULL => BucketOf(key[ht.link[b]]) = b
           /\ ht.link[b] = NULL => \A e \in alive : BucketOf(key[e]) # b
  <1>1. ChainsLinked(ht, alive, older, key)
    BY TableLinked
  <1>2. Behind(alive, older, key, b) = {y \in alive : BucketOf(key[y]) = b}
    BY BehindBucket
  <1> QED BY <1>1, <1>2 DEF ChainsLinked

\* array_free, from the call to the step before the last.
LEMMA ClearStep ==
    ASSUME IndInv, Free \/ ClearUnlink \/ ClearEntry \/ ClearBucket
    PROVE  IndInv'
  <1> USE DEF IndInv, Call, Return, Goto, heap, fields, links, call, cursor, history
  <1>0. \A e \in alive : BucketOf(key[e]) \in Bucket
    BY BucketOfType DEF ArrayOK
  <1>1. CASE Free
    <2> USE <1>1 DEF Free
    <2>0. /\ pc = "idle" /\ pc' = "clear" /\ arr # NULL /\ Clearing' /\ ~Clearing
          /\ ht.link[0] \in alive \cup {NULL}
      BY BucketSlot, BucketRange DEF Clearing
    <2>1. TypeOK'
      BY <2>0, BucketRange DEF TypeOK
    <2>2. Structure'
      BY <2>0 DEF Structure, RingInOrder, ChainsNewestFirst, SizeExact
    <2>3. (HeapExact /\ DataHeldOnce)'
      BY <2>0 DEF HeapExact, DataHeldOnce, InFlight, Filled
    <2>4. (CallOK /\ ArrayOK)'
      BY <2>0 DEF CallOK, ArrayOK
    <2>5. (SearchOK /\ ClearOK)'
      <3>1. \A b \in Bucket : b >= 0
        BY BucketRange
      <3> QED BY <1>0, <2>0, <3>1 DEF SearchOK, ClearOK
    <2> QED BY <2>1, <2>2, <2>3, <2>4, <2>5 DEF Structure
  <1>2. CASE ClearUnlink
    <2> USE <1>2 DEF ClearUnlink, chain_next
    <2>0. /\ pc = "clear" /\ pc' = "clear_entry" /\ arr # NULL /\ Clearing' /\ Clearing
          /\ cur \in alive /\ alive \in SUBSET Entry /\ alive' = alive \ {cur}
          /\ cur = ht.link[bkt] /\ bkt \in Bucket
          /\ ht \in ChainType
          /\ ChainsLinked(ht, alive, older, key)
      BY TableLinked DEF Clearing, ArrayOK, HeapExact, ClearOK, TypeOK, Forget
    <2>a. /\ older' = Without(older, cur)
          /\ Ordered(alive', older')
          /\ IsFiniteSet(alive')
      BY <2>0, Forgotten
    <2>b. ChainsOf(ht', alive', older', key) /\ ht' \in ChainType
      <3>1. /\ ChainsOf(hlist_del_init(ht, cur), alive \ {cur}, Without(older, cur), key)
            /\ hlist_del_init(ht, cur) \in ChainType
        BY <2>0, ChainsDel DEF ChainsNewestFirst
      <3> QED BY <2>0, <2>a, <3>1
    <2>c. tmp' \in alive' \cup {NULL} /\ tmp' = ht'.link[bkt]
      <3>1. ht.pprev[cur] = bkt /\ tmp' \in alive \cup {NULL} /\ tmp' # cur
        BY <2>0, Addresses DEF ChainsLinked
      <3>2. ht'.link = [[ht.link EXCEPT ![bkt] = tmp'] EXCEPT ![cur] = NULL]
        BY <2>0, <3>1, Addresses
           DEF hlist_del_init, hlist_unhashed, hlist_unlink, hlist_init_node
      <3> QED BY <2>0, <3>1, <3>2, Addresses DEF ChainType
    <2>1. TypeOK'
      <3>1. older' \in [Entry -> SUBSET Entry]
        BY <2>0, <2>a DEF Ordered
      <3> QED BY <2>0, <2>b, <2>c, <3>1 DEF TypeOK, ChainType
    <2>2. Structure'
      BY <2>0, <2>a, <2>b DEF Structure, RingInOrder, ChainsNewestFirst, SizeExact
    <2>3. (HeapExact /\ DataHeldOnce)'
      <3>1. Filled' = alive /\ Filled = alive
        BY <2>0 DEF Filled
      <3> QED BY <2>0, <2>c, <3>1 DEF HeapExact, DataHeldOnce, InFlight
    <2>4. (CallOK /\ ArrayOK)'
      BY <2>0, <2>a DEF CallOK, ArrayOK, Clearing
    <2>5. (SearchOK /\ ClearOK)'
      BY <2>0, <2>c DEF SearchOK, ClearOK
    <2> QED BY <2>1, <2>2, <2>3, <2>4, <2>5 DEF Structure
  <1>3. CASE ClearEntry
    <2> USE <1>3 DEF ClearEntry
    <2>0. /\ cur \in Entry /\ cur \notin alive
          /\ mem' = alive
          /\ held' = {data'[e] : e \in alive}
          /\ \A e \in alive : key'[e] = key[e] /\ data'[e] = data[e]
          /\ key' \in [Entry -> Key \cup {NULL}]
          /\ data' \in [Entry -> Data \cup {NULL}]
          /\ mem' \subseteq Entry /\ held' \subseteq Data
      BY Freed
    <2>00. pc = "clear_entry" /\ pc' = "clear" /\ arr # NULL /\ Clearing /\ Clearing'
      BY DEF Clearing, ArrayOK
    <2>1. TypeOK'
      BY <2>0 DEF TypeOK
    <2>2. Structure'
      <3>1. ChainsOf(ht, alive, older, key')
        <4>1. ChainsOf(ht, alive, older, key) /\ alive \in SUBSET Entry
              /\ older \in [Entry -> SUBSET alive]
          BY <2>00 DEF ChainsNewestFirst, Ordered, TypeOK
        <4> QED BY <2>0, <4>1, ChainsFrame
      <3> QED BY <2>00, <3>1 DEF Structure, RingInOrder, ChainsNewestFirst, SizeExact
    <2>3. (HeapExact /\ DataHeldOnce)'
      <3>1. Filled' = alive /\ alive \subseteq Filled /\ InFlight' = {}
        BY <2>00 DEF Filled, InFlight
      <3> QED BY <2>0, <2>00, <3>1 DEF HeapExact, DataHeldOnce
    <2>4. (CallOK /\ ArrayOK)'
      BY <2>0, <2>00 DEF CallOK, ArrayOK
    <2>5. (SearchOK /\ ClearOK)'
      BY <2>0, <2>00 DEF SearchOK, ClearOK
    <2> QED BY <2>1, <2>2, <2>3, <2>4, <2>5 DEF Structure
  <1>4. CASE ClearBucket
    <2> USE <1>4 DEF ClearBucket
    <2>0. /\ pc = "clear" /\ pc' = "clear" /\ arr # NULL /\ Clearing /\ Clearing'
          /\ bkt \in Bucket /\ ht.link[bkt] = NULL
          /\ bkt + 1 \in Bucket
      BY BucketRange DEF Clearing, ArrayOK, ClearOK, TypeOK
    <2>00. ht.link[bkt + 1] \in alive \cup {NULL}
      BY <2>0, BucketSlot
    <2>1. TypeOK'
      BY <2>0, <2>00 DEF TypeOK
    <2>2. Structure'
      BY <2>0 DEF Structure, RingInOrder, ChainsNewestFirst, SizeExact
    <2>3. (HeapExact /\ DataHeldOnce)'
      BY <2>0, <2>00 DEF HeapExact, DataHeldOnce, InFlight, Filled
    <2>4. (CallOK /\ ArrayOK)'
      BY <2>0 DEF CallOK, ArrayOK
    <2>5. (SearchOK /\ ClearOK)'
      <3>1. \A e \in alive : BucketOf(key[e]) # bkt
        BY <2>0, BucketSlot
      <3>2. \A e \in alive : BucketOf(key[e]) >= bkt + 1
        BY <1>0, <2>0, <3>1, BucketRange DEF ClearOK
      <3> QED BY <2>0, <3>2 DEF SearchOK, ClearOK
    <2> QED BY <2>1, <2>2, <2>3, <2>4, <2>5 DEF Structure
  <1> QED BY <1>1, <1>2, <1>3, <1>4

\* The end of array_free: every bucket is empty, so no entry is left.
LEMMA FreeArrayStep ==
    ASSUME IndInv, FreeArray
    PROVE  IndInv'
  <1> USE DEF IndInv, Call, Return, Goto, heap, fields, links, call, cursor, history, FreeArray
  <1>0. /\ pc = "clear" /\ arr # NULL /\ Clearing /\ arr' = NULL /\ pc' = "idle"
        /\ bkt \in Bucket /\ ht.link[bkt] = NULL
    BY DEF Clearing, ArrayOK, ClearOK, TypeOK
  <1>a. alive = {}
    <2> SUFFICES ASSUME NEW e \in alive PROVE FALSE
      OBVIOUS
    <2>1. BucketOf(key[e]) \in Bucket /\ BucketOf(key[e]) # bkt
      BY <1>0, BucketOfType, BucketSlot DEF ArrayOK
    <2>2. BucketOf(key[e]) >= bkt /\ BucketOf(key[e]) <= bkt
      BY <1>0, <2>1, BucketRange DEF ClearOK
    <2> QED BY <1>0, <2>1, <2>2, BucketRange
  <1>1. TypeOK'
    BY <1>0, BucketRange DEF TypeOK
  <1>2. Structure'
    BY <1>0 DEF Structure, RingInOrder, ChainsNewestFirst, SizeExact
  <1>3. (HeapExact /\ DataHeldOnce)'
    BY <1>0 DEF HeapExact, DataHeldOnce, InFlight, Filled
  <1>4. (CallOK /\ ArrayOK)'
    BY <1>0, <1>a DEF CallOK, ArrayOK, Clearing
  <1>5. (SearchOK /\ ClearOK)'
    BY <1>0 DEF SearchOK, ClearOK, Clearing
  <1> QED BY <1>1, <1>2, <1>3, <1>4, <1>5 DEF Structure

\* Every step keeps the inductive invariant.
LEMMA NextIndInv == IndInv /\ [Next]_vars => IndInv'
  <1> SUFFICES ASSUME IndInv, [Next]_vars PROVE IndInv'
    OBVIOUS
  <1>1. CASE Create \/ CreateHt \/ CreateTable
    BY <1>1, CreateStep
  <1>2. CASE CallOnNull \/ GetEnd \/ Add
    BY <1>2, CallStep
  <1>3. CASE Search \/ DelEnd
    BY <1>3, StartStep
  <1>4. CASE SearchEnd \/ SearchHit \/ SearchNext
    BY <1>4, SearchStep
  <1>5. CASE Unlink
    BY <1>5, UnlinkStep
  <1>6. CASE FreeEntry \/ Shrink
    BY <1>6, FreeEntryStep
  <1>7. CASE MallocEntry \/ FillEntry
    BY <1>7, AllocStep
  <1>8. CASE LinkEntry
    BY <1>8, LinkStep
  <1>9. CASE Free \/ ClearUnlink \/ ClearEntry \/ ClearBucket
    BY <1>9, ClearStep
  <1>10. CASE FreeArray
    BY <1>10, FreeArrayStep
  <1>11. CASE UNCHANGED vars
    <2> USE <1>11 DEF vars, heap, fields, links, call, cursor, history, IndInv
    <2>1. TypeOK'
      BY DEF TypeOK
    <2>2. Structure'
      BY DEF Structure, RingInOrder, ChainsNewestFirst, SizeExact, Clearing
    <2>3. (HeapExact /\ DataHeldOnce)'
      BY DEF HeapExact, DataHeldOnce, InFlight, Filled
    <2>4. (CallOK /\ ArrayOK)'
      BY DEF CallOK, ArrayOK, Clearing
    <2>5. (SearchOK /\ ClearOK)'
      BY DEF SearchOK, ClearOK, Clearing, NotOlderThanAny
    <2> QED BY <2>1, <2>2, <2>3, <2>4, <2>5 DEF Structure
  <1> QED
    BY <1>1, <1>2, <1>3, <1>4, <1>5, <1>6, <1>7, <1>8, <1>9, <1>10, <1>11
       DEF Next, Calls, Step

\* IndInv holds in every state of every behaviour of the array, for any number of
\* entries, keys and buckets, whichever allocations fail.
THEOREM Invariance == Spec => []IndInv
  <1>1. Init => IndInv
    BY InitIndInv
  <1>2. IndInv /\ [Next]_vars => IndInv'
    BY NextIndInv
  <1> QED BY <1>1, <1>2, PTL DEF Spec

\* Type correctness.
THEOREM TypeCorrect == Spec => []TypeOK
  <1>1. IndInv => TypeOK
    BY DEF IndInv
  <1> QED BY <1>1, Invariance, PTL

\* The ring is the array's entries in the order they were added, and prev undoes
\* next, whenever array_free is not running.
THEOREM RingCorrect == Spec => []RingInOrder
  <1>1. IndInv => RingInOrder
    BY DEF IndInv
  <1> QED BY <1>1, Invariance, PTL

\* The table holds the same entries, each in the chain of its key, newest first,
\* with a pprev that lets it be unlinked.
THEOREM ChainsCorrect == Spec => []ChainsNewestFirst
  <1>1. IndInv => ChainsNewestFirst
    BY DEF IndInv
  <1> QED BY <1>1, Invariance, PTL

\* arr->size is the number of entries, one too high in free_entry.
THEOREM SizeCorrect == Spec => []SizeExact
  <1>1. IndInv => SizeExact
    BY DEF IndInv
  <1> QED BY <1>1, Invariance, PTL

\* No use after free, no double free, no entry lost.
THEOREM MemorySafe == Spec => []HeapExact
  <1>1. IndInv => HeapExact
    BY DEF IndInv
  <1> QED BY <1>1, Invariance, PTL

\* A data block handed to the array belongs to one entry until free_entry releases
\* it, once; after a failed call it is the caller's again.
THEOREM DataSafe == Spec => []DataHeldOnce
  <1>1. IndInv => DataHeldOnce
    BY DEF IndInv
  <1> QED BY <1>1, Invariance, PTL

\* When there is no array and no call in progress, nothing is allocated: neither
\* array_free nor a failed array_create leaks.
THEOREM NoLeak == Spec => []NothingLeft
  <1>1. IndInv => NothingLeft
    BY DEF IndInv, NothingLeft, HeapExact, DataHeldOnce, ArrayOK, InFlight, Filled
  <1> QED BY <1>1, Invariance, PTL

\* Search never misses a key, and finds the newest entry of a key: the result of
\* a finished call says so until the next call.
THEOREM LookupCorrect == Spec => []LookupMissesNothing
  <1>1. Init => LookupMissesNothing
    BY DEF Init, LookupMissesNothing
  <1>2. IndInv /\ LookupMissesNothing /\ [Next]_vars => LookupMissesNothing'
    <2> SUFFICES ASSUME IndInv, LookupMissesNothing, [Next]_vars,
                        pc' = "idle", k' # NULL, op' \in {"get", "del"}
                 PROVE  LookupMissesNothing'
      BY DEF LookupMissesNothing
    <2> USE DEF Call, Return, Goto, heap, fields, links, call, cursor, history
    <2>1. CASE SearchEnd
      <3>1. \A y \in alive : key[y] # k
        BY <2>1 DEF SearchEnd, IndInv, SearchOK
      <3> QED BY <2>1, <3>1 DEF SearchEnd, LookupMissesNothing
    <2>2. CASE SearchHit
      <3>1. cur \in alive /\ TRUE \in KeyMatches(key[cur], k) /\ NotOlderThanAny(cur, k)
        BY <2>2 DEF SearchHit, IndInv, SearchOK, NotOlderThanAny
      <3> QED BY <2>2, <3>1 DEF SearchHit, LookupMissesNothing, NotOlderThanAny
    <2>3. CASE Shrink
      <3>1. op' = op /\ op \in {"del", "replace", "del_first", "del_last"}
        BY <2>3 DEF Shrink, IndInv, CallOK
      <3>2. op' # "get"
        BY <3>1
      <3>3. ret' = 0
        BY <2>3 DEF Shrink
      <3>4. ret' # 1
        BY <3>3, SMT
      <3> QED BY <3>2, <3>4 DEF LookupMissesNothing
    <2>4. CASE UNCHANGED vars
      BY <2>4 DEF vars, LookupMissesNothing, NotOlderThanAny
    <2>5. CASE Create \/ CreateHt \/ CreateTable
      <3>1. op' = "create"
        BY <2>5 DEF Create, CreateHt, CreateTable, IndInv, CallOK
      <3> QED BY <3>1
    <2>6. CASE CallOnNull \/ GetEnd \/ DelEnd
      BY <2>6 DEF CallOnNull, GetEnd, DelEnd
    <2>7. CASE MallocEntry \/ FillEntry \/ LinkEntry \/ FreeArray
      BY <2>7 DEF MallocEntry, FillEntry, LinkEntry, FreeArray, IndInv, CallOK, Clearing
    <2>8. CASE Search \/ Add \/ Free \/ SearchNext \/ Unlink \/ FreeEntry
               \/ ClearUnlink \/ ClearEntry \/ ClearBucket
      BY <2>8 DEF Search, Add, Free, SearchNext, Unlink, FreeEntry, ClearUnlink,
                  ClearEntry, ClearBucket
    <2> QED BY <2>1, <2>2, <2>3, <2>4, <2>5, <2>6, <2>7, <2>8 DEF Next, Calls, Step
  <1> QED BY <1>1, <1>2, Invariance, PTL DEF Spec

\* An entry leaves the array only by a call that asks for it, and it is the entry
\* that was asked for.
THEOREM RemovalCorrect == Spec => RemovesOnlyTheOneAsked
  <1> DEFINE Asked(e) == \/ /\ op \in {"del", "replace"}
                            /\ TRUE \in KeyMatches(key[e], k)
                            /\ NotOlderThanAny(e, k)
                         \/ op = "del_first" /\ older[e] = {}
                         \/ op = "del_last" /\ older[e] = alive \ {e}
                         \/ op = "free"
  <1>1. IndInv /\ [Next]_vars => [\A e \in alive \ alive' : Asked(e)]_vars
    <2> SUFFICES ASSUME IndInv, [Next]_vars, NEW e \in alive \ alive'
                 PROVE  Asked(e)
      OBVIOUS
    <2>1. CASE Unlink
      BY <2>1 DEF Unlink, Forget, IndInv, CallOK, SearchOK
    <2>2. CASE ClearUnlink
      BY <2>2 DEF ClearUnlink, IndInv, CallOK, Clearing
    <2>3. CASE LinkEntry
      BY <2>3 DEF LinkEntry
    <2>4. CASE UNCHANGED alive
      BY <2>4
    <2> QED
      BY <2>1, <2>2, <2>3, <2>4
         DEF Next, Calls, Step, vars, history, Create, CreateHt, CreateTable, CallOnNull,
             GetEnd, Search, DelEnd, Add, Free, SearchEnd, SearchHit, SearchNext,
             FreeEntry, Shrink, MallocEntry, FillEntry, ClearEntry, ClearBucket, FreeArray
  <1> QED BY <1>1, Invariance, PTL DEF Spec, RemovesOnlyTheOneAsked

-----------------------------------------------------------------------------
(* The array as a map: a program that adds with array_add_replace only     *)
(* never has two entries of a key, if no key is a proper prefix of         *)
(* another.                                                                *)

\* From the moment array_add_replace has removed what it found, no entry has the
\* key that it is about to add.
Replacing == op = "replace" /\ pc \in {"free_entry", "shrink", "malloc_entry",
                                       "fill_entry", "link"}

MapInv ==
    /\ UniqueKeys
    /\ Replacing => \A y \in alive : key[y] # k
    /\ op # "add"

\* A step that keeps the entries and their keys, of a call that is not replacing
\* or was so before, keeps MapInv.
LEMMA MapKept ==
    ASSUME MapInv, alive' \in SUBSET alive, op' # "add",
           \A e \in alive' : key'[e] = key[e],
           Replacing' => Replacing /\ k' = k
    PROVE  MapInv'
  BY DEF MapInv, UniqueKeys

\* Without prefixes memcmp is equality.
LEMMA ExactMatch ==
    ASSUME Prefix = {}, NEW p, NEW q
    PROVE  /\ TRUE \in KeyMatches(p, q) => p = q
           /\ FALSE \in KeyMatches(p, q) => p # q
  BY DEF KeyMatches

LEMMA MapStep ==
    ASSUME Prefix = {}, IndInv, MapInv, [MapNext]_vars
    PROVE  MapInv'
  <1> USE DEF Call, Return, Goto, heap, fields, links, call, cursor, history
  <1>0. alive \in SUBSET Entry
    BY DEF IndInv, TypeOK
  <1>00. op' # "add"
    BY DEF MapNext, MapInv, vars
  <1>1. CASE SearchEnd
    <2>1. op = "replace" => \A y \in alive : key[y] # k
      BY <1>1 DEF SearchEnd, IndInv, SearchOK
    <2> QED BY <1>1, <2>1 DEF SearchEnd, MapInv, UniqueKeys, Replacing
  <1>2. CASE Unlink
    <2>1. cur \in alive /\ alive' = alive \ {cur}
      BY <1>2 DEF Unlink, Forget, IndInv, HeapExact
    <2>2. op = "replace" => key[cur] = k
      BY <1>2, ExactMatch DEF Unlink, IndInv, SearchOK
    <2>3. \A y \in alive' : key[y] # key[cur]
      BY <2>1 DEF MapInv, UniqueKeys
    <2> QED BY <1>2, <2>1, <2>2, <2>3 DEF Unlink, MapInv, UniqueKeys, Replacing
  <1>3. CASE LinkEntry
    <2>1. op = "replace" /\ key[cur] = k /\ alive' = alive \cup {cur}
      BY <1>3 DEF LinkEntry, MapInv, IndInv, CallOK
    <2>2. \A y \in alive : key[y] # k
      BY <1>3, <2>1 DEF LinkEntry, MapInv, Replacing
    <2> QED BY <1>3, <2>1, <2>2 DEF LinkEntry, MapInv, UniqueKeys, Replacing
  <1>4. CASE FreeEntry \/ ClearEntry
    <2>1. cur \notin alive /\ \A e \in alive : key'[e] = key[e]
      <3>1. pc \in {"free_entry", "clear_entry"} /\ free_assoc_array_entry(cur)
            /\ UNCHANGED history
        BY <1>4 DEF FreeEntry, ClearEntry
      <3> QED BY <3>1, Freed
    <2> QED BY <1>4, <2>1, MapKept DEF FreeEntry, ClearEntry, Replacing, MapInv
  <1>5. CASE FillEntry
    <2>1. cur \notin alive
      BY <1>5 DEF FillEntry, IndInv, HeapExact, InFlight
    <2>2. \A e \in alive : key'[e] = key[e]
      BY <1>0, <1>5, <2>1 DEF FillEntry, fill_assoc_array_entry, IndInv, TypeOK
    <2> QED BY <1>5, <2>2, MapKept DEF FillEntry, Replacing, MapInv
  <1>6. CASE ClearUnlink
    BY <1>6, MapKept DEF ClearUnlink, Forget, Replacing, MapInv
  <1>7. CASE MallocEntry \/ Shrink
    BY <1>7, MapKept DEF MallocEntry, Shrink, Replacing, MapInv
  <1>8. CASE Create \/ CallOnNull \/ GetEnd \/ Search \/ DelEnd \/ Free
    <2>1. UNCHANGED <<alive, key>>
      BY <1>8 DEF Create, CallOnNull, GetEnd, Search, DelEnd, Free
    <2>2. pc' \in {"idle", "create_ht", "search", "unlink", "clear"}
      BY <1>8 DEF Create, CallOnNull, GetEnd, Search, DelEnd, Free
    <2>3. ~Replacing'
      BY <2>2 DEF Replacing
    <2> QED BY <1>00, <2>1, <2>3, MapKept
  <1>9. CASE Add
    BY <1>9, <1>00 DEF Add
  <1>10. CASE UNCHANGED vars
    BY <1>10, MapKept DEF vars, Replacing, MapInv
  <1>11. CASE CreateHt \/ CreateTable \/ SearchHit \/ SearchNext \/ ClearBucket \/ FreeArray
    BY <1>11, MapKept
       DEF CreateHt, CreateTable, EmptyArray, SearchHit, SearchNext, ClearBucket, FreeArray,
           Replacing, MapInv
  <1> QED
    BY <1>1, <1>2, <1>3, <1>4, <1>5, <1>6, <1>7, <1>8, <1>9, <1>10, <1>11
       DEF MapNext, Next, Calls, Step

\* If no key is a proper prefix of another, a program that adds with
\* array_add_replace only never has two entries of a key, whichever allocations
\* fail and whichever keys share a bucket.
THEOREM MapCorrect ==
    ASSUME Prefix = {}
    PROVE  MapSpec => []UniqueKeys
  <1>1. Init => IndInv /\ MapInv
    BY InitIndInv DEF Init, MapInv, UniqueKeys, Replacing
  <1>2. IndInv /\ MapInv /\ [MapNext]_vars => (IndInv /\ MapInv)'
    <2>1. [MapNext]_vars => [Next]_vars
      BY DEF MapNext
    <2> QED BY <2>1, NextIndInv, MapStep
  <1>3. IndInv /\ MapInv => UniqueKeys
    BY DEF MapInv
  <1> QED BY <1>1, <1>2, <1>3, PTL DEF MapSpec

-----------------------------------------------------------------------------
(* What the walks meet *)

\* The entries that the walk of Items meets.
Walk == k_list_walk(list.next, ListHead, Cardinality(Entry))

Standing == arr # NULL /\ ~Clearing

\* The ring l is the sequence s, of the entries of S, the older before the younger.
InOrder(l, s, S, o) ==
    /\ s \in Seq(Entry) /\ Holds(l, ListHead, s)
    /\ Range(s) = S
    /\ \A i, j \in DOMAIN s : i < j => s[i] \in o[s[j]]

WalkInv == Standing => InOrder(list, Walk, alive, older)

LEMMA WalkIs ==
    ASSUME IsFiniteSet(Entry), NEW l \in RingType, NEW s, NEW S, NEW o, InOrder(l, s, S, o)
    PROVE  k_list_walk(l.next, ListHead, Cardinality(Entry)) = s
  <1> DEFINE D == Entry \cup {ListHead}
  <1>1. ListHead \notin Entry
    BY AddressAssumption
  <1>2. D \ {ListHead} = Entry /\ ListHead \in D /\ DOMAIN l.next = D /\ DOMAIN l.prev = D
    BY <1>1 DEF RingType
  <1>3. s \in Seq(D \ {ListHead}) /\ s \in Seq(Entry) /\ Holds(l, ListHead, s)
    BY <1>2 DEF InOrder
  <1>4. Len(s) <= Cardinality(Entry) /\ Cardinality(Entry) \in Nat
    <2>1. IsInjective(s)
      BY <1>3 DEF Holds
    <2> QED BY <1>3, <2>1, LengthBound
  <1> HIDE DEF D
  <1> QED BY <1>2, <1>3, <1>4, BothWalks

\* The three operations on the ring, in order of age.
LEMMA OrderStarted ==
    ASSUME NEW l \in RingType, NEW o
    PROVE  InOrder(K_INIT_LIST_HEAD(l, ListHead), <<>>, {}, o)
  <1> DEFINE D == Entry \cup {ListHead}
  <1>1. ListHead \in D /\ DOMAIN l.next = D /\ DOMAIN l.prev = D
    BY DEF RingType
  <1>2. Holds(K_INIT_LIST_HEAD(l, ListHead), ListHead, <<>>)
    BY <1>1, Started
  <1> QED BY <1>2 DEF InOrder, Range

LEMMA OrderAppended ==
    ASSUME NEW l \in RingType, NEW s, NEW S \in SUBSET Entry, NEW o, InOrder(l, s, S, o),
           o \in [Entry -> SUBSET Entry], NEW e \in Entry \ S
    PROVE  InOrder(k_list_add_tail(l, e, ListHead), Append(s, e), S \cup {e}, WithNewest(o, S, e))
  <1> DEFINE D == Entry \cup {ListHead}
             t == Append(s, e)
  <1>1. ListHead \notin Entry
    BY AddressAssumption
  <1>2. D \ {ListHead} = Entry /\ ListHead \in D /\ DOMAIN l.next = D /\ DOMAIN l.prev = D
    BY <1>1 DEF RingType
  <1>3. s \in Seq(D \ {ListHead}) /\ s \in Seq(Entry) /\ Holds(l, ListHead, s) /\ Range(s) = S
    BY <1>2 DEF InOrder
  <1>4. \A i \in DOMAIN s : s[i] # e /\ s[i] \in S
    BY <1>3 DEF Range
  <1>5. t \in Seq(D \ {ListHead}) /\ Holds(k_list_add_tail(l, e, ListHead), ListHead, t)
    <2>1. e \in D \ {ListHead} /\ \A i \in DOMAIN s : s[i] # e
      BY <1>2, <1>4
    <2> HIDE DEF D
    <2> QED BY <1>2, <1>3, <2>1, AddedAtEnd
  <1>6. Range(t) = S \cup {e}
    BY <1>3, Appended
  <1>7. ASSUME NEW i \in DOMAIN t, NEW j \in DOMAIN t, i < j
        PROVE  t[i] \in WithNewest(o, S, e)[t[j]]
    <2>1. /\ Len(s) \in Nat /\ DOMAIN s = 1 .. Len(s) /\ DOMAIN t = 1 .. Len(s) + 1
          /\ t[Len(s) + 1] = e /\ \A x \in 1 .. Len(s) : t[x] = s[x]
      BY <1>3
    <2>2. i \in DOMAIN s
      BY <1>7, <2>1
    <2>3. t[i] = s[i] /\ t[i] \in S
      BY <1>4, <2>1, <2>2
    <2>4. CASE j = Len(s) + 1
      BY <2>1, <2>3, <2>4 DEF WithNewest
    <2>5. CASE j \in DOMAIN s
      <3>1. t[j] = s[j] /\ s[j] # e /\ s[j] \in Entry
        BY <1>4, <2>1, <2>5
      <3>2. s[i] \in o[s[j]]
        BY <1>7, <2>2, <2>5 DEF InOrder
      <3> QED BY <2>3, <3>1, <3>2 DEF WithNewest
    <2> QED BY <2>1, <2>4, <2>5
  <1> QED BY <1>2, <1>5, <1>6, <1>7 DEF InOrder

LEMMA OrderDeleted ==
    ASSUME NEW l \in RingType, NEW s, NEW S \in SUBSET Entry, NEW o, InOrder(l, s, S, o),
           NEW i \in DOMAIN s
    PROVE  InOrder(k_list_del(l, s[i]), Less(s, i), S \ {s[i]}, Without(o, s[i]))
  <1> DEFINE D == Entry \cup {ListHead}
             t == Less(s, i)
  <1>1. ListHead \notin Entry
    BY AddressAssumption
  <1>2. D \ {ListHead} = Entry /\ ListHead \in D /\ DOMAIN l.next = D /\ DOMAIN l.prev = D
    BY <1>1 DEF RingType
  <1>3. /\ s \in Seq(D \ {ListHead}) /\ s \in Seq(Entry) /\ Holds(l, ListHead, s) /\ Range(s) = S
        /\ IsInjective(s) /\ i \in 1 .. Len(s) /\ \A j \in DOMAIN s : s[j] \in Entry
    BY <1>2 DEF InOrder, Holds
  <1>4. Holds(k_list_del(l, s[i]), ListHead, t)
    <2> HIDE DEF D
    <2> QED BY <1>2, <1>3, Deleted
  <1>5. t \in Seq(Entry) /\ Range(t) = S \ {s[i]}
    BY <1>3, LessType, Popped
  <1>6. ASSUME NEW x \in DOMAIN t, NEW y \in DOMAIN t, x < y
        PROVE  t[x] \in Without(o, s[i])[t[y]]
    <2>1. /\ DOMAIN t = 1 .. Len(s) - 1
          /\ Was(i, x) \in DOMAIN s /\ Was(i, x) # i /\ t[x] = s[Was(i, x)]
          /\ Was(i, y) \in DOMAIN s /\ Was(i, y) # i /\ t[y] = s[Was(i, y)]
      BY <1>3, LessIs
    <2>2. Was(i, x) < Was(i, y)
      BY <1>3, <1>6, <2>1 DEF Was
    <2>3. s[Was(i, x)] \in o[s[Was(i, y)]]
      BY <2>1, <2>2 DEF InOrder
    <2>4. s[Was(i, x)] # s[i] /\ s[Was(i, y)] # s[i]
      BY <1>3, <2>1 DEF IsInjective
    <2> QED BY <1>3, <2>1, <2>3, <2>4 DEF Without
  <1> QED BY <1>4, <1>5, <1>6 DEF InOrder

-----------------------------------------------------------------------------
(* What the steps do to the walk. *)

\* A step that leaves the ring and its entries alone.
LEMMA WalkKept ==
    ASSUME WalkInv, UNCHANGED <<list, alive, older>>, Standing' => Standing
    PROVE  WalkInv' /\ Walk' = Walk
  <1>1. Walk' = Walk
    BY DEF Walk
  <1> QED BY <1>1 DEF WalkInv, InOrder

LEMMA ListIs ==
    ASSUME IndInv
    PROVE  /\ list \in RingType /\ older \in [Entry -> SUBSET Entry]
           /\ alive \in SUBSET Entry /\ key \in [Entry -> Key \cup {NULL}]
           /\ data \in [Entry -> Data \cup {NULL}]
  BY DEF IndInv, TypeOK, RingType

\* The ring of a new array.
LEMMA WalkCreated ==
    ASSUME IsFiniteSet(Entry), IndInv, CreateTable, arr' # NULL
    PROVE  WalkInv' /\ Walk' = <<>>
  <1>1. list' = K_INIT_LIST_HEAD(list, ListHead) /\ alive' = alive /\ older' = older /\ alive = {}
    BY DEF CreateTable, EmptyArray, history, IndInv, ArrayOK
  <1>2. InOrder(list', <<>>, {}, older)
    BY <1>1, ListIs, OrderStarted
  <1>3. list' \in RingType
    BY ListIs, RingInit, <1>1
  <1>4. Walk' = <<>>
    BY <1>2, <1>3, WalkIs DEF Walk
  <1> QED BY <1>1, <1>2, <1>4 DEF WalkInv

LEMMA WalkLinked ==
    ASSUME IsFiniteSet(Entry), IndInv, WalkInv, LinkEntry
    PROVE  WalkInv' /\ Walk' = Append(Walk, cur)
  <1>1. /\ list' = k_list_add_tail(list, cur, ListHead) /\ alive' = alive \cup {cur}
        /\ older' = WithNewest(older, alive, cur) /\ pc = "link"
    BY DEF LinkEntry, WithNewest
  <1>2. Standing /\ cur \in Entry \ alive
    BY <1>1 DEF IndInv, ArrayOK, HeapExact, InFlight, TypeOK, Standing, Clearing
  <1>3. InOrder(list, Walk, alive, older)
    BY <1>2 DEF WalkInv
  <1>4. InOrder(list', Append(Walk, cur), alive', older')
    BY <1>1, <1>2, <1>3, ListIs, OrderAppended
  <1>5. list' \in RingType
    <2>1. Ordered(alive, older) /\ RingOf(list, alive, older)
      BY <1>2 DEF IndInv, RingInOrder, Standing
    <2> QED BY <1>1, <1>2, <2>1, ListIs, RingAddTail
  <1>6. Walk' = Append(Walk, cur)
    BY <1>4, <1>5, WalkIs DEF Walk
  <1> QED BY <1>4, <1>6 DEF WalkInv

LEMMA WalkUnlinked ==
    ASSUME IsFiniteSet(Entry), IndInv, WalkInv, Unlink
    PROVE  /\ WalkInv'
           /\ \E i \in DOMAIN Walk : Walk[i] = cur /\ Walk' = Less(Walk, i)
  <1>1. /\ list' = k_list_del(list, cur) /\ alive' = alive \ {cur}
        /\ older' = Without(older, cur) /\ pc = "unlink"
    BY DEF Unlink, Forget, Without
  <1>2. Standing /\ cur \in alive
    BY <1>1 DEF IndInv, ArrayOK, HeapExact, Standing, Clearing
  <1>3. InOrder(list, Walk, alive, older)
    BY <1>2 DEF WalkInv
  <1>4. PICK i \in DOMAIN Walk : Walk[i] = cur
    BY <1>2, <1>3 DEF InOrder, Range
  <1>5. InOrder(list', Less(Walk, i), alive', older')
    BY <1>1, <1>3, <1>4, ListIs, OrderDeleted
  <1>6. list' \in RingType
    <2>1. Ordered(alive, older) /\ RingOf(list, alive, older)
      BY <1>2 DEF IndInv, RingInOrder, Standing
    <2> QED BY <1>1, <1>2, <2>1, ListIs, RingDel
  <1>7. Walk' = Less(Walk, i)
    BY <1>5, <1>6, WalkIs DEF Walk
  <1> QED BY <1>4, <1>5, <1>7 DEF WalkInv

\* The steps that leave the ring and its entries alone, or are in array_free.
Quiet ==
    \/ Create \/ CallOnNull \/ GetEnd \/ Search \/ DelEnd \/ Add
    \/ CreateHt \/ (CreateTable /\ arr' = NULL) \/ SearchEnd \/ SearchHit \/ SearchNext
    \/ FreeEntry \/ Shrink \/ MallocEntry \/ FillEntry

LEMMA QuietStep ==
    ASSUME IndInv, WalkInv, Quiet
    PROVE  /\ UNCHANGED <<arr, list, alive, older>> /\ WalkInv' /\ Walk' = Walk
           /\ ~Clearing /\ ~Clearing'
  <1>1. UNCHANGED <<list, alive, older>> /\ arr' = arr
    <2>1. CASE CreateTable /\ arr' = NULL
      BY <2>1, AddressAssumption DEF CreateTable, EmptyArray, links, history, IndInv, ArrayOK
    <2>2. CASE Create \/ CallOnNull \/ GetEnd \/ Search \/ DelEnd \/ Add \/ CreateHt
      BY <2>2 DEF Create, CallOnNull, GetEnd, Search, DelEnd, Add, CreateHt, heap, links, history
    <2>3. CASE \/ SearchEnd \/ SearchHit \/ SearchNext
               \/ FreeEntry \/ Shrink \/ MallocEntry \/ FillEntry
      BY <2>3 DEF SearchEnd, SearchHit, SearchNext, FreeEntry, Shrink, MallocEntry,
         FillEntry, heap, links, history
    <2> QED BY <2>1, <2>2, <2>3 DEF Quiet
  <1>2. ~Clearing /\ ~Clearing'
    <2>1. CASE Create \/ CallOnNull \/ GetEnd \/ Search \/ DelEnd \/ Add
      BY <2>1 DEF Create, CallOnNull, GetEnd, Search, DelEnd, Add, Call, Return, Goto, Clearing
    <2>2. CASE CreateHt \/ CreateTable \/ SearchEnd \/ SearchHit \/ SearchNext
      BY <2>2 DEF CreateHt, CreateTable, EmptyArray, SearchEnd, SearchHit, SearchNext,
         Return, Goto, Clearing
    <2>3. CASE FreeEntry \/ Shrink \/ MallocEntry \/ FillEntry
      BY <2>3 DEF FreeEntry, Shrink, MallocEntry, FillEntry, Return, Goto, Clearing
    <2> QED BY <2>1, <2>2, <2>3 DEF Quiet
  <1> QED BY <1>1, <1>2, WalkKept DEF Standing

LEMMA WalkNext ==
    ASSUME IsFiniteSet(Entry), IndInv, WalkInv, [Next]_vars
    PROVE  WalkInv'
  <1>1. CASE Quiet
    BY <1>1, QuietStep
  <1>2. CASE CreateTable /\ arr' # NULL
    BY <1>2, WalkCreated
  <1>3. CASE LinkEntry \/ Unlink
    BY <1>3, WalkLinked, WalkUnlinked
  <1>4. CASE Free \/ ClearUnlink \/ ClearEntry \/ ClearBucket \/ FreeArray
    <2>1. ~Standing'
      BY <1>4 DEF Free, ClearUnlink, ClearEntry, ClearBucket, FreeArray, Goto, Standing, Clearing
    <2> QED BY <2>1 DEF WalkInv
  <1>5. CASE UNCHANGED vars
    BY <1>5, WalkKept DEF vars, history, links, heap, Standing, Clearing
  <1> QED BY <1>1, <1>2, <1>3, <1>4, <1>5 DEF Next, Calls, Step, Quiet

-----------------------------------------------------------------------------
(* The items of a sequence of entries, when key q and data v are in them. *)

ItemsOf(s, q, v) == [i \in DOMAIN s |-> [id |-> s[i], key |-> q[s[i]], data |-> v[s[i]]]]

ItemRecord == [id : Entry, key : Key \cup {NULL}, data : Data \cup {NULL}]

LEMMA ItemsFollow ==
    ASSUME NEW s \in Seq(Entry), NEW q \in [Entry -> Key \cup {NULL}],
           NEW v \in [Entry -> Data \cup {NULL}]
    PROVE  /\ ItemsOf(s, q, v) \in Seq(ItemRecord) /\ Len(ItemsOf(s, q, v)) = Len(s)
           /\ DOMAIN ItemsOf(s, q, v) = DOMAIN s
           /\ ItemsOf(s, q, v) = <<>> <=> s = <<>>
  <1>1. Len(s) \in Nat /\ DOMAIN s = 1 .. Len(s) /\ \A i \in DOMAIN s : s[i] \in Entry
    OBVIOUS
  <1>2. ItemsOf(s, q, v) \in [1 .. Len(s) -> ItemRecord]
    BY <1>1 DEF ItemsOf, ItemRecord
  <1>3. ItemsOf(s, q, v) \in Seq(ItemRecord) /\ Len(ItemsOf(s, q, v)) = Len(s)
    BY <1>1, <1>2
  <1> QED BY <1>1, <1>3

LEMMA ItemsAppended ==
    ASSUME NEW s \in Seq(Entry), NEW q \in [Entry -> Key \cup {NULL}],
           NEW v \in [Entry -> Data \cup {NULL}], NEW e \in Entry
    PROVE  ItemsOf(Append(s, e), q, v)
              = Append(ItemsOf(s, q, v), [id |-> e, key |-> q[e], data |-> v[e]])
  <1> DEFINE x == [id |-> e, key |-> q[e], data |-> v[e]]
             t == ItemsOf(s, q, v)
             a == Append(s, e)
             b == Append(t, x)
  <1>1. Len(s) \in Nat /\ DOMAIN s = 1 .. Len(s)
    OBVIOUS
  <1>2. t \in Seq(ItemRecord) /\ Len(t) = Len(s) /\ x \in ItemRecord
    BY ItemsFollow DEF ItemRecord
  <1>3. \A i \in 1 .. Len(s) : t[i] = [id |-> s[i], key |-> q[s[i]], data |-> v[s[i]]]
    BY <1>1 DEF ItemsOf
  <1>4. /\ a \in Seq(Entry) /\ Len(a) = Len(s) + 1 /\ a[Len(s) + 1] = e
        /\ \A i \in 1 .. Len(s) : a[i] = s[i]
    OBVIOUS
  <1> HIDE DEF t
  <1>5. /\ b \in Seq(ItemRecord) /\ Len(b) = Len(s) + 1 /\ b[Len(s) + 1] = x
        /\ \A i \in 1 .. Len(s) : b[i] = t[i]
    BY <1>2
  <1> HIDE DEF a, b
  <1>6. DOMAIN a = 1 .. Len(s) + 1 /\ b = [i \in 1 .. Len(s) + 1 |-> b[i]]
    BY <1>4, <1>5, ByIndex
  <1>7. \A i \in 1 .. Len(s) + 1 : i = Len(s) + 1 \/ i \in 1 .. Len(s)
    BY <1>1
  <1>8. \A i \in 1 .. Len(s) + 1 : [id |-> a[i], key |-> q[a[i]], data |-> v[a[i]]] = b[i]
    BY <1>3, <1>4, <1>5, <1>7
  <1>9. ItemsOf(a, q, v) = b
    BY <1>6, <1>8 DEF ItemsOf
  <1> QED BY <1>9 DEF a, b, t

LEMMA ItemsLess ==
    ASSUME NEW s \in Seq(Entry), NEW q \in [Entry -> Key \cup {NULL}],
           NEW v \in [Entry -> Data \cup {NULL}], NEW i \in DOMAIN s
    PROVE  LET t == ItemsOf(s, q, v)
           IN  ItemsOf(Less(s, i), q, v) = SubSeq(t, 1, i - 1) \o SubSeq(t, i + 1, Len(t))
  <1> DEFINE t == ItemsOf(s, q, v)
  <1>1. Len(s) \in Nat /\ DOMAIN s = 1 .. Len(s) /\ i \in 1 .. Len(s)
    OBVIOUS
  <1>2. t \in Seq(ItemRecord) /\ Len(t) = Len(s) /\ DOMAIN t = DOMAIN s
    BY ItemsFollow
  <1>3. \A j \in DOMAIN s : t[j] = [id |-> s[j], key |-> q[s[j]], data |-> v[s[j]]]
    BY DEF ItemsOf
  <1> HIDE DEF t
  <1>4. Less(t, i) = SubSeq(t, 1, i - 1) \o SubSeq(t, i + 1, Len(t))
    BY <1>1, <1>2, Joined
  <1>5. ItemsOf(Less(s, i), q, v) = Less(t, i)
    <2>1. \A j \in 1 .. Len(s) - 1 : (j < i => j \in DOMAIN s) /\ (~(j < i) => j + 1 \in DOMAIN s)
      BY <1>1
    <2>2. DOMAIN Less(s, i) = 1 .. Len(s) - 1
      BY DEF Less
    <2>3. \A j \in 1 .. Len(s) - 1 :
             [id |-> Less(s, i)[j], key |-> q[Less(s, i)[j]], data |-> v[Less(s, i)[j]]]
                = IF j < i THEN t[j] ELSE t[j + 1]
      BY <1>3, <2>1 DEF Less
    <2> QED BY <1>2, <2>2, <2>3 DEF ItemsOf, Less
  <1> QED BY <1>4, <1>5 DEF t

\* Only the keys and data of the entries in the sequence count.
LEMMA ItemsSame ==
    ASSUME NEW s, NEW q, NEW v, NEW r, NEW w,
           \A i \in DOMAIN s : q[s[i]] = r[s[i]] /\ v[s[i]] = w[s[i]]
    PROVE  ItemsOf(s, q, v) = ItemsOf(s, r, w)
  BY DEF ItemsOf

LEMMA ItemsAre ==
    /\ Standing => Items = ItemsOf(Walk, key, data)
    /\ Standing' => Items' = ItemsOf(Walk', key', data')
    /\ ~Standing => Items = <<>>
    /\ ~Standing' => Items' = <<>>
  BY DEF Standing, Items, ItemsOf, Walk

\* What the items say of the entries.
LEMMA ItemFacts ==
    ASSUME IndInv, WalkInv, Standing
    PROVE  /\ Walk \in Seq(Entry) /\ Range(Walk) = alive
           /\ Items = ItemsOf(Walk, key, data)
           /\ Items \in Seq(ItemRecord)
           /\ DOMAIN Items = DOMAIN Walk /\ Len(Items) = Len(Walk) /\ DOMAIN Walk = 1 .. Len(Walk)
           /\ \A i \in DOMAIN Items : /\ Items[i].id = Walk[i] /\ Items[i].key = key[Walk[i]]
                                      /\ Walk[i] \in alive
           /\ \A i, j \in DOMAIN Items : i < j => Walk[i] \in older[Walk[j]]
  <1>1. /\ Walk \in Seq(Entry) /\ Range(Walk) = alive
        /\ \A i, j \in DOMAIN Walk : i < j => Walk[i] \in older[Walk[j]]
    BY DEF WalkInv, InOrder
  <1>2. Items = ItemsOf(Walk, key, data)
    BY ItemsAre
  <1> DEFINE s == Walk
  <1>3. s \in Seq(Entry)
    BY <1>1
  <1> HIDE DEF s
  <1>4. /\ ItemsOf(s, key, data) \in Seq(ItemRecord) /\ DOMAIN ItemsOf(s, key, data) = DOMAIN s
        /\ Len(ItemsOf(s, key, data)) = Len(s) /\ DOMAIN s = 1 .. Len(s)
    BY <1>3, ListIs, ItemsFollow
  <1>5. \A i \in DOMAIN s : ItemsOf(s, key, data)[i].id = s[i] /\ ItemsOf(s, key, data)[i].key = key[s[i]]
    BY DEF ItemsOf
  <1>6. \A i \in DOMAIN s : s[i] \in alive
    BY <1>1 DEF s, Range
  <1> QED BY <1>1, <1>2, <1>4, <1>5, <1>6 DEF s

-----------------------------------------------------------------------------
(* Each step of the array is one of the abstract array, or none. *)

Phase == CASE pc = "idle" -> "idle" [] Removed -> "removed" [] OTHER -> "called"

AbsVars == <<arr # NULL, Items, Phase, op, k, d, ret>>

LEMMA CallSeen ==
    ASSUME NEW f, NEW q, NEW v, Call(f, q, v)
    PROVE  Abs!Call(f, q, v)
  BY DEF Call, Abs!Call, Removed

LEMMA ReturnSeen ==
    ASSUME NEW r, Return(r)
    PROVE  Abs!Return(r)
  BY DEF Return, Abs!Return, Removed

\* Callbacks touch only an entry that is out of the array.
LEMMA ItemsKept ==
    ASSUME IndInv, WalkInv, Quiet
    PROVE  Items' = Items /\ arr' = arr
  <1>1. /\ UNCHANGED <<arr, list, alive, older>> /\ Walk' = Walk
        /\ ~Clearing /\ ~Clearing'
    BY QuietStep
  <1>2. Standing' <=> Standing
    BY <1>1 DEF Standing
  <1>3. \A e \in alive : key'[e] = key[e] /\ data'[e] = data[e]
    <2>1. CASE FreeEntry \/ (FillEntry /\ pc' = "link")
      <3>1. cur \notin alive
        BY <2>1 DEF FreeEntry, FillEntry, IndInv, HeapExact, InFlight
      <3>2. key \in [Entry -> Key \cup {NULL}] /\ data \in [Entry -> Data \cup {NULL}]
            /\ alive \in SUBSET Entry
        BY ListIs
      <3>3. \A e : e # cur => \A x, y : [key EXCEPT ![cur] = x][e] = key[e]
                                   /\ [data EXCEPT ![cur] = y][e] = data[e]
        BY <3>2
      <3>4. \E x, y : key' = [key EXCEPT ![cur] = x] /\ data' = [data EXCEPT ![cur] = y]
        <4>1. CASE FreeEntry
          BY <4>1 DEF FreeEntry, free_assoc_array_entry
        <4>2. CASE FillEntry /\ pc' = "link"
          BY <4>2 DEF FillEntry, fill_assoc_array_entry, Return
        <4> QED BY <2>1, <4>1, <4>2
      <3> QED BY <3>1, <3>3, <3>4
    <2>2. CASE UNCHANGED fields
      BY <2>2 DEF fields
    <2>3. UNCHANGED fields \/ FreeEntry \/ (FillEntry /\ pc' = "link")
      BY DEF Quiet, Create, CallOnNull, GetEnd, Search, DelEnd, Add, CreateHt, CreateTable,
         SearchEnd, SearchHit, SearchNext, Shrink, MallocEntry, FillEntry, Goto
    <2> QED BY <2>1, <2>2, <2>3
  <1>4. CASE Standing
    <2>1. Walk \in Seq(Entry) /\ \A i \in DOMAIN Walk : Walk[i] \in alive
      BY <1>4, ItemFacts
    <2>2. ItemsOf(Walk, key', data') = ItemsOf(Walk, key, data)
      BY <1>3, <2>1, ItemsSame
    <2> QED BY <1>1, <1>2, <1>4, <2>2, ItemsAre
  <1>5. CASE ~Standing
    BY <1>1, <1>2, <1>5, ItemsAre
  <1> QED BY <1>1, <1>4, <1>5

\* The ends of the ring are the ends of the sequence.
LEMMA EndsAre ==
    ASSUME IndInv, WalkInv, arr # NULL, pc = "idle"
    PROVE  /\ ListEmpty <=> Items = <<>>
           /\ Items # <<>> =>
                 /\ list.next[ListHead] = Items[1].id /\ list.prev[ListHead] = Items[Len(Items)].id
  <1>1. Standing
    BY DEF Standing, Clearing
  <1> DEFINE s == Walk
  <1>2. s \in Seq(Entry) /\ Range(s) = alive /\ Holds(list, ListHead, s)
    BY <1>1 DEF WalkInv, InOrder
  <1>3. /\ DOMAIN Items = 1 .. Len(s) /\ Len(Items) = Len(s) /\ Items \in Seq(ItemRecord)
        /\ \A i \in DOMAIN Items : Items[i].id = s[i] /\ s[i] \in alive
    BY <1>1, ItemFacts
  <1> HIDE DEF s
  <1>4. Len(s) \in Nat /\ DOMAIN s = 1 .. Len(s) /\ (Items = <<>> <=> Len(s) = 0)
    BY <1>2, <1>3
  <1>5. list.next[ListHead] = At(s, ListHead, 1) /\ list.prev[ListHead] = At(s, ListHead, Len(s))
    <2>1. 0 \in 0 .. Len(s) /\ Len(s) \in 0 .. Len(s) /\ 0 + 1 = 1
      BY <1>4
    <2>2. At(s, ListHead, 0) = ListHead /\ At(s, ListHead, Len(s) + 1) = ListHead
      BY <1>4 DEF At
    <2> QED BY <1>2, <2>1, <2>2 DEF Holds
  <1>6. CASE Len(s) = 0
    <2>1. At(s, ListHead, 1) = ListHead
      BY <1>4, <1>6 DEF At
    <2> QED BY <1>4, <1>5, <1>6, <2>1 DEF ListEmpty, k_list_empty
  <1>7. CASE Len(s) # 0
    <2>1. 1 \in DOMAIN s /\ Len(s) \in DOMAIN s
      BY <1>4, <1>7
    <2>2. list.next[ListHead] = s[1] /\ list.prev[ListHead] = s[Len(s)]
      BY <1>5, <2>1 DEF At
    <2>3. s[1] \in alive /\ alive \in SUBSET Entry /\ ListHead \notin Entry
      BY <1>3, <1>4, <2>1, ListIs, AddressAssumption
    <2>4. size # 0
      <3>1. IsFiniteSet(alive) /\ size = Cardinality(alive)
        <4>1. size = Cardinality(alive) + 0 /\ IsFiniteSet(alive)
          BY <1>1 DEF IndInv, SizeExact, ArrayOK, Standing
        <4> QED BY <4>1, FS_CardinalityType
      <3> QED BY <2>3, <3>1, FS_EmptySet
    <2> QED BY <1>3, <1>4, <1>7, <2>1, <2>2, <2>3, <2>4 DEF ListEmpty, k_list_empty
  <1> QED BY <1>6, <1>7

LEMMA CreateRefines ==
    ASSUME IsFiniteSet(Entry), IndInv, WalkInv, Create \/ CreateHt \/ CreateTable
    PROVE  Abs!Next \/ UNCHANGED AbsVars
  <1> USE DEF Return, Goto
  <1>1. arr = NULL /\ Items = <<>>
    BY DEF Create, CreateHt, CreateTable, IndInv, ArrayOK, Items
  <1>2. CASE Create
    <2>1. arr' = NULL /\ Items' = <<>>
      BY <1>1, <1>2 DEF Create, Items
    <2>2. Abs!FailAtOnce \/ Abs!Begin
      BY <1>1, <1>2, <2>1 DEF Create, Call, Abs!FailAtOnce, Abs!Begin, Abs!Call, Abs!Return, Removed
    <2> QED BY <2>2 DEF Abs!Next
  <1>3. CASE CreateHt
    <2>1. arr' = NULL /\ Items' = <<>> /\ op = "create" /\ UNCHANGED call
      BY <1>1, <1>3 DEF CreateHt, Items, IndInv, CallOK
    <2>2. Abs!CreateReturns \/ UNCHANGED AbsVars
      BY <1>1, <1>3, <2>1 DEF CreateHt, Abs!CreateReturns, Abs!Return, Removed, Phase, AbsVars, call
    <2> QED BY <2>2 DEF Abs!Next
  <1>4. CASE CreateTable
    <2>1. op = "create" /\ UNCHANGED call
      BY <1>4 DEF CreateTable, IndInv, CallOK
    <2>2. Items' = <<>>
      <3>1. CASE arr' = NULL
        BY <3>1 DEF Items
      <3>2. CASE arr' # NULL
        <4>1. Walk' = <<>>
          BY <1>4, <3>2, WalkCreated
        <4> QED BY <4>1 DEF Items, Walk
      <3> QED BY <3>1, <3>2
    <2>3. Abs!CreateReturns
      BY <1>1, <1>4, <2>1, <2>2, AddressAssumption
         DEF CreateTable, EmptyArray, Abs!CreateReturns, Abs!Return, Removed, call
    <2> QED BY <2>3 DEF Abs!Next
  <1> QED BY <1>2, <1>3, <1>4

LEMMA CallRefines ==
    ASSUME IndInv, WalkInv, CallOnNull \/ GetEnd \/ Search \/ DelEnd \/ Add
    PROVE  Abs!Next
  <1>1. Items' = Items /\ arr' = arr
    BY ItemsKept DEF Quiet
  <1>2. CASE CallOnNull
    <2>1. arr = NULL /\ UNCHANGED <<arr # NULL, Items>>
      BY <1>1, <1>2 DEF CallOnNull
    <2>2. PICK f \in {"add", "replace", "free", "del_first", "del_last",
                      "get", "get_first", "get_last", "del"} :
             /\ Call(f, NULL, NULL)
             /\ Return(CASE f \in {"get", "get_first", "get_last"} -> NULL
                         [] f = "del" -> EINVAL
                         [] OTHER -> -1)
      BY <1>2 DEF CallOnNull
    <2>3. CASE f \in {"get", "get_first", "get_last"}
      <3>1. Abs!Call(f, NULL, NULL) /\ Abs!Return(NULL)
        <4>1. Return(NULL)
          BY <2>2, <2>3 DEF Return
        <4> QED BY <2>2, <4>1, CallSeen, ReturnSeen
      <3> QED BY <2>1, <2>3, <3>1 DEF Abs!Next, Abs!FailAtOnce
    <2>4. CASE f = "del"
      <3>1. Abs!Call("del", NULL, NULL) /\ Abs!Return(EINVAL)
        <4>1. Return(EINVAL)
          BY <2>2, <2>4 DEF Return
        <4> QED BY <2>2, <2>4, <4>1, CallSeen, ReturnSeen
      <3> QED BY <2>1, <3>1 DEF Abs!Next, Abs!FailAtOnce, Abs!EINVAL, EINVAL
    <2>5. CASE f \in {"add", "replace", "free", "del_first", "del_last"}
      <3>1. Abs!Call(f, NULL, NULL) /\ Abs!Return(-1)
        <4>1. Return(-1)
          BY <2>2, <2>5 DEF Return
        <4> QED BY <2>2, <4>1, CallSeen, ReturnSeen
      <3> QED BY <2>1, <2>5, <3>1 DEF Abs!Next, Abs!FailAtOnce
    <2> QED BY <2>2, <2>3, <2>4, <2>5
  <1>3. CASE GetEnd
    <2>1. arr # NULL /\ UNCHANGED <<arr # NULL, Items>>
      BY <1>1, <1>3 DEF GetEnd
    <2>2. PICK f \in {"get_first", "get_last"} :
             Call(f, NULL, NULL) /\ Return(IF ListEmpty THEN NULL ELSE EndOf(f))
      BY <1>3 DEF GetEnd
    <2>3. pc = "idle"
      BY <2>2 DEF Call
    <2>4. CASE f = "get_first"
      <3>1. Return(IF Items = <<>> THEN NULL ELSE Items[1].id)
        BY <2>1, <2>2, <2>3, <2>4, EndsAre DEF Return, EndOf, k_list_first
      <3>2. Abs!Call("get_first", NULL, NULL)
        BY <2>2, <2>4, CallSeen
      <3>3. Abs!Return(IF Items = <<>> THEN NULL ELSE Items[1].id)
        BY <3>1, ReturnSeen
      <3> QED BY <2>1, <3>2, <3>3 DEF Abs!Next, Abs!AtOnce
    <2>5. CASE f = "get_last"
      <3>1. Return(IF Items = <<>> THEN NULL ELSE Items[Len(Items)].id)
        BY <2>1, <2>2, <2>3, <2>5, EndsAre DEF Return, EndOf, k_list_last
      <3>2. Abs!Call("get_last", NULL, NULL)
        BY <2>2, <2>5, CallSeen
      <3>3. Abs!Return(IF Items = <<>> THEN NULL ELSE Items[Len(Items)].id)
        BY <3>1, ReturnSeen
      <3> QED BY <2>1, <3>2, <3>3 DEF Abs!Next, Abs!AtOnce
    <2> QED BY <2>2, <2>4, <2>5
  <1>4. CASE DelEnd
    <2>1. PICK f \in {"del_first", "del_last"} :
             /\ pc = "idle" /\ op' = f /\ k' = NULL /\ d' = NULL
             /\ \/ ListEmpty /\ pc' = "idle" /\ ret' = -1
                \/ ~ListEmpty /\ pc' = "unlink" /\ UNCHANGED ret
      BY <1>4 DEF DelEnd, Call, Return, Goto
    <2>2. arr # NULL
      BY <1>4 DEF DelEnd
    <2>3. ListEmpty <=> Items = <<>>
      BY <2>1, <2>2, EndsAre
    <2>4. Abs!AtOnce \/ Abs!Begin
      BY <1>1, <2>1, <2>2, <2>3 DEF Abs!AtOnce, Abs!Begin, Abs!Call, Abs!Return, Removed
    <2> QED BY <2>4 DEF Abs!Next
  <1>5. CASE Search
    <2>1. Abs!Begin
      BY <1>1, <1>5 DEF Search, Call, Goto, Abs!Begin, Abs!Call, Removed
    <2> QED BY <2>1 DEF Abs!Next
  <1>6. CASE Add
    <2>1. Abs!Begin
      BY <1>1, <1>6 DEF Add, Call, Goto, Abs!Begin, Abs!Call, Removed
    <2> QED BY <2>1 DEF Abs!Next
  <1> QED BY <1>2, <1>3, <1>4, <1>5, <1>6

\* An entry that the search may stop at, and that is not older than any of the key.
LEMMA FoundIs ==
    ASSUME IndInv, WalkInv, Standing, k \in Key,
           NEW i \in DOMAIN Items, TRUE \in KeyMatches(key[Walk[i]], k), NotOlderThanAny(Walk[i], k)
    PROVE  Abs!Found(i)
  <1>1. \A j \in DOMAIN Items : Items[j].key = key[Walk[j]] /\ Walk[j] \in alive
    BY ItemFacts
  <1>2. Items[i].key \in Key
    BY <1>1 DEF IndInv, ArrayOK
  <1>3. <<Items[i].key, k>> \in {m \in Key \X Key : TRUE \in KeyMatches(m[1], m[2])}
    BY <1>1, <1>2
  <1>4. ASSUME NEW j \in DOMAIN Items, j > i, Items[j].key = k
        PROVE  FALSE
    <2>1. Walk[i] \in older[Walk[j]]
      <3>1. i < j
        <4>1. i \in Int /\ j \in Int
          BY ItemFacts
        <4> QED BY <1>4, <4>1
      <3> QED BY <3>1, ItemFacts
    <2>2. Walk[j] = Walk[i] \/ Walk[j] \in older[Walk[i]]
      BY <1>1, <1>4 DEF NotOlderThanAny
    <2> QED BY <1>1, <2>1, <2>2 DEF IndInv, Ordered
  <1> QED BY <1>3, <1>4 DEF Abs!Found

LEMMA SearchRefines ==
    ASSUME IndInv, WalkInv, SearchEnd \/ SearchHit \/ SearchNext
    PROVE  Abs!Next \/ UNCHANGED AbsVars
  <1>1. Items' = Items /\ arr' = arr
    BY ItemsKept DEF Quiet
  <1>2. pc = "search" /\ UNCHANGED call
    BY DEF SearchEnd, SearchHit, SearchNext
  <1>3. Standing /\ k \in Key /\ op \in {"get", "del", "replace"}
    BY <1>2 DEF IndInv, ArrayOK, CallOK, Standing, Clearing
  <1>4. CASE SearchEnd
    <2>1. \A y \in alive : key[y] # k
      BY <1>2, <1>4 DEF SearchEnd, IndInv, SearchOK
    <2>2. Abs!Absent
      BY <1>3, <2>1, ItemFacts DEF Abs!Absent
    <2>3. CASE op = "get"
      <3>1. Abs!Return(NULL)
        BY <1>4, <2>3, ReturnSeen DEF SearchEnd
      <3>2. Abs!GetReturns
        BY <1>1, <1>2, <2>2, <2>3, <3>1 DEF Abs!GetReturns, Removed, call
      <3> QED BY <3>2 DEF Abs!Next
    <2>4. CASE op = "del"
      <3>1. Abs!Return(1)
        BY <1>4, <2>4, ReturnSeen DEF SearchEnd
      <3>2. Abs!DelReturns
        BY <1>1, <1>2, <2>2, <2>4, <3>1 DEF Abs!DelReturns, Removed, call
      <3> QED BY <3>2 DEF Abs!Next
    <2>5. CASE op = "replace"
      <3>1. pc' = "malloc_entry" /\ ret' = ret
        BY <1>4, <2>5 DEF SearchEnd, Goto
      <3>2. Abs!Remove
        BY <1>1, <1>2, <2>2, <2>5, <3>1 DEF Abs!Remove, Removed, call
      <3> QED BY <3>2 DEF Abs!Next
    <2> QED BY <1>3, <2>3, <2>4, <2>5
  <1>5. CASE SearchHit
    <2>1. CASE op = "get"
      <3>1. Abs!Return(cur) /\ cur # NULL /\ TRUE \in KeyMatches(key[cur], k)
        BY <1>5, <2>1, ReturnSeen DEF SearchHit
      <3>2. cur \in alive /\ NotOlderThanAny(cur, k)
        BY <1>2, <3>1 DEF IndInv, SearchOK, NotOlderThanAny
      <3>3. PICK i \in DOMAIN Items : Walk[i] = cur
        BY <1>3, <3>2, ItemFacts DEF Range
      <3>4. Items[i].id = cur
        BY <1>3, <3>3, ItemFacts
      <3>5. Abs!Found(i)
        BY <1>3, <3>1, <3>2, <3>3, FoundIs
      <3>6. Abs!GetReturns
        BY <1>1, <1>2, <2>1, <3>1, <3>4, <3>5 DEF Abs!GetReturns, Removed, call
      <3> QED BY <3>6 DEF Abs!Next
    <2>2. CASE op # "get"
      <3>1. pc' = "unlink" /\ ret' = ret
        BY <1>5, <2>2 DEF SearchHit, Goto
      <3> QED BY <1>1, <1>2, <3>1 DEF AbsVars, Phase, Removed, call
    <2> QED BY <2>1, <2>2
  <1>6. CASE SearchNext
    <2>1. pc' = pc /\ ret' = ret
      BY <1>6 DEF SearchNext
    <2> QED BY <1>1, <1>2, <2>1 DEF AbsVars, Phase, Removed, call
  <1> QED BY <1>4, <1>5, <1>6

\* The removal takes effect when the entry leaves the ring.
LEMMA UnlinkRefines ==
    ASSUME IsFiniteSet(Entry), IndInv, WalkInv, Unlink
    PROVE  Abs!Next
  <1>1. /\ pc = "unlink" /\ pc' = "free_entry" /\ UNCHANGED <<arr, key, data, call, ret>>
    BY DEF Unlink, Goto, heap, fields
  <1>2. Standing /\ Standing' /\ op \in {"del", "replace", "del_first", "del_last"}
    BY <1>1 DEF IndInv, ArrayOK, CallOK, Standing, Clearing
  <1>3. PICK i \in DOMAIN Walk : Walk[i] = cur /\ Walk' = Less(Walk, i)
    BY WalkUnlinked
  <1>4. Items' = SubSeq(Items, 1, i - 1) \o SubSeq(Items, i + 1, Len(Items))
    <2>1. Items' = ItemsOf(Less(Walk, i), key, data) /\ Items = ItemsOf(Walk, key, data)
      BY <1>1, <1>2, <1>3, ItemsAre
    <2> DEFINE s == Walk
    <2>2. s \in Seq(Entry) /\ i \in DOMAIN s
      BY <1>2, <1>3, ItemFacts
    <2> HIDE DEF s
    <2>3. ItemsOf(Less(s, i), key, data)
             = SubSeq(ItemsOf(s, key, data), 1, i - 1)
                  \o SubSeq(ItemsOf(s, key, data), i + 1, Len(ItemsOf(s, key, data)))
      BY <2>2, ListIs, ItemsLess
    <2> QED BY <2>1, <2>3 DEF s
  <1>5. i \in DOMAIN Items /\ cur \in alive
    BY <1>2, <1>3, ItemFacts
  <1>6. \/ op \in {"del", "replace"} /\ Abs!Found(i)
        \/ op = "del_first" /\ i = 1
        \/ op = "del_last" /\ i = Len(Items)
    <2>1. CASE op \in {"del", "replace"}
      <3>1. k \in Key /\ TRUE \in KeyMatches(key[cur], k) /\ NotOlderThanAny(cur, k)
        BY <1>1, <2>1 DEF IndInv, CallOK, SearchOK
      <3> QED BY <1>2, <1>3, <1>5, <2>1, <3>1, FoundIs
    <2>2. CASE op = "del_first"
      <3>1. older[cur] = {}
        BY <1>1, <2>2 DEF IndInv, SearchOK
      <3>2. DOMAIN Items = 1 .. Len(Items) /\ Len(Items) \in Nat
        BY <1>2, ItemFacts
      <3>3. ~(1 < i)
        <4>1. 1 < i => 1 \in DOMAIN Items
          BY <1>5, <3>2
        <4> QED BY <1>2, <1>3, <1>5, <3>1, <4>1, ItemFacts
      <3> QED BY <1>5, <2>2, <3>2, <3>3
    <2>3. CASE op = "del_last"
      <3>1. older[cur] = alive \ {cur}
        BY <1>1, <2>3 DEF IndInv, SearchOK
      <3>2. DOMAIN Items = 1 .. Len(Items) /\ Len(Items) \in Nat
        BY <1>2, ItemFacts
      <3>3. ~(i < Len(Items))
        <4> SUFFICES ASSUME i < Len(Items) PROVE FALSE
          OBVIOUS
        <4> DEFINE y == Walk[Len(Items)]
        <4>1. Len(Items) \in DOMAIN Items
          BY <1>5, <3>2
        <4>2. y \in alive /\ cur \in older[y]
          BY <1>2, <1>3, <1>5, <4>1, ItemFacts
        <4>3. y # cur /\ y \notin older[cur]
          BY <1>5, <4>2 DEF IndInv, Ordered
        <4> QED BY <3>1, <4>2, <4>3
      <3> QED BY <1>5, <2>3, <3>2, <3>3
    <2> QED BY <1>2, <2>1, <2>2, <2>3
  <1>7. Abs!Remove
    BY <1>1, <1>4, <1>5, <1>6 DEF Abs!Remove, Removed, call
  <1> QED BY <1>7 DEF Abs!Next

LEMMA FreeRefines ==
    ASSUME IndInv, WalkInv, FreeEntry \/ Shrink
    PROVE  Abs!Next \/ UNCHANGED AbsVars
  <1>1. Items' = Items /\ arr' = arr
    BY ItemsKept DEF Quiet
  <1>2. UNCHANGED call /\ pc \in {"free_entry", "shrink"}
    BY DEF FreeEntry, Shrink
  <1>3. op \in {"del", "replace", "del_first", "del_last"}
    BY <1>2 DEF IndInv, CallOK
  <1>4. CASE FreeEntry
    <2>1. pc = "free_entry" /\ pc' = "shrink" /\ ret' = ret
      BY <1>4 DEF FreeEntry, Goto
    <2> QED BY <1>1, <1>2, <2>1 DEF AbsVars, Phase, Removed, call
  <1>5. CASE Shrink /\ op = "replace"
    <2>1. pc = "shrink" /\ pc' = "malloc_entry" /\ ret' = ret
      BY <1>5 DEF Shrink, Goto
    <2> QED BY <1>1, <1>2, <1>5, <2>1 DEF AbsVars, Phase, Removed, call
  <1>6. CASE Shrink /\ op # "replace"
    <2>1. pc = "shrink" /\ Abs!Return(0)
      BY <1>6, ReturnSeen DEF Shrink
    <2>2. Abs!DelReturns
      BY <1>1, <1>2, <1>3, <1>6, <2>1 DEF Abs!DelReturns, Removed, call
    <2> QED BY <2>2 DEF Abs!Next
  <1> QED BY <1>4, <1>5, <1>6

\* The addition takes effect when the entry is linked, or fails for lack of memory.
LEMMA AllocRefines ==
    ASSUME IndInv, WalkInv, MallocEntry \/ FillEntry
    PROVE  Abs!Next \/ UNCHANGED AbsVars
  <1>1. Items' = Items /\ arr' = arr
    BY ItemsKept DEF Quiet
  <1>2. UNCHANGED call /\ pc \in {"malloc_entry", "fill_entry"}
    BY DEF MallocEntry, FillEntry
  <1>3. op \in {"add", "replace"}
    BY <1>2 DEF IndInv, CallOK
  <1>4. Return(-1) \/ (pc' \in {"fill_entry", "link"} /\ ret' = ret)
    BY DEF MallocEntry, FillEntry, Goto
  <1>5. CASE Return(-1)
    <2>1. Abs!Return(-1)
      BY <1>5, ReturnSeen
    <2>2. Abs!AddReturns
      BY <1>1, <1>2, <1>3, <2>1 DEF Abs!AddReturns, Removed, call
    <2> QED BY <2>2 DEF Abs!Next
  <1>6. CASE pc' \in {"fill_entry", "link"} /\ ret' = ret
    BY <1>1, <1>2, <1>6 DEF AbsVars, Phase, Removed, call
  <1> QED BY <1>4, <1>5, <1>6

LEMMA LinkRefines ==
    ASSUME IsFiniteSet(Entry), IndInv, WalkInv, LinkEntry
    PROVE  Abs!Next
  <1>1. pc = "link" /\ Return(0) /\ UNCHANGED <<arr, key, data, call>>
    BY DEF LinkEntry, heap, fields
  <1>2. Standing /\ Standing' /\ op \in {"add", "replace"} /\ key[cur] = k /\ data[cur] = d
    BY <1>1 DEF IndInv, ArrayOK, CallOK, Standing, Clearing, Return
  <1>3. cur \in Entry /\ cur \notin alive
    BY <1>1 DEF IndInv, HeapExact, InFlight, TypeOK
  <1>4. Items' = Append(Items, [id |-> cur, key |-> k, data |-> d])
    <2>1. Items' = ItemsOf(Append(Walk, cur), key, data) /\ Items = ItemsOf(Walk, key, data)
      BY <1>1, <1>2, WalkLinked, ItemsAre
    <2> DEFINE s == Walk
    <2>2. s \in Seq(Entry)
      BY <1>2, ItemFacts
    <2> HIDE DEF s
    <2>3. ItemsOf(Append(s, cur), key, data)
             = Append(ItemsOf(s, key, data), [id |-> cur, key |-> key[cur], data |-> data[cur]])
      BY <1>3, <2>2, ListIs, ItemsAppended
    <2> QED BY <1>2, <2>1, <2>3 DEF s
  <1>5. \A i \in DOMAIN Items : Items[i].id # cur
    BY <1>2, <1>3, ItemFacts
  <1>6. Abs!Return(0)
    BY <1>1, ReturnSeen
  <1>7. Abs!AddReturns
    BY <1>1, <1>2, <1>3, <1>4, <1>5, <1>6 DEF Abs!AddReturns, Removed, call
  <1> QED BY <1>7 DEF Abs!Next

\* The items are gone when array_free begins; it returns when the blocks are.
LEMMA ClearRefines ==
    ASSUME IndInv, Free \/ ClearUnlink \/ ClearEntry \/ ClearBucket \/ FreeArray
    PROVE  Abs!Next \/ UNCHANGED AbsVars
  <1>1. CASE Free
    <2>1. Items' = <<>> /\ pc' = "clear" /\ UNCHANGED <<arr, ret>> /\ arr # NULL
      BY <1>1 DEF Free, Goto, Items, Clearing, heap
    <2>2. Abs!Call("free", NULL, NULL)
      BY <1>1, CallSeen DEF Free
    <2>3. Abs!Begin
      BY <2>1, <2>2 DEF Abs!Begin, Removed
    <2> QED BY <2>3 DEF Abs!Next
  <1>2. CASE ClearUnlink \/ ClearEntry \/ ClearBucket
    <2>1. Clearing /\ Clearing' /\ UNCHANGED <<arr, call, ret>>
      BY <1>2 DEF ClearUnlink, ClearEntry, ClearBucket, Goto, Clearing, heap
    <2>2. Items = <<>> /\ Items' = <<>>
      BY <2>1 DEF Items
    <2> QED BY <2>1, <2>2 DEF AbsVars, Phase, Removed, Clearing, call
  <1>3. CASE FreeArray
    <2>1. pc = "clear" /\ arr' = NULL /\ UNCHANGED call
      BY <1>3 DEF FreeArray
    <2>2. Items = <<>> /\ Items' = <<>> /\ op = "free"
      BY <2>1 DEF Items, Clearing, IndInv, CallOK
    <2>3. Abs!Return(0)
      BY <1>3, ReturnSeen DEF FreeArray
    <2>4. Abs!FreeReturns
      BY <2>1, <2>2, <2>3 DEF Abs!FreeReturns, Removed, call
    <2> QED BY <2>4 DEF Abs!Next
  <1> QED BY <1>1, <1>2, <1>3

LEMMA StepRefines ==
    ASSUME IsFiniteSet(Entry), IndInv, WalkInv, [Next]_vars
    PROVE  [Abs!Next]_Abs!vars
  <1>1. Abs!Next \/ UNCHANGED AbsVars
    <2>1. CASE Create \/ CreateHt \/ CreateTable
      BY <2>1, CreateRefines
    <2>2. CASE CallOnNull \/ GetEnd \/ Search \/ DelEnd \/ Add
      BY <2>2, CallRefines
    <2>3. CASE SearchEnd \/ SearchHit \/ SearchNext
      BY <2>3, SearchRefines
    <2>4. CASE Unlink
      BY <2>4, UnlinkRefines
    <2>5. CASE FreeEntry \/ Shrink
      BY <2>5, FreeRefines
    <2>6. CASE MallocEntry \/ FillEntry
      BY <2>6, AllocRefines
    <2>7. CASE LinkEntry
      BY <2>7, LinkRefines
    <2>8. CASE Free \/ ClearUnlink \/ ClearEntry \/ ClearBucket \/ FreeArray
      BY <2>8, ClearRefines
    <2>9. CASE UNCHANGED vars
      <3>1. UNCHANGED <<arr, list, key, data, pc, op, k, d, ret>>
        BY <2>9 DEF vars, heap, links, fields, call
      <3>2. Items' = Items
        BY <3>1 DEF Items, Clearing
      <3> QED BY <3>1, <3>2 DEF AbsVars, Phase, Removed
    <2> QED BY <2>1, <2>2, <2>3, <2>4, <2>5, <2>6, <2>7, <2>8, <2>9 DEF Next, Calls, Step
  <1> QED BY <1>1 DEF AbsVars, Phase, Abs!vars

-----------------------------------------------------------------------------
\* The walk of arr->list from its head meets the entries of the array, each once
\* and oldest first, whenever the array is there and array_free is not at work.
THEOREM WalkCorrect ==
    ASSUME IsFiniteSet(Entry) PROVE Spec => []WalkInv
  <1>1. Init => WalkInv
    BY DEF Init, WalkInv, Standing
  <1>2. IndInv /\ WalkInv /\ [Next]_vars => WalkInv'
    BY WalkNext
  <1> QED BY <1>1, <1>2, Invariance, PTL DEF Spec

\* Every behaviour of the pointer program is one of the abstract array: what the
\* getters return, which item a removal takes and where an addition goes are what
\* the sequence of the items says, whatever the table, the keys and malloc do.
THEOREM ArrayRefines ==
    ASSUME IsFiniteSet(Entry) PROVE Spec => ImplementsAssocSpec
  <1>1. Init => Abs!Init
    BY DEF Init, Abs!Init, Items, Removed
  <1>2. IndInv /\ WalkInv /\ [Next]_vars => [Abs!Next]_Abs!vars
    BY StepRefines
  <1> QED BY <1>1, <1>2, Invariance, WalkCorrect, PTL DEF Spec, ImplementsAssocSpec, Abs!Spec

-----------------------------------------------------------------------------
(* The walks of the chains, which only count. *)

\* g is what the walk of a chain counts in at most n steps, from each slot.
Counts(link, n, g) ==
    g = [i \in 0 .. n |->
            [s \in Bucket \cup Entry |->
                IF i = 0 \/ link[s] = NULL THEN 0 ELSE 1 + g[i - 1][link[s]]]]

LEMMA CountsExist ==
    ASSUME NEW link, NEW n \in Nat
    PROVE  \E g : Counts(link, n, g)
  <1> DEFINE T == {m \in Nat : \E g : Counts(link, m, g)}
             line(i, g) == [s \in Bucket \cup Entry |->
                              IF i = 0 \/ link[s] = NULL THEN 0 ELSE 1 + g[i - 1][link[s]]]
  <1>1. 0 \in T
    <2> DEFINE g == [i \in 0 .. 0 |-> [s \in Bucket \cup Entry |-> 0]]
    <2>1. Counts(link, 0, g)
      BY DEF Counts
    <2> QED BY <2>1
  <1>2. ASSUME NEW m \in T PROVE m + 1 \in T
    <2>1. PICK g : Counts(link, m, g)
      BY <1>2
    <2> DEFINE h == [i \in 0 .. m + 1 |-> IF i <= m THEN g[i] ELSE line(m + 1, g)]
    <2>2. \A i \in 0 .. m : g[i] = line(i, g)
      BY <2>1 DEF Counts
    <2>3. \A i \in 0 .. m + 1 : i # 0 => i - 1 \in 0 .. m + 1 /\ h[i - 1] = g[i - 1]
      BY <1>2
    <2>4. \A i \in 0 .. m + 1 : line(i, h) = line(i, g)
      <3>1. \A i \in 0 .. m + 1 : \A s \in Bucket \cup Entry :
               i # 0 => 1 + h[i - 1][link[s]] = 1 + g[i - 1][link[s]]
        <4> HIDE DEF h
        <4> QED BY <2>3
      <3> HIDE DEF h
      <3> QED BY <3>1
    <2>5. \A i \in 0 .. m + 1 : h[i] = line(i, g)
      <3>1. \A i \in 0 .. m + 1 : i <= m \/ i = m + 1
        BY <1>2
      <3>2. \A i \in 0 .. m + 1 : i <= m => i \in 0 .. m
        BY <1>2
      <3>3. ~(m + 1 <= m)
        BY <1>2
      <3> HIDE DEF line
      <3> QED BY <2>2, <3>1, <3>2, <3>3
    <2>6. h = [i \in 0 .. m + 1 |-> line(i, h)]
      BY <2>4, <2>5
    <2>7. Counts(link, m + 1, h)
      BY <2>6 DEF Counts
    <2> QED BY <1>2, <2>7
  <1> HIDE DEF T
  <1>3. T = Nat
    <2>1. T \subseteq Nat
      BY DEF T
    <2> QED BY <1>1, <1>2, <2>1, Induction
  <1> QED BY <1>3 DEF T

\* Behind the first entry of a chain is what is behind the slot, less that entry.
LEMMA ChainTail ==
    ASSUME NEW S \in SUBSET Entry, NEW o, Ordered(S, o), NEW h, NEW q, ChainsOf(h, S, o, q),
           NEW s \in Bucket \cup S, h.link[s] # NULL
    PROVE  /\ h.link[s] \in S /\ h.link[s] \in Behind(S, o, q, s)
           /\ Behind(S, o, q, h.link[s]) = Behind(S, o, q, s) \ {h.link[s]}
  <1> DEFINE y == h.link[s]
  <1>1. /\ y \in S /\ y \in Behind(S, o, q, s)
        /\ \A x \in Behind(S, o, q, s) \ {y} : x \in o[y]
        /\ Behind(S, o, q, s) \subseteq S
    BY ChainsFacts DEF ChainsLinked
  <1>2. Behind(S, o, q, y) = {x \in o[y] : BucketOf(q[x]) = BucketOf(q[y])}
    BY <1>1, BehindEntry
  <1>3. o[y] \subseteq S /\ y \notin o[y]
    BY <1>1 DEF Ordered
  <1>4. CASE s \in Bucket
    <2>1. Behind(S, o, q, s) = {x \in S : BucketOf(q[x]) = s}
      BY <1>4, BehindBucket
    <2>2. BucketOf(q[y]) = s
      BY <1>1, <2>1
    <2> HIDE DEF y
    <2> QED BY <1>1, <1>2, <1>3, <2>1, <2>2 DEF y
  <1>5. CASE s \in S
    <2>1. Behind(S, o, q, s) = {x \in o[s] : BucketOf(q[x]) = BucketOf(q[s])}
      BY <1>5, BehindEntry
    <2>2. y \in o[s] /\ BucketOf(q[y]) = BucketOf(q[s])
      BY <1>1, <2>1
    <2>3. \A x \in o[y] : x \in o[s]
      BY <1>1, <1>3, <1>5, <2>2 DEF Ordered
    <2> HIDE DEF y
    <2> QED BY <1>1, <1>2, <1>3, <2>1, <2>2, <2>3 DEF y
  <1> QED BY <1>1, <1>4, <1>5

\* The loop over a chain counts the entries of the bucket.
LEMMA ChainCounted ==
    ASSUME IsFiniteSet(Entry), IndInv, arr # NULL, NEW b \in Bucket
    PROVE  ChainLength(b) = Cardinality({e \in alive : BucketOf(key[e]) = b})
  <1> DEFINE n == Cardinality(Entry) + 1
             link == ht.link
             f == CHOOSE g : Counts(link, n, g)
             rest(s) == Behind(alive, older, key, s)
             P(i) == \A s \in Bucket \cup alive :
                        Cardinality(rest(s)) < i => f[i][s] = Cardinality(rest(s))
             T == {i \in Nat : i <= n => P(i)}
  <1>1. n \in Nat /\ n # 0 /\ IsFiniteSet(alive) /\ alive \subseteq Entry
    BY FS_CardinalityType DEF IndInv, ArrayOK, TypeOK
  <1>2. ChainLength(b) = f[n][b]
    BY Zenon DEF ChainLength, Counts
  <1> HIDE DEF n
  <1>3. Counts(link, n, f)
    BY <1>1, CountsExist
  <1>4. Ordered(alive, older) /\ ChainsOf(ht, alive, older, key)
    BY DEF IndInv, ChainsNewestFirst
  <1>5. \A s \in Bucket \cup alive :
           /\ IsFiniteSet(rest(s)) /\ Cardinality(rest(s)) \in Nat
           /\ Cardinality(rest(s)) <= Cardinality(Entry)
           /\ rest(s) = {} => Cardinality(rest(s)) = 0
    <2> SUFFICES ASSUME NEW s \in Bucket \cup alive
                 PROVE  /\ IsFiniteSet(rest(s)) /\ Cardinality(rest(s)) \in Nat
                        /\ Cardinality(rest(s)) <= Cardinality(Entry)
                        /\ rest(s) = {} => Cardinality(rest(s)) = 0
      OBVIOUS
    <2>1. rest(s) \in SUBSET Entry
      BY <1>1, <1>4, ChainsFacts DEF ChainsLinked
    <2> HIDE DEF rest
    <2>2. IsFiniteSet(rest(s)) /\ Cardinality(rest(s)) <= Cardinality(Entry)
      BY <2>1, FS_Subset
    <2> QED BY <2>2, FS_CardinalityType, FS_EmptySet
  <1>6. \A s \in Bucket \cup alive : link[s] = NULL => rest(s) = {}
    BY <1>4 DEF ChainsOf
  <1>7. ASSUME NEW s \in Bucket \cup alive, link[s] # NULL
        PROVE  /\ link[s] \in alive
               /\ Cardinality(rest(link[s])) = Cardinality(rest(s)) - 1
    <2>1. link[s] \in alive /\ link[s] \in rest(s) /\ rest(link[s]) = rest(s) \ {link[s]}
      <3> HIDE DEF P, T, f
      <3>1. alive \in SUBSET Entry /\ ht.link[s] # NULL
        BY <1>1, <1>7
      <3> QED BY <1>4, <3>1, ChainTail
    <2> HIDE DEF rest, link
    <2>2. Cardinality(rest(s) \ {link[s]}) = Cardinality(rest(s)) - 1
      BY <1>5, <2>1, FS_RemoveElement
    <2> QED BY <2>1, <2>2
  <1>8. \A i \in 0 .. n : \A s \in Bucket \cup alive :
           f[i][s] = IF i = 0 \/ link[s] = NULL THEN 0 ELSE 1 + f[i - 1][link[s]]
    <2> HIDE DEF f, link, T
    <2>1. f = [i \in 0 .. n |->
                 [s \in Bucket \cup Entry |->
                    IF i = 0 \/ link[s] = NULL THEN 0 ELSE 1 + f[i - 1][link[s]]]]
      BY <1>3 DEF Counts
    <2>2. Bucket \cup alive \subseteq Bucket \cup Entry
      BY <1>1
    <2> DEFINE line(i, s) == IF i = 0 \/ link[s] = NULL THEN 0 ELSE 1 + f[i - 1][link[s]]
    <2>3. f = [i \in 0 .. n |-> [s \in Bucket \cup Entry |-> line(i, s)]]
      BY <2>1
    <2> HIDE DEF line
    <2>4. \A i \in 0 .. n : \A s \in Bucket \cup alive : f[i][s] = line(i, s)
      BY <2>2, <2>3
    <2> QED BY <2>4 DEF line
  <1> HIDE DEF f, rest, link
  <1>9. P(0)
    BY <1>5
  <1>10. ASSUME NEW i \in Nat, i + 1 <= n, P(i) PROVE P(i + 1)
    <2> SUFFICES ASSUME NEW s \in Bucket \cup alive, Cardinality(rest(s)) < i + 1
                 PROVE  f[i + 1][s] = Cardinality(rest(s))
      OBVIOUS
    <2>1. i + 1 \in 0 .. n /\ i + 1 # 0 /\ (i + 1) - 1 = i
      BY <1>1, <1>10
    <2>2. f[i + 1][s] = IF link[s] = NULL THEN 0 ELSE 1 + f[i][link[s]]
      BY <1>8, <2>1
    <2>3. CASE link[s] = NULL
      BY <1>5, <1>6, <2>2, <2>3
    <2>4. CASE link[s] # NULL
      <3>1. link[s] \in alive /\ Cardinality(rest(link[s])) = Cardinality(rest(s)) - 1
        BY <1>7, <2>4
      <3>2. Cardinality(rest(s)) \in Nat
        BY <1>5
      <3>3. Cardinality(rest(link[s])) < i
        BY <3>1, <3>2
      <3>4. f[i][link[s]] = Cardinality(rest(link[s]))
        BY <1>10, <3>1, <3>3
      <3>5. 1 + (Cardinality(rest(s)) - 1) = Cardinality(rest(s))
        BY <3>2
      <3> QED BY <2>2, <2>4, <3>1, <3>4, <3>5
    <2> QED BY <2>3, <2>4
  <1> HIDE DEF P
  <1>11. T = Nat
    <2>1. \A i \in Nat : i + 1 <= n => i <= n
      BY <1>1
    <2>2. \A i \in T : i + 1 \in T
      BY <1>10, <2>1
    <2>3. 0 \in T /\ T \subseteq Nat
      BY <1>9
    <2> HIDE DEF T
    <2> QED BY <2>2, <2>3, Induction
  <1>12. P(n)
    BY <1>1, <1>11
  <1>13. Cardinality(rest(b)) < n
    BY <1>5, FS_CardinalityType DEF n
  <1>14. f[n][b] = Cardinality(rest(b))
    BY <1>12, <1>13 DEF P
  <1> QED BY <1>2, <1>14, BehindBucket DEF rest

\* g sums the numbers f of the elements of each subset of S, as MapThenSumSet does.
Sums(S, f, g) ==
    g = [s \in SUBSET S |->
            IF s = {} THEN 0 ELSE LET x == CHOOSE x \in s : TRUE IN f[x] + g[s \ {x}]]

\* A measure w of the subsets that grows with each element by its number is the sum.
LEMMA SumIs ==
    ASSUME NEW S, IsFiniteSet(S), NEW f \in [S -> Int], NEW w \in [SUBSET S -> Int],
           w[{}] = 0, \A s \in SUBSET S : \A x \in s : w[s] = f[x] + w[s \ {x}]
    PROVE  /\ Sums(S, f, w)
           /\ \A g : Sums(S, f, g) => g[S] = w[S]
  <1>1. Sums(S, f, w)
    <2> DEFINE line(s) == IF s = {} THEN 0
                          ELSE LET x == CHOOSE x \in s : TRUE IN f[x] + w[s \ {x}]
    <2>1. \A s \in SUBSET S : w[s] = line(s)
      <3> SUFFICES ASSUME NEW s \in SUBSET S PROVE w[s] = line(s)
        OBVIOUS
      <3>1. CASE s = {}
        BY <3>1
      <3>2. CASE s # {}
        <4>1. (CHOOSE x \in s : TRUE) \in s
          BY <3>2
        <4> QED BY <3>2, <4>1
      <3> QED BY <3>1, <3>2
    <2> HIDE DEF line
    <2>2. w = [s \in SUBSET S |-> line(s)]
      BY <2>1
    <2> QED BY <2>2 DEF Sums, line
  <1>2. ASSUME NEW g, Sums(S, f, g)
        PROVE  g[S] = w[S]
    <2> DEFINE line(s) == IF s = {} THEN 0
                          ELSE LET x == CHOOSE x \in s : TRUE IN f[x] + g[s \ {x}]
               T == {n \in Nat : \A s \in SUBSET S : Cardinality(s) = n => g[s] = w[s]}
    <2>1. \A s \in SUBSET S : IsFiniteSet(s) /\ Cardinality(s) \in Nat
      BY FS_Subset, FS_CardinalityType
    <2>2. \A s \in SUBSET S : g[s] = line(s)
      <3>1. g = [s \in SUBSET S |-> line(s)]
        BY <1>2 DEF Sums
      <3> HIDE DEF line
      <3> QED BY <3>1
    <2>3. 0 \in T
      <3>1. \A s \in SUBSET S : Cardinality(s) = 0 => s = {}
        BY <2>1, FS_EmptySet
      <3>2. g[{}] = 0
        <4>1. {} \in SUBSET S
          OBVIOUS
        <4> QED BY <2>2, <4>1
      <3> QED BY <3>1, <3>2
    <2>4. ASSUME NEW n \in T PROVE n + 1 \in T
      <3>0. n \in Nat /\ n + 1 \in Nat /\ \A s \in SUBSET S : Cardinality(s) = n => g[s] = w[s]
        BY <2>4
      <3> SUFFICES ASSUME NEW s \in SUBSET S, Cardinality(s) = n + 1
                   PROVE  g[s] = w[s]
        BY <3>0
      <3> HIDE DEF T
      <3> DEFINE x == CHOOSE x \in s : TRUE
      <3>1. s # {}
        <4>1. n + 1 # 0
          BY <3>0
        <4> QED BY <4>1, FS_EmptySet
      <3>2. x \in s
        BY <3>1
      <3>3. g[s] = f[x] + g[s \ {x}]
        BY <2>2, <3>1
      <3> HIDE DEF x
      <3>4. Cardinality(s \ {x}) = n /\ s \ {x} \in SUBSET S
        <4>1. Cardinality(s \ {x}) = Cardinality(s) - 1
          BY <2>1, <3>2, FS_RemoveElement
        <4> QED BY <3>0, <4>1
      <3>5. g[s \ {x}] = w[s \ {x}]
        BY <3>0, <3>4
      <3> QED BY <3>2, <3>3, <3>5
    <2> HIDE DEF T
    <2>5. T = Nat
      <3>1. T \subseteq Nat
        BY DEF T
      <3> QED BY <2>3, <2>4, <3>1, Induction
    <2> QED BY <2>1, <2>5 DEF T
  <1> QED BY <1>1, <1>2

\* The entries in the buckets of B.
InBuckets(B) == {e \in alive : BucketOf(key[e]) \in B}

\* The buckets of B with an entry.
UsedOf(B) == {b \in B : \E e \in alive : BucketOf(key[e]) = b}

LEMMA BucketsCounted ==
    ASSUME IsFiniteSet(alive), NEW B \in SUBSET Bucket, NEW b \in B
    PROVE  /\ Cardinality(InBuckets(B)) \in Nat /\ Cardinality(InBuckets({b})) \in Nat
           /\ Cardinality(InBuckets(B))
                 = Cardinality(InBuckets({b})) + Cardinality(InBuckets(B \ {b}))
           /\ Cardinality(UsedOf(B)) \in Nat
           /\ Cardinality(UsedOf(B))
                 = Cardinality(UsedOf(B \ {b}))
                      + IF Cardinality(InBuckets({b})) > 0 THEN 1 ELSE 0
  <1>1. IsFiniteSet(Bucket)
    BY TableAssumption, FS_Interval DEF Bucket
  <1>2. \A C \in SUBSET Bucket :
           /\ IsFiniteSet(InBuckets(C)) /\ IsFiniteSet(UsedOf(C))
           /\ Cardinality(InBuckets(C)) \in Nat /\ Cardinality(UsedOf(C)) \in Nat
    <2>1. \A C \in SUBSET Bucket : InBuckets(C) \in SUBSET alive /\ UsedOf(C) \in SUBSET Bucket
      BY DEF InBuckets, UsedOf
    <2>2. \A C \in SUBSET Bucket : IsFiniteSet(InBuckets(C)) /\ IsFiniteSet(UsedOf(C))
      BY <1>1, <2>1, FS_Subset
    <2> QED BY <2>2, FS_CardinalityType
  <1>3. {b} \in SUBSET Bucket /\ B \ {b} \in SUBSET Bucket
    OBVIOUS
  <1>4. Cardinality(InBuckets(B)) = Cardinality(InBuckets({b})) + Cardinality(InBuckets(B \ {b}))
    <2>1. /\ InBuckets(B) = InBuckets({b}) \cup InBuckets(B \ {b})
          /\ InBuckets({b}) \cap InBuckets(B \ {b}) = {}
      BY DEF InBuckets
    <2>2. Cardinality(InBuckets({b}) \cup InBuckets(B \ {b}))
             = Cardinality(InBuckets({b})) + Cardinality(InBuckets(B \ {b})) - Cardinality({})
      BY <1>2, <1>3, <2>1, FS_Union
    <2>3. Cardinality(InBuckets({b})) \in Nat /\ Cardinality(InBuckets(B \ {b})) \in Nat
      BY <1>2, <1>3
    <2>4. Cardinality({}) = 0
      BY FS_EmptySet
    <2>5. Cardinality(InBuckets(B))
             = Cardinality(InBuckets({b})) + Cardinality(InBuckets(B \ {b})) - 0
      BY <2>1, <2>2, <2>4, Zenon
    <2> QED BY <2>3, <2>5
  <1>5. CASE InBuckets({b}) = {}
    <2>1. UsedOf(B) = UsedOf(B \ {b})
      BY <1>5 DEF InBuckets, UsedOf
    <2>2. Cardinality(InBuckets({b})) = 0
      BY <1>5, FS_EmptySet
    <2>3. Cardinality(UsedOf(B)) \in Nat /\ ~(Cardinality(InBuckets({b})) > 0)
      BY <1>2, <2>2
    <2> QED BY <1>2, <1>3, <1>4, <2>1, <2>3
  <1>6. CASE InBuckets({b}) # {}
    <2>1. UsedOf(B) = UsedOf(B \ {b}) \cup {b} /\ b \notin UsedOf(B \ {b})
      BY <1>6 DEF InBuckets, UsedOf
    <2>2. Cardinality(UsedOf(B)) = Cardinality(UsedOf(B \ {b})) + 1
      BY <1>2, <1>3, <2>1, FS_AddElement
    <2>3. Cardinality(InBuckets({b})) > 0
      BY <1>2, <1>3, <1>6, FS_EmptySet
    <2> QED BY <1>2, <1>3, <1>4, <2>2, <2>3
  <1> QED BY <1>5, <1>6

LEMMA EntriesCounted ==
    ASSUME IsFiniteSet(Entry), IndInv, arr # NULL
    PROVE  COUNT_ENTRIES_IN_HASHTABLE = Cardinality(alive)
  <1> DEFINE f == [b \in Bucket |-> Cardinality(InBuckets({b}))]
             w == [B \in SUBSET Bucket |-> Cardinality(InBuckets(B))]
             sum == CHOOSE g : g = [s \in SUBSET Bucket |->
                      IF s = {} THEN 0
                      ELSE LET x == CHOOSE x \in s : TRUE IN ChainLength(x) + g[s \ {x}]]
  <1>1. COUNT_ENTRIES_IN_HASHTABLE = sum[Bucket]
    BY Zenon DEF COUNT_ENTRIES_IN_HASHTABLE, MapThenSumSet, MapThenFoldSet
  <1>2. IsFiniteSet(Bucket) /\ IsFiniteSet(alive) /\ alive \in SUBSET Entry
    BY TableAssumption, FS_Interval DEF Bucket, IndInv, ArrayOK, TypeOK
  <1>3. \A b \in Bucket : ChainLength(b) = Cardinality(InBuckets({b}))
    BY ChainCounted DEF InBuckets
  <1>4. \A B \in SUBSET Bucket : \A b \in B :
           /\ Cardinality(InBuckets(B)) \in Nat /\ Cardinality(InBuckets({b})) \in Nat
           /\ w[B] = f[b] + w[B \ {b}]
    <2>1. \A B \in SUBSET Bucket : \A b \in B : B \ {b} \in SUBSET Bucket /\ b \in Bucket
      OBVIOUS
    <2> SUFFICES ASSUME NEW B \in SUBSET Bucket, NEW b \in B
                 PROVE  /\ Cardinality(InBuckets(B)) \in Nat /\ Cardinality(InBuckets({b})) \in Nat
                        /\ w[B] = f[b] + w[B \ {b}]
      OBVIOUS
    <2>2. /\ Cardinality(InBuckets(B)) \in Nat /\ Cardinality(InBuckets({b})) \in Nat
          /\ Cardinality(InBuckets(B))
                = Cardinality(InBuckets({b})) + Cardinality(InBuckets(B \ {b}))
      BY <1>2, BucketsCounted
    <2> QED BY <2>1, <2>2
  <1>5. f \in [Bucket -> Int] /\ w \in [SUBSET Bucket -> Int] /\ w[{}] = 0
    <2>1. InBuckets({}) = {}
      BY DEF InBuckets
    <2>2. \A B \in SUBSET Bucket : Cardinality(InBuckets(B)) \in Int
      BY <1>2, FS_Subset, FS_CardinalityType DEF InBuckets
    <2> QED BY <2>1, <2>2, FS_EmptySet
  <1> HIDE DEF w
  <1>6. Sums(Bucket, f, w) /\ \A g : Sums(Bucket, f, g) => g[Bucket] = w[Bucket]
    <2> HIDE DEF f
    <2>1. \A B \in SUBSET Bucket : \A b \in B : w[B] = f[b] + w[B \ {b}]
      BY <1>4
    <2> QED BY <1>2, <1>5, <2>1, SumIs
  <1>7. \A g : Sums(Bucket, f, g) <=> g = [s \in SUBSET Bucket |->
                      IF s = {} THEN 0
                      ELSE LET x == CHOOSE x \in s : TRUE IN ChainLength(x) + g[s \ {x}]]
    <2>1. \A s \in SUBSET Bucket : s # {} => (CHOOSE x \in s : TRUE) \in s
      OBVIOUS
    <2>2. \A s \in SUBSET Bucket : \A x \in s : f[x] = ChainLength(x)
      BY <1>3
    <2> HIDE DEF f
    <2> DEFINE line(g, s) == IF s = {} THEN 0
                             ELSE LET x == CHOOSE x \in s : TRUE IN f[x] + g[s \ {x}]
               bare(g, s) == IF s = {} THEN 0
                             ELSE LET x == CHOOSE x \in s : TRUE IN ChainLength(x) + g[s \ {x}]
    <2>3. \A g : \A s \in SUBSET Bucket : line(g, s) = bare(g, s)
      BY <2>1, <2>2
    <2>4. \A g : Sums(Bucket, f, g) <=> g = [s \in SUBSET Bucket |-> line(g, s)]
      BY Zenon DEF Sums
    <2> HIDE DEF line, bare
    <2>5. \A g : Sums(Bucket, f, g) <=> g = [s \in SUBSET Bucket |-> bare(g, s)]
      <3> SUFFICES ASSUME NEW g
                   PROVE  Sums(Bucket, f, g) <=> g = [s \in SUBSET Bucket |-> bare(g, s)]
        OBVIOUS
      <3>1. [s \in SUBSET Bucket |-> line(g, s)] = [s \in SUBSET Bucket |-> bare(g, s)]
        BY <2>3
      <3> QED BY <2>4, <3>1, Zenon
    <2> QED BY <2>5, Zenon DEF bare
  <1>8. sum[Bucket] = w[Bucket]
    <2> HIDE DEF f
    <2> DEFINE R(g) == g = [s \in SUBSET Bucket |->
                      IF s = {} THEN 0
                      ELSE LET x == CHOOSE x \in s : TRUE IN ChainLength(x) + g[s \ {x}]]
    <2>1. sum = CHOOSE g : R(g)
      BY Zenon
    <2>2. \A g : Sums(Bucket, f, g) <=> R(g)
      BY <1>7, Zenon
    <2> HIDE DEF R, sum
    <2>3. R(w)
      BY <1>6, <2>2, Zenon
    <2>4. R(sum)
      BY <2>1, <2>3, Zenon
    <2> QED BY <1>6, <2>2, <2>4, Zenon
  <1>9. InBuckets(Bucket) = alive
    <2>1. \A e \in alive : key[e] \in Key
      BY DEF IndInv, ArrayOK
    <2> QED BY <2>1, BucketOfType DEF InBuckets
  <1> QED BY <1>1, <1>8, <1>9 DEF w

LEMMA CollisionsCounted ==
    ASSUME IsFiniteSet(Entry), IndInv, arr # NULL, size # 0
    PROVE  array_collision_percent
              = ((Cardinality(alive) - Cardinality(UsedOf(Bucket))) * 100) \div size
  <1> DEFINE f == [b \in Bucket |-> IF Cardinality(InBuckets({b})) > 1
                                    THEN Cardinality(InBuckets({b})) - 1 ELSE 0]
             w == [B \in SUBSET Bucket |-> Cardinality(InBuckets(B)) - Cardinality(UsedOf(B))]
             collisions(b) == IF ChainLength(b) > 1 THEN ChainLength(b) - 1 ELSE 0
             sum == CHOOSE g : g = [s \in SUBSET Bucket |->
                      IF s = {} THEN 0
                      ELSE LET x == CHOOSE x \in s : TRUE IN collisions(x) + g[s \ {x}]]
  <1>1. array_collision_percent = (sum[Bucket] * 100) \div size
    BY Zenon DEF array_collision_percent, MapThenSumSet, MapThenFoldSet
  <1>2. IsFiniteSet(Bucket) /\ IsFiniteSet(alive) /\ alive \in SUBSET Entry
    BY TableAssumption, FS_Interval DEF Bucket, IndInv, ArrayOK, TypeOK
  <1>3. \A b \in Bucket : ChainLength(b) = Cardinality(InBuckets({b}))
    BY ChainCounted DEF InBuckets
  <1>4. \A B \in SUBSET Bucket :
            Cardinality(InBuckets(B)) \in Nat /\ Cardinality(UsedOf(B)) \in Nat
    <2>1. \A B \in SUBSET Bucket : InBuckets(B) \in SUBSET alive /\ UsedOf(B) \in SUBSET Bucket
      BY DEF InBuckets, UsedOf
    <2>2. \A B \in SUBSET Bucket : IsFiniteSet(InBuckets(B)) /\ IsFiniteSet(UsedOf(B))
      BY <1>2, <2>1, FS_Subset
    <2> QED BY <2>2, FS_CardinalityType
  <1>5. \A B \in SUBSET Bucket : \A b \in B : w[B] = f[b] + w[B \ {b}]
    <2> SUFFICES ASSUME NEW B \in SUBSET Bucket, NEW b \in B
                 PROVE  w[B] = f[b] + w[B \ {b}]
      OBVIOUS
    <2>1. B \ {b} \in SUBSET Bucket /\ b \in Bucket
      OBVIOUS
    <2>2. /\ Cardinality(InBuckets({b})) \in Nat
          /\ Cardinality(InBuckets(B))
                = Cardinality(InBuckets({b})) + Cardinality(InBuckets(B \ {b}))
          /\ Cardinality(UsedOf(B))
                = Cardinality(UsedOf(B \ {b}))
                     + IF Cardinality(InBuckets({b})) > 0 THEN 1 ELSE 0
      BY <1>2, BucketsCounted
    <2>3. Cardinality(UsedOf(B \ {b})) \in Nat /\ Cardinality(InBuckets(B \ {b})) \in Nat
      BY <1>4, <2>1
    <2>4. /\ w[B] = Cardinality(InBuckets(B)) - Cardinality(UsedOf(B))
          /\ w[B \ {b}] = Cardinality(InBuckets(B \ {b})) - Cardinality(UsedOf(B \ {b}))
          /\ f[b] = IF Cardinality(InBuckets({b})) > 1 THEN Cardinality(InBuckets({b})) - 1 ELSE 0
      BY <2>1
    <2> HIDE DEF w, f
    <2> QED BY <2>2, <2>3, <2>4
  <1>6. f \in [Bucket -> Int] /\ w \in [SUBSET Bucket -> Int] /\ w[{}] = 0
    <2>1. InBuckets({}) = {} /\ UsedOf({}) = {}
      BY DEF InBuckets, UsedOf
    <2>2. Cardinality({}) = 0
      BY FS_EmptySet
    <2>3. \A B \in SUBSET Bucket : Cardinality(InBuckets(B)) - Cardinality(UsedOf(B)) \in Int
      BY <1>4
    <2>4. \A b \in Bucket :
             (IF Cardinality(InBuckets({b})) > 1 THEN Cardinality(InBuckets({b})) - 1 ELSE 0) \in Int
      BY <1>4
    <2> QED BY <2>1, <2>2, <2>3, <2>4
  <1> HIDE DEF w
  <1>7. Sums(Bucket, f, w) /\ \A g : Sums(Bucket, f, g) => g[Bucket] = w[Bucket]
    <2> HIDE DEF f
    <2>1. \A B \in SUBSET Bucket : \A b \in B : w[B] = f[b] + w[B \ {b}]
      BY <1>5
    <2> QED BY <1>2, <1>6, <2>1, SumIs
  <1>8. \A g : Sums(Bucket, f, g) <=> g = [s \in SUBSET Bucket |->
                      IF s = {} THEN 0
                      ELSE LET x == CHOOSE x \in s : TRUE IN collisions(x) + g[s \ {x}]]
    <2>1. \A s \in SUBSET Bucket : s # {} => (CHOOSE x \in s : TRUE) \in s
      OBVIOUS
    <2>2. \A s \in SUBSET Bucket : \A x \in s : f[x] = collisions(x)
      BY <1>3
    <2> HIDE DEF f, collisions
    <2> DEFINE line(g, s) == IF s = {} THEN 0
                             ELSE LET x == CHOOSE x \in s : TRUE IN f[x] + g[s \ {x}]
               bare(g, s) == IF s = {} THEN 0
                             ELSE LET x == CHOOSE x \in s : TRUE IN collisions(x) + g[s \ {x}]
    <2>3. \A g : \A s \in SUBSET Bucket : line(g, s) = bare(g, s)
      BY <2>1, <2>2
    <2>4. \A g : Sums(Bucket, f, g) <=> g = [s \in SUBSET Bucket |-> line(g, s)]
      BY Zenon DEF Sums
    <2> HIDE DEF line, bare
    <2>5. \A g : Sums(Bucket, f, g) <=> g = [s \in SUBSET Bucket |-> bare(g, s)]
      <3> SUFFICES ASSUME NEW g
                   PROVE  Sums(Bucket, f, g) <=> g = [s \in SUBSET Bucket |-> bare(g, s)]
        OBVIOUS
      <3>1. [s \in SUBSET Bucket |-> line(g, s)] = [s \in SUBSET Bucket |-> bare(g, s)]
        BY <2>3
      <3> QED BY <2>4, <3>1, Zenon
    <2> QED BY <2>5, Zenon DEF bare
  <1>9. sum[Bucket] = w[Bucket]
    <2> HIDE DEF f
    <2> DEFINE R(g) == g = [s \in SUBSET Bucket |->
                      IF s = {} THEN 0
                      ELSE LET x == CHOOSE x \in s : TRUE IN collisions(x) + g[s \ {x}]]
    <2>1. sum = CHOOSE g : R(g)
      BY Zenon
    <2>2. \A g : Sums(Bucket, f, g) <=> R(g)
      BY <1>8, Zenon
    <2> HIDE DEF R, sum
    <2>3. R(w)
      BY <1>7, <2>2, Zenon
    <2>4. R(sum)
      BY <2>1, <2>3, Zenon
    <2> QED BY <1>7, <2>2, <2>4, Zenon
  <1>10. InBuckets(Bucket) = alive
    <2>1. \A e \in alive : key[e] \in Key
      BY DEF IndInv, ArrayOK
    <2> QED BY <2>1, BucketOfType DEF InBuckets
  <1> HIDE DEF sum
  <1> QED BY <1>1, <1>9, <1>10 DEF w

\* Between two calls COUNT_ENTRIES_IN_HASHTABLE is arr->size, and
\* array_collision_percent the share of the entries that are not the first of their
\* bucket, whatever the keys hash to.
THEOREM MeasuresCorrect ==
    ASSUME IsFiniteSet(Entry) PROVE Spec => []MeasuresAgree
  <1>1. IndInv => MeasuresAgree
    <2> SUFFICES ASSUME IndInv, arr # NULL, pc = "idle"
                 PROVE  LET n    == Cardinality(alive)
                            used == Cardinality({BucketOf(key[e]) : e \in alive})
                        IN  /\ COUNT_ENTRIES_IN_HASHTABLE = size
                            /\ array_collision_percent = IF n = 0 THEN 0 ELSE ((n - used) * 100) \div n
      BY DEF MeasuresAgree
    <2>1. size = Cardinality(alive)
      <3>1. size = Cardinality(alive) + 0 /\ IsFiniteSet(alive)
        BY DEF IndInv, SizeExact, ArrayOK, Clearing
      <3> QED BY <3>1, FS_CardinalityType
    <2>2. {BucketOf(key[e]) : e \in alive} = UsedOf(Bucket)
      <3>1. \A e \in alive : BucketOf(key[e]) \in Bucket
        BY BucketOfType DEF IndInv, ArrayOK
      <3> QED BY <3>1 DEF UsedOf
    <2>3. COUNT_ENTRIES_IN_HASHTABLE = size
      BY <2>1, EntriesCounted
    <2>4. CASE size = 0
      <3>1. array_collision_percent = 0
        BY <2>4 DEF array_collision_percent
      <3> QED BY <2>1, <2>3, <2>4, <3>1
    <2>5. CASE size # 0
      <3>1. array_collision_percent
               = ((Cardinality(alive) - Cardinality(UsedOf(Bucket))) * 100) \div size
        BY <2>5, CollisionsCounted
      <3> QED BY <2>1, <2>2, <2>3, <2>5, <3>1
    <2> QED BY <2>4, <2>5
  <1> QED BY <1>1, Invariance, PTL

=============================================================================
