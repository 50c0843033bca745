----------------------------- MODULE ListMachine -----------------------------
(***************************************************************************)
(* Programs that use the whole interface of list.h, and of the macros of   *)
(* hashtable.h for tables of fixed size, against what the calls promise:   *)
(* seq[h] and chainSeq[b] are the sequences the program believes to be in  *)
(* its rings and buckets.                                                  *)
(*                                                                         *)
(* The two kinds of list share nothing, so a behaviour uses one: family.   *)
(* A ring program may have a second thread that asks k_list_empty_careful  *)
(* of an entry, without a lock, while the first runs k_list_del_init: the  *)
(* one thing the comment on k_list_empty_careful allows.                   *)
(***************************************************************************)
EXTENDS KListWalk, HList, SequencesExt

CONSTANTS
    Node,      \* the entries
    RingHead,  \* the heads of rings
    Bucket     \* the heads of chains: the slots of a hash table

ASSUME NodeAssumption ==
    /\ Node \cap (RingHead \cup Bucket \cup Poison \cup {NULL}) = {}
    /\ (RingHead \cup Bucket) \cap (Poison \cup {NULL}) = {}
    /\ IsFiniteSet(Node)

\* A table is an array of one bucket or more.
ASSUME BucketAssumption == Bucket \subseteq Nat /\ 0 \in Bucket /\ \A b \in Bucket : 0 .. b \subseteq Bucket

\* The stores of k_list_del_init: to the entry's neighbours, and to the entry.
Store == {"next.prev", "prev.next", "e.next", "e.prev"}

\* NULL is an address: it also says that no deletion is on its way.
ASSUME DeletionAssumption ==
    NULL \notin [entry : Node, prev : Node \cup RingHead, next : Node \cup RingHead,
                 left : SUBSET Store]

VARIABLES
    family,    \* "ring" or "chain"
    ring,      \* the next and prev pointers
    seq,       \* the program's idea of each ring
    deleting,  \* k_list_del_init on its way: its entry, neighbours and stores left
    look,      \* k_list_empty_careful on its way: the entry, the loads left
    loop,      \* a loop over a ring that is safe against removal
    chain,     \* the link and pprev pointers
    chainSeq,  \* the program's idea of each bucket
    scan       \* a loop over the table that is safe against removal

vars == <<family, ring, seq, deleting, look, loop, chain, chainSeq, scan>>
rings  == <<deleting, look, loop>>
chains == <<chain, chainSeq, scan>>

Place  == Node \cup RingHead
Slot   == Node \cup Bucket
Listed == UNION {ToSet(seq[h]) : h \in RingHead}
InTable == UNION {ToSet(chainSeq[b]) : b \in Bucket}

Init ==
    /\ family \in {"ring", "chain"}
    /\ ring = [next |-> [x \in Place |-> IF x \in RingHead THEN x ELSE LIST_POISON1],
               prev |-> [x \in Place |-> IF x \in RingHead THEN x ELSE LIST_POISON2]]
    /\ seq = [h \in RingHead |-> <<>>]
    /\ deleting = NULL /\ look = NULL /\ loop = NULL
    /\ chain = [link |-> [s \in Slot |-> NULL], pprev |-> [e \in Node |-> NULL]]
    /\ chainSeq = [b \in Bucket |-> <<>>]
    /\ scan = NULL

-----------------------------------------------------------------------------
(* What the calls mean for sequences. *)

\* Where x is in q, an entry of which is x.
PlaceOf(q, x) == CHOOSE i \in DOMAIN q : q[i] = x

\* Sequence r comes in the place of x.
Instead(q, x, r) == IF x \in ToSet(q) THEN ReplaceSubSeqAt(PlaceOf(q, x), r, <<x>>, q) ELSE q

InsteadOf(s, x, r) == [h \in DOMAIN s |-> Instead(s[h], x, r)]

Without(s, e) == InsteadOf(s, e, <<>>)

\* Sequence r goes behind, or before, the entry or head x.
Behind(s, x, r) ==
    IF x \in DOMAIN s THEN [s EXCEPT ![x] = r \o @] ELSE InsteadOf(s, x, <<x>> \o r)
Before(s, x, r) ==
    IF x \in DOMAIN s THEN [s EXCEPT ![x] = @ \o r] ELSE InsteadOf(s, x, r \o <<x>>)

-----------------------------------------------------------------------------
(* Rings: one action per call *)

Edit(l, s) == ring' = l /\ seq' = s

\* The first thread, which holds whatever lock there is, begins a call.
RingCall ==
    /\ family = "ring" /\ deleting = NULL /\ loop = NULL
    /\ UNCHANGED <<family, rings, chains>>

\* An entry that may be put on a list: nobody is asking whether it is off.
MayGo(e) == look # NULL => look.entry # e

RingAdd ==
    /\ RingCall
    /\ \E e \in Node \ Listed, x \in Listed \cup RingHead :
          /\ MayGo(e)
          /\ \/ Edit(k_list_add(ring, e, x), Behind(seq, x, <<e>>))
             \/ Edit(k_list_add_tail(ring, e, x), Before(seq, x, <<e>>))

\* k_list_del; and k_list_del_init of an entry it has taken out before.
RingDel ==
    /\ RingCall
    /\ \/ \E e \in Listed : Edit(k_list_del(ring, e), Without(seq, e))
       \/ \E e \in Node \ Listed :
             ring.next[e] = e /\ ring.prev[e] = e /\ Edit(k_list_del_init(ring, e), seq)

RingDelRange ==
    /\ RingCall
    /\ \E h \in RingHead : \E i, j \in DOMAIN seq[h] :
          /\ i <= j
          /\ Edit(list_del_range(ring, seq[h][i], seq[h][j]),
                  [seq EXCEPT ![h] = SubSeq(@, 1, i - 1) \o SubSeq(@, j + 1, Len(@))])

\* The old entry is replaced by one that is off, or a head by an empty head.
RingReplace ==
    /\ RingCall
    /\ \/ \E old \in Listed, e \in Node \ Listed :
             /\ MayGo(e)
             /\ \E f \in {"replace", "replace_init"} :
                   Edit(IF f = "replace" THEN k_list_replace(ring, old, e)
                        ELSE k_list_replace_init(ring, old, e),
                        InsteadOf(seq, old, <<e>>))
       \/ \E old, new \in RingHead :
             /\ old # new /\ seq[new] = <<>>
             /\ Edit(k_list_replace_init(ring, old, new),
                     [seq EXCEPT ![new] = seq[old], ![old] = <<>>])

RingMove ==
    /\ RingCall
    /\ \/ \E e \in Listed : \E x \in (Listed \cup RingHead) \ {e} :
             /\ MayGo(e)
             /\ \/ Edit(k_list_move(ring, e, x), Behind(Without(seq, e), x, <<e>>))
                \/ Edit(k_list_move_tail(ring, e, x), Before(Without(seq, e), x, <<e>>))
       \/ \E h \in RingHead :
             Edit(k_list_rotate_left(ring, h),
                  [seq EXCEPT ![h] = IF @ = <<>> THEN @ ELSE Tail(@) \o <<Head(@)>>])

\* What was in list is lost.
RingCut ==
    /\ RingCall
    /\ \E list, h \in RingHead : \E entry \in ToSet(seq[h]) \cup {h} :
          /\ list # h
          /\ Edit(k_list_cut_position(ring, list, h, entry),
                  IF seq[h] = <<>> THEN seq
                  ELSE LET n == IF entry = h THEN 0 ELSE PlaceOf(seq[h], entry)
                       IN  [seq EXCEPT ![list] = SubSeq(seq[h], 1, n),
                                       ![h] = SubSeq(seq[h], n + 1, Len(seq[h]))])

\* The lists are joined.  After the two splices that do not initialise the list
\* the program does, before it uses the list again.
RingSplice ==
    /\ RingCall
    /\ \E list \in RingHead : \E x \in (Listed \cup RingHead) \ (ToSet(seq[list]) \cup {list}) :
          LET rest == [seq EXCEPT ![list] = <<>>]
          IN  \/ Edit(K_INIT_LIST_HEAD(k_list_splice(ring, list, x), list),
                      Behind(rest, x, seq[list]))
              \/ Edit(k_list_splice_init(ring, list, x), Behind(rest, x, seq[list]))
              \/ Edit(K_INIT_LIST_HEAD(k_list_splice_tail(ring, list, x), list),
                      Before(rest, x, seq[list]))
              \/ Edit(k_list_splice_tail_init(ring, list, x), Before(rest, x, seq[list]))

-----------------------------------------------------------------------------
(* k_list_del_init by the first thread, k_list_empty_careful by the second *)

\* The entry's neighbours are loaded.
BeginDelInit ==
    /\ family = "ring" /\ deleting = NULL /\ loop = NULL
    /\ \E e \in Listed :
          deleting' = [entry |-> e, prev |-> ring.prev[e], next |-> ring.next[e],
                       left |-> Store]
    /\ UNCHANGED <<family, ring, seq, look, loop, chains>>

\* The stores that may be next: those of __list_del in their order, then those of
\* K_INIT_LIST_HEAD, which are plain stores, in either order.
Ready(left) ==
    IF "next.prev" \in left THEN {"next.prev"}
    ELSE IF "prev.next" \in left THEN {"prev.next"} ELSE left

StoreDelInit ==
    /\ deleting # NULL
    /\ \E s \in Ready(deleting.left) :
          LET e == deleting.entry IN
          /\ ring' = CASE s = "next.prev" -> [ring EXCEPT !.prev[deleting.next] = deleting.prev]
                       [] s = "prev.next" -> [ring EXCEPT !.next[deleting.prev] = deleting.next]
                       [] s = "e.next" -> [ring EXCEPT !.next[e] = e]
                       [] s = "e.prev" -> [ring EXCEPT !.prev[e] = e]
          /\ IF deleting.left = {s}
             THEN deleting' = NULL /\ seq' = Without(seq, e)
             ELSE deleting' = [deleting EXCEPT !.left = @ \ {s}] /\ UNCHANGED seq
    /\ UNCHANGED <<family, look, loop, chains>>

\* A mutant of careful_fields: k_list_empty.
plain_fields == {"next"}

\* The fields k_list_empty_careful compares with the entry, in either order.
careful_fields == {"next", "prev"}

LookBegin ==
    /\ family = "ring" /\ look = NULL
    /\ \E e \in Node : look' = [entry |-> e, left |-> careful_fields]
    /\ UNCHANGED <<family, ring, seq, deleting, loop, chains>>

\* A field that is not the entry itself: the answer is no.
LookField ==
    /\ look # NULL
    /\ \E f \in look.left :
          look' = IF ring[f][look.entry] = look.entry
                  THEN [look EXCEPT !.left = @ \ {f}] ELSE NULL
    /\ UNCHANGED <<family, ring, seq, deleting, loop, chains>>

\* The answer is yes, and the thread goes on.
SaidEmpty == look # NULL /\ look.left = {}

LookEnd ==
    /\ SaidEmpty
    /\ look' = NULL
    /\ UNCHANGED <<family, ring, seq, deleting, loop, chains>>

-----------------------------------------------------------------------------
(* Loops over a ring that are safe against removal *)

\* What lies behind head, or behind entry x, in the direction of the loop.
Course(h, dir) == IF dir = "next" THEN seq[h] ELSE Reverse(seq[h])
CourseFrom(q, x) == SubSeq(q, PlaceOf(q, x), Len(q))

\* A loop stands at pos, has read the entry behind it, and still has to meet due.
StartAt(h, dir, pos, due) ==
    loop' = [head |-> h, dir |-> dir, pos |-> pos, n |-> ring[dir][pos], due |-> due]

\* k_list_for_each_safe, _prev_safe, _entry_safe and _entry_safe_reverse start at
\* an end; _safe_from at an entry, _safe_continue behind one.
LoopStart ==
    /\ family = "ring" /\ deleting = NULL /\ loop = NULL /\ look = NULL
    /\ \E h \in RingHead, dir \in {"next", "prev"} :
          \/ StartAt(h, dir, ring[dir][h], Course(h, dir))
          \/ \E x \in ToSet(seq[h]) :
                /\ dir = "next"
                /\ \/ StartAt(h, dir, x, CourseFrom(seq[h], x))
                   \/ StartAt(h, dir, ring.next[x], Tail(CourseFrom(seq[h], x)))
    /\ UNCHANGED <<family, ring, seq, deleting, look, chains>>

\* The body takes the entry it is at out of the list.
LoopRemove ==
    /\ loop # NULL
    /\ loop.pos # loop.head /\ loop.pos \in ToSet(seq[loop.head])
    /\ \/ Edit(k_list_del(ring, loop.pos), Without(seq, loop.pos))
       \/ Edit(k_list_del_init(ring, loop.pos), Without(seq, loop.pos))
       \/ \E h \in RingHead \ {loop.head} :
             Edit(k_list_move(ring, loop.pos, h), Behind(Without(seq, loop.pos), h, <<loop.pos>>))
    /\ UNCHANGED <<family, rings, chains>>

\* A mutant of k_list_safe_reset_next: the old successor is kept.
k_list_safe_keep_next(l, pos) == loop.n

k_list_safe_reset_next(l, pos) == l.next[pos]

\* The body takes out the entry behind the one it is at, which is still in the
\* list, and resets the loop.
LoopRemoveNext ==
    /\ loop # NULL
    /\ loop.pos # loop.head /\ loop.pos \in ToSet(seq[loop.head])
    /\ loop.n # loop.head /\ loop.dir = "next"
    /\ Edit(k_list_del(ring, loop.n), Without(seq, loop.n))
    /\ loop' = [loop EXCEPT !.n = k_list_safe_reset_next(ring', loop.pos),
                            !.due = Instead(@, loop.n, <<>>)]
    /\ UNCHANGED <<family, deleting, look, chains>>

LoopNext ==
    /\ loop # NULL
    /\ loop.pos # loop.head
    /\ StartAt(loop.head, loop.dir, loop.n, Tail(loop.due))
    /\ UNCHANGED <<family, ring, seq, deleting, look, chains>>

LoopEnd ==
    /\ loop # NULL
    /\ loop.pos = loop.head
    /\ loop' = NULL
    /\ UNCHANGED <<family, ring, seq, deleting, look, chains>>

-----------------------------------------------------------------------------
(* Chains: one action per call *)

EditChain(c, s) == chain' = c /\ chainSeq' = s

ChainCall ==
    /\ family = "chain" /\ scan = NULL
    /\ UNCHANGED <<family, ring, seq, rings, scan>>

\* A node out of the table that hlist_add_fake may be called on, or was.
Fakes == {e \in Node : hlist_fake(chain, e)}
Loose == Node \ (InTable \cup Fakes)

HashAdd ==
    /\ ChainCall
    /\ \E e \in Loose :
          \/ \E b \in Bucket :
                EditChain(hlist_add_head(chain, e, b), Behind(chainSeq, b, <<e>>))
          \/ \E x \in InTable :
                \/ EditChain(hlist_add_before(chain, e, x), Before(chainSeq, x, <<e>>))
                \/ EditChain(hlist_add_behind(chain, e, x), Behind(chainSeq, x, <<e>>))

\* hlist_add_fake leaves next as it is, and hlist_del follows it: the node has
\* been initialised.
AddFake ==
    /\ ChainCall
    /\ \E e \in Loose :
          /\ chain.link[e] = NULL
          /\ EditChain(hlist_add_fake(chain, e), chainSeq)

\* hlist_del, or hash_del, which a node that is in no list survives.
HashDel ==
    /\ ChainCall
    /\ \/ \E e \in InTable \cup Fakes :
             EditChain(hlist_del(chain, e), Without(chainSeq, e))
       \/ \E e \in Node :
             /\ chain.pprev[e] # LIST_POISON2
             /\ EditChain(hlist_del_init(chain, e), Without(chainSeq, e))

MoveList ==
    /\ ChainCall
    /\ \E old, new \in Bucket :
          /\ old # new /\ chainSeq[new] = <<>>
          /\ EditChain(hlist_move_list(chain, old, new),
                       [chainSeq EXCEPT ![new] = chainSeq[old], ![old] = <<>>])

-----------------------------------------------------------------------------
(* hash_for_each_safe over the table, a bucket after the other *)

\* The chain loop at node obj has read its successor, if there is a node; due is
\* what it still has to meet of each bucket.
ScanAt(bkt, obj, due) ==
    scan' = [bkt |-> bkt, obj |-> obj, due |-> due,
             tmp |-> IF obj = NULL THEN scan.tmp ELSE chain.link[obj]]

\* hash_for_each_safe, or hash_for_each_possible_safe of one bucket.
ScanStart ==
    /\ family = "chain" /\ scan = NULL
    /\ scan' = [bkt |-> 0, obj |-> chain.link[0], due |-> chainSeq,
                tmp |-> IF chain.link[0] = NULL THEN NULL ELSE chain.link[chain.link[0]]]
    /\ UNCHANGED <<family, ring, seq, rings, chain, chainSeq>>

\* The body takes its object out of the table.
ScanRemove ==
    /\ scan # NULL
    /\ scan.obj \in InTable
    /\ \E f \in {"hash_del", "hlist_del"} :
          EditChain(IF f = "hash_del" THEN hlist_del_init(chain, scan.obj)
                    ELSE hlist_del(chain, scan.obj),
                    Without(chainSeq, scan.obj))
    /\ UNCHANGED <<family, ring, seq, rings, scan>>

ScanNext ==
    /\ scan # NULL /\ scan.obj # NULL
    /\ ScanAt(scan.bkt, scan.tmp, [scan.due EXCEPT ![scan.bkt] = Tail(@)])
    /\ UNCHANGED <<family, ring, seq, rings, chain, chainSeq>>

\* obj is NULL at the end of a chain: the loop over the buckets goes on.
ScanBucket ==
    /\ scan # NULL /\ scan.obj = NULL
    /\ scan.bkt + 1 \in Bucket
    /\ ScanAt(scan.bkt + 1, chain.link[scan.bkt + 1], scan.due)
    /\ UNCHANGED <<family, ring, seq, rings, chain, chainSeq>>

\* All buckets are done, or a break of the body leaves the chain with obj set, and
\* with it the loop over the buckets.
ScanEnd ==
    /\ scan # NULL
    /\ scan.obj # NULL \/ scan.bkt + 1 \notin Bucket
    /\ scan' = NULL
    /\ UNCHANGED <<family, ring, seq, rings, chain, chainSeq>>

-----------------------------------------------------------------------------
Next ==
    \/ RingAdd \/ RingDel \/ RingDelRange \/ RingReplace \/ RingMove \/ RingCut \/ RingSplice
    \/ BeginDelInit \/ StoreDelInit \/ LookBegin \/ LookField \/ LookEnd
    \/ LoopStart \/ LoopRemove \/ LoopRemoveNext \/ LoopNext \/ LoopEnd
    \/ HashAdd \/ AddFake \/ HashDel \/ MoveList
    \/ ScanStart \/ ScanRemove \/ ScanNext \/ ScanBucket \/ ScanEnd

Spec == Init /\ [][Next]_vars
==============================================================================
