--------------------------- MODULE ListMachineProps ---------------------------
(***************************************************************************)
(* What list.h promises the program of ListMachine.                        *)
(***************************************************************************)
EXTENDS ListMachine

N == Cardinality(Node)

\* Every ring operation of list.h does to the pointers what it does to the
\* sequence: between calls each ring is met forwards and backwards as its
\* sequence, from the head, from an entry and behind an entry, and the queries
\* tell the truth of it.
RingsHoldTheirSequences ==
    deleting = NULL => \A h \in RingHead :
        LET q == seq[h] IN
        /\ k_list_walk(ring.next, h, N) = q /\ k_list_walk(ring.prev, h, N) = Reverse(q)
        /\ \A i \in DOMAIN q :
              /\ k_list_from(ring.next, q[i], h, N) = SubSeq(q, i, Len(q))
              /\ k_list_continue(ring.prev, q[i], h, N) = Reverse(SubSeq(q, 1, i - 1))
              /\ k_list_is_last(ring, q[i], h) <=> i = Len(q)
        /\ k_list_empty(ring, h) <=> q = <<>>
        /\ k_list_is_singular(ring, h) <=> Len(q) = 1
        /\ k_list_first_or_null(ring, h) = IF q = <<>> THEN NULL ELSE Head(q)
        /\ k_list_last_or_null(ring, h) = IF q = <<>> THEN NULL ELSE Last(q)

\* A loop of the _safe kind whose body removes entries, its own or, with a
\* k_list_safe_reset_next, the next one, meets every entry that was on its way and
\* was not removed before its turn, once and in order, and ends at the head: its
\* two cursors are the next two entries it owes the program.
SafeLoopMeetsTheRest ==
    /\ loop # NULL =>
          LET rest == Append(loop.due, loop.head) IN
          loop.pos = rest[1] /\ (loop.pos # loop.head => loop.n = rest[2])
    /\ scan # NULL =>
          LET rest == scan.due[scan.bkt] \o <<NULL, NULL>>
          IN  /\ scan.obj = rest[1] /\ (scan.obj # NULL => scan.tmp = rest[2])
              /\ \A b \in Bucket : b < scan.bkt => scan.due[b] = <<>>

\* When k_list_empty_careful says yes of an entry while another thread may be in
\* k_list_del_init, the deletion is over: the entry is on no ring and no store to
\* it is left, so that its owner may free it.
CarefulMeansDone ==
    SaidEmpty => /\ look.entry \notin Listed
                 /\ deleting # NULL => deleting.entry # look.entry

\* Every hlist operation does to the table what it does to the sequences: each
\* chain is its sequence, each pprev is the slot that points at its node, and
\* hash_hashed, hash_empty and hlist_fake tell the truth of every node that was
\* not poisoned by hlist_del.
ChainsHoldTheirSequences ==
    /\ \A b \in Bucket :
          LET slots == <<b>> \o chainSeq[b] IN
          /\ \A i \in DOMAIN chainSeq[b] :
                chain.link[slots[i]] = slots[i + 1] /\ chain.pprev[slots[i + 1]] = slots[i]
          /\ chain.link[Last(slots)] = NULL
    /\ hash_empty(chain, Bucket) <=> InTable = {}
    /\ \A e \in Node : chain.pprev[e] # LIST_POISON2 =>
          (hash_hashed(chain, e) <=> e \in InTable \cup Fakes)
    /\ Fakes \cap InTable = {}
==============================================================================
