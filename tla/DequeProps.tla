----------------------------- MODULE DequeProps ------------------------------
(***************************************************************************)
(* What deque.c keeps true, and that it implements DequeSpec.              *)
(***************************************************************************)
EXTENDS Deque, SequencesExt

Forward  == k_list_walk(list.next, ListHead, Cardinality(Entry))
Backward == k_list_walk(list.prev, ListHead, Cardinality(Entry))

\* The deque is there, and no call has gone wrong.
Sound == deq # NULL /\ pc = "idle"

\* A walk by prev meets the entries a walk by next meets, the other way round,
\* each once, whatever mixture of the two ends the calls were for.
RingBothWays ==
    Sound => Backward = Reverse(Forward) /\ IsInjective(Forward)

\* deq->size is the number of entries in the ring, so that deq_isempty, which
\* reads the counter, guards the ring, and no caller is handed the list head.
SizeExact == (Sound => size = Len(Forward)) /\ pc # "astray"

\* What is allocated is what the ring holds plus what the caller has popped, no
\* entry is both, and the walk of deq_free steps on allocated entries only and
\* leaves the popped ones to the caller.
HeapExact ==
    /\ Sound => mem = Range(Forward) \cup out /\ Range(Forward) \cap out = {}
    /\ deq = NULL => mem = out
    /\ pc = "free" /\ cur # ListHead =>
          cur \in mem \ out /\ tmp \in (mem \ out) \cup {ListHead}

Item(e) == [id |-> e, data |-> data[e]]

Abs == INSTANCE DequeSpec WITH
    exists <- deq # NULL /\ pc # "free",
    items  <- IF deq = NULL \/ pc = "free" THEN <<>>
              ELSE [i \in DOMAIN Forward |-> Item(Forward[i])],
    ret    <- IF ret = NULL THEN NULL ELSE Item(ret)

\* Every call but a push that malloc fails does what the abstract deque does, at
\* the end of the sequence it was called for; a failed push never returns.
ImplementsDequeSpec == Abs!Init /\ [][pc' = "crashed" \/ Abs!Next]_(Abs!vars)

-----------------------------------------------------------------------------
\* A deque with two entries has size 2: what test_deque.c:21 asserts of a new
\* deque after two pushes.
TwoPushedSizeTwo == Sound /\ Len(Forward) = 2 => size = 2
==============================================================================
