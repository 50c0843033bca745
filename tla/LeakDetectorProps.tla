-------------------------- MODULE LeakDetectorProps --------------------------
(***************************************************************************)
(* What the leak detector knows, and what its report says.                 *)
(***************************************************************************)
EXTENDS LeakDetector

Backward == k_list_walk(list.prev, StaticHead, Cardinality(Node))

\* The addresses in the ring, in the order they were added.
Addresses == [i \in DOMAIN Nodes |-> addr[Nodes[i]]]

\* The ring is one ring through every node that is allocated, both ways round:
\* no node is lost and no freed node is reached.
RingHoldsTheNodes ==
    flag => /\ Backward = Reverse(Nodes)
            /\ IsInjective(Nodes)
            /\ Range(Nodes) = nodes

\* The ring holds what the detector was told and not told again, in that order,
\* and so every block the program has exactly once, and no block that it has
\* given back.  What it was not told of is left aside, and so is what xrealloc
\* loses: it untracks a block before it knows whether realloc takes it, and
\* tracks what realloc returns, NULL too.
TracksWhatIsLive ==
    pc # "crashed" =>
        /\ Addresses = tracked
        /\ Range(tracked) \ {NULL} = live \ untracked
        /\ \A i, j \in DOMAIN tracked : tracked[i] = tracked[j] => i = j \/ tracked[i] = NULL

\* The report lists the blocks in the order of their allocation, except the last.
ReportsAllButTheNewest ==
    pc = "closed" /\ tracked # <<>> => reported = Front(tracked)

-----------------------------------------------------------------------------
\* report_mem_leak writes every block that has not been given back: what the
\* comment at leak_detector_c.c:154 says.  Blocks it was not told of are left aside.
ReportsEveryLeak ==
    pc = "closed" => live \ untracked \subseteq Range(reported)
==============================================================================
