---------------------------- MODULE LeakDetector -----------------------------
(***************************************************************************)
(* The leak detector of leak_detector_c.c: with LEAKCHECK, main.c's calls  *)
(* of malloc, calloc, realloc and free are the functions here.  They call  *)
(* libc and keep a ring with one node per block, which report_mem_leak     *)
(* writes to a file when the program ends.  The ring is one of the file's  *)
(* own, of the same shape as list.h's.                                     *)
(*                                                                         *)
(* A call is one step: nothing is concurrent and nothing calls back.  Only *)
(* the loop of the report takes a step per line it writes.  "crashed" is   *)
(* where the program has used a NULL pointer or freed a static object.     *)
(***************************************************************************)
EXTENDS KListWalk, FiniteSets, SequencesExt

CONSTANTS
    StaticHead, \* the address of the static _head
    Node,       \* the addresses malloc can return for a MEMLEAK
    Block       \* the addresses libc can return for a block of the program

ASSUME DetectorAssumption ==
    /\ StaticHead \notin Node /\ NULL \notin Node \cup {StaticHead}
    /\ NULL \notin Block /\ IsFiniteSet(Node)

VARIABLES
    live,      \* the blocks the program has from libc and has not given back
    flag,      \* memleak_flag: head has been initialised
    list,      \* the ring; the static head starts as two NULL pointers
    nodes,     \* the nodes that are allocated
    addr,      \* mem_info.address of each node
    reported,  \* the addresses report_mem_leak has written
    cur, pc,
    tracked,   \* history: what add_mem_info was told and remove_mem_info was not
    untracked  \* history: the live blocks that no call tracks

vars == <<live, flag, list, nodes, addr, reported, cur, pc, tracked, untracked>>

Init ==
    /\ live = {} /\ flag = FALSE /\ nodes = {}
    /\ list = [next |-> [x \in Node \cup {StaticHead} |-> NULL],
               prev |-> [x \in Node \cup {StaticHead} |-> NULL]]
    /\ addr = [n \in Node |-> NULL]
    /\ reported = <<>> /\ cur = NULL /\ pc = "idle"
    /\ tracked = <<>> /\ untracked = {}

ring    == <<flag, list, nodes, addr>>
history == <<tracked, untracked>>

Crash == pc' = "crashed" /\ UNCHANGED <<live, ring, history>>

-----------------------------------------------------------------------------
(* The ring *)

\* A mutant of memleak_add_list_tail: ht_list_add, which nothing calls.
ht_list_add(l, new) == list_add_between(l, new, StaticHead, l.next[StaticHead])

memleak_add_list_tail(l, new) == list_add_between(l, new, l.prev[StaticHead], StaticHead)

\* Unlink and free: the fields of a freed node are gone.
del_memleak_list(l, entry) ==
    LET m == list_del_between(l, l.prev[entry], l.next[entry])
    IN  [next |-> [m.next EXCEPT ![entry] = NULL],
         prev |-> [m.prev EXCEPT ![entry] = NULL]]

\* Mutants of initialised: the head is never initialised, and it is at each add.
never_initialised(l) == l
always_initialised(l) == K_INIT_LIST_HEAD(l, StaticHead)

\* The first add finds the head zeroed.
initialised(l) == IF flag THEN l ELSE K_INIT_LIST_HEAD(l, StaticHead)

\* add, which add_mem_info(p) calls, on a tracker with ring l, nodes N and
\* addresses a.  The result of malloc is not looked at.
add(l, N, a, p) ==
    \/ pc' = "crashed" /\ UNCHANGED ring
    \/ \E n \in Node \ N :
          /\ nodes' = N \cup {n}
          /\ addr' = [a EXCEPT ![n] = p]
          /\ list' = memleak_add_list_tail(initialised(l), n)
          /\ flag' = TRUE
          /\ UNCHANGED pc

Nodes == k_list_walk(list.next, StaticHead, Cardinality(Node))

\* The nodes remove_mem_info(p) deletes: the first one of the address, if any.
Match(p) ==
    LET S == {i \in DOMAIN Nodes : addr[Nodes[i]] = p}
    IN  IF S = {} THEN {} ELSE {Nodes[Min(S)]}

\* The ring and the addresses that remove_mem_info(p) leaves.
RingWithout(p) ==
    IF Match(p) = {} THEN list ELSE del_memleak_list(list, CHOOSE n \in Match(p) : TRUE)

AddrWithout(p) == [n \in Node |-> IF n \in Match(p) THEN NULL ELSE addr[n]]

-----------------------------------------------------------------------------
(* The replacements of libc's functions *)

\* xmalloc and xcalloc differ in the size they record.
xmalloc ==
    /\ pc = "idle"
    /\ \/ UNCHANGED <<live, ring, tracked, pc>>
       \/ \E b \in Block \ live :
             /\ live' = live \cup {b}
             /\ tracked' = Append(tracked, b)
             /\ add(list, nodes, addr, b)
    /\ UNCHANGED <<reported, cur, untracked>>

\* Blocks the program gets from code that is not compiled with the detector:
\* strdup, and the entries of the array, which main.c's free_entry frees.
Untracked ==
    /\ pc = "idle"
    /\ \E b \in Block \ live : live' = live \cup {b} /\ untracked' = untracked \cup {b}
    /\ UNCHANGED <<ring, reported, cur, pc, tracked>>

\* A mutant of xrealloc: the old block stays in the ring.
ReallocKeepsOld ==
    /\ pc = "idle"
    /\ \E p \in live, b \in Block :
          /\ b \notin live \ {p}
          /\ live' = (live \ {p}) \cup {b}
          /\ untracked' = untracked \ {p}
          /\ tracked' = Append(RemoveFirst(tracked, p), b)
          /\ add(list, nodes, addr, b)
    /\ UNCHANGED <<reported, cur>>

\* remove_mem_info, realloc, add_mem_info.  Before the first add the walk of
\* remove_mem_info follows the head's NULL.  realloc moves the block, or fails
\* and leaves it, or, when the size is 0, frees it; whatever it returns is added,
\* NULL too.
xrealloc ==
    /\ pc = "idle"
    /\ \E p \in live \cup {NULL} :
          \/ ~flag /\ Crash
          \/ /\ flag
             /\ \E b \in Block \cup {NULL}, moved \in BOOLEAN :
                   /\ b \notin live \ {p}
                   /\ b # NULL => moved
                   /\ moved /\ b = NULL => p # NULL
                   /\ live' = IF moved THEN (live \ {p}) \cup ({b} \ {NULL}) ELSE live
                   /\ untracked' = IF moved \/ p = NULL THEN untracked \ {p}
                                   ELSE untracked \cup {p}
                   /\ tracked' = Append(RemoveFirst(tracked, p), b)
                   /\ add(RingWithout(p), nodes \ Match(p), AddrWithout(p), b)
    /\ UNCHANGED <<reported, cur>>

xfree ==
    /\ pc = "idle"
    /\ \E p \in live \cup {NULL} :
          \/ ~flag /\ Crash
          \/ /\ flag
             /\ list' = RingWithout(p)
             /\ nodes' = nodes \ Match(p)
             /\ addr' = AddrWithout(p)
             /\ live' = live \ {p}
             /\ tracked' = RemoveFirst(tracked, p)
             /\ untracked' = untracked \ {p}
             /\ UNCHANGED <<flag, pc>>
    /\ UNCHANGED <<reported, cur>>

-----------------------------------------------------------------------------
(* report_mem_leak *)

\* fopen; the file that cannot be opened is skipped.
Report ==
    /\ pc = "idle"
    /\ reported' = <<>>
    /\ \/ pc' = "not_opened" /\ cur' = NULL
       \/ pc' = "report" /\ cur' = list.next[StaticHead]
    /\ UNCHANGED <<live, ring, history>>

\* while (curr->next != head), and curr NULL when nothing was ever added.
ReportEntry ==
    /\ pc = "report"
    /\ \/ /\ cur = NULL
          /\ pc' = "crashed"
          /\ UNCHANGED <<reported, cur>>
       \/ /\ cur # NULL
          /\ list.next[cur] # StaticHead
          /\ reported' = Append(reported, addr[cur])
          /\ cur' = list.next[cur]
          /\ UNCHANGED pc
    /\ UNCHANGED <<live, ring, history>>

\* fclose
ReportEnd ==
    /\ pc = "report"
    /\ cur # NULL
    /\ list.next[cur] = StaticHead
    /\ pc' = "closed"
    /\ cur' = NULL
    /\ UNCHANGED <<live, ring, reported, history>>

\* The first node clear() frees is the static head, unless the ring is empty.
clear ==
    /\ pc \in {"not_opened", "closed"}
    /\ pc' = IF list.next[StaticHead] = StaticHead THEN "idle" ELSE "crashed"
    /\ UNCHANGED <<live, ring, reported, cur, history>>

-----------------------------------------------------------------------------
Next ==
    \/ xmalloc \/ xrealloc \/ xfree \/ Untracked
    \/ Report \/ ReportEntry \/ ReportEnd \/ clear

Spec == Init /\ [][Next]_vars
==============================================================================
