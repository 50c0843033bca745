----------------------------- MODULE MainExample -----------------------------
(***************************************************************************)
(* The example program of main.c: a client of the array with callbacks of  *)
(* its own, built with the leak detector or without.  It composes its own  *)
(* steps with those of AssocArray: a call of the program starts a call of  *)
(* the array, and the program goes on when that has returned.              *)
(*                                                                         *)
(* The data blocks are the mac_nodes; the key of an entry is the mac in    *)
(* its node.  main.c's fill_entry cannot fail, and its free_entry frees    *)
(* the node with its host name, and the entry.  Every malloc may fail.     *)
(***************************************************************************)
EXTENDS AssocArrayProps, Sequences

CONSTANT CommandLine  \* the argument lists: sequences of arguments

\* An argument is what the conversions of main make of its text: whether it is a
\* prefix of -h or --help, atoi, atof in tenths, and (int)(1.0 / atof).
Argument == [help : BOOLEAN, int : Nat, tenths : Nat, inverse : Nat]

ASSUME ArgumentAssumption ==
    \A line \in CommandLine : \A i \in DOMAIN line : line[i] \in Argument

VARIABLES
    at,         \* where the program is
    argv,       \* the arguments main has not read yet
    config,     \* bits, density in tenths and print divisor
    toAdd, i,   \* entries_to_add and the counter of the loop
    node,       \* the variable node
    live,       \* the nodes that are allocated
    mac,        \* the mac of each node
    leakcheck,  \* built with LEAKCHECK
    failed      \* history: some malloc has failed

local == <<argv, config, toAdd, leakcheck>>
mainVars == <<vars, local, at, i, node, live, mac, failed>>

MainInit ==
    /\ Init
    /\ at = "args" /\ argv \in CommandLine
    /\ config = [bits |-> 18, tenths |-> 5, divisor |-> 2]
    /\ toAdd = 0 /\ i = 0 /\ node = NULL /\ live = {}
    /\ mac = [n \in Data |-> NULL]
    /\ leakcheck \in BOOLEAN /\ failed = FALSE

\* The program is at step s, and no call of the array is on its way; it goes to t.
Ready(s) == at = s /\ pc = "idle"
GoTo(t) == at' = t
Library == UNCHANGED vars

-----------------------------------------------------------------------------
(* main *)

\* One round of the loop: the next three arguments, as far as there are any.  What
\* they look like does not matter: an option letter is a number like any other.
ParseArgs ==
    /\ Ready("args") /\ argv # <<>>
    /\ IF argv[1].help THEN GoTo("usage") /\ UNCHANGED <<argv, config>>
       ELSE /\ config' = [bits    |-> argv[1].int,
                          tenths  |-> IF Len(argv) > 1 THEN argv[2].tenths ELSE config.tenths,
                          divisor |-> IF Len(argv) > 2 THEN argv[3].inverse ELSE config.divisor]
            /\ argv' = SubSeq(argv, 4, Len(argv))
            /\ UNCHANGED at
    /\ Library /\ UNCHANGED <<toAdd, i, node, live, mac, leakcheck, failed>>

\* The beginning of run_example_code.
Configure ==
    /\ Ready("args") /\ argv = <<>>
    /\ toAdd' = (2^config.bits * config.tenths) \div 10
    /\ GoTo("create")
    /\ Library /\ UNCHANGED <<argv, config, i, node, live, mac, leakcheck, failed>>

-----------------------------------------------------------------------------
(* run_example_code *)

CreateArray ==
    /\ Ready("create") /\ Create /\ GoTo("loop")
    /\ UNCHANGED <<local, i, node, live, mac, failed>>

\* malloc of a node, generate_mac, generate_ipv4 and generate_hostname.
NewNode(n) ==
    /\ n \in Data \ live
    /\ node' = n /\ live' = live \cup {n}
    /\ \E q \in Key : mac' = [mac EXCEPT ![n] = q]

LoopNode ==
    /\ Ready("loop") /\ i < toAdd
    /\ \/ i' = i + 1 /\ failed' = TRUE /\ UNCHANGED <<at, node, live, mac>>
       \/ (\E n \in Data : NewNode(n)) /\ GoTo("add") /\ UNCHANGED <<i, failed>>
    /\ Library /\ UNCHANGED local

\* array_add_replace(arr, node, node->mac, ETH_ALEN), on NULL too.
AddNode(s, t) ==
    /\ Ready(s)
    /\ \/ Search /\ op' = "replace" /\ k' = mac[node] /\ d' = node
       \/ CallOnNull /\ op' = "replace"
    /\ GoTo(t)
    /\ UNCHANGED <<local, i, node, live, mac, failed>>

LoopAdd == AddNode("add", "added")

\* i % print_divisor, and the next round: the result of the call is dropped.
LoopPrint ==
    /\ Ready("added")
    /\ failed' = (failed \/ ret = -1)
    /\ IF config.divisor = 0 THEN GoTo("crashed") /\ UNCHANGED i
       ELSE GoTo("loop") /\ i' = i + 1
    /\ Library /\ UNCHANGED <<local, node, live, mac>>

\* array_get_last, whose result is used before it is looked at.
GetLast ==
    /\ Ready("loop") /\ ~(i < toAdd)
    /\ (GetEnd \/ CallOnNull) /\ op' = "get_last"
    /\ IF ret' = NULL THEN GoTo("crashed") /\ UNCHANGED node
       ELSE GoTo("print_last") /\ node' = data[ret']
    /\ UNCHANGED <<local, i, live, mac, failed>>

DelFirst ==
    /\ Ready("print_last")
    /\ DelEnd /\ op' = "del_first"
    /\ GoTo("new_node")
    /\ UNCHANGED <<local, i, node, live, mac, failed>>

\* A malloc whose result is not looked at.
LastNode ==
    /\ Ready("new_node")
    /\ \/ GoTo("crashed") /\ failed' = TRUE /\ UNCHANGED <<node, live, mac>>
       \/ (\E n \in Data : NewNode(n)) /\ GoTo("add_last") /\ UNCHANGED failed
    /\ Library /\ UNCHANGED <<local, i>>

AddLast == AddNode("add_last", "get_last")

\* array_get_by_key(arr, node->mac, ETH_ALEN)
GetByKey ==
    /\ Ready("get_last")
    /\ failed' = (failed \/ ret = -1)
    /\ Search /\ op' = "get" /\ k' = mac[node]
    /\ GoTo("print_got")
    /\ UNCHANGED <<local, i, node, live, mac>>

\* The node of the entry that was got, if any, is printed; array_get_first.
GetFirst ==
    /\ Ready("print_got")
    /\ node' = IF ret = NULL THEN node ELSE data[ret]
    /\ GetEnd /\ op' = "get_first"
    /\ GoTo("print_first")
    /\ UNCHANGED <<local, i, live, mac, failed>>

FreeTheArray ==
    /\ Ready("print_first")
    /\ node' = IF ret = NULL THEN node ELSE data[ret]
    /\ Free
    /\ GoTo("report")
    /\ UNCHANGED <<local, i, live, mac, failed>>

\* report_mem_leak, which frees a static object when a node is left: the nodes are
\* what main.c allocates through the detector.  Then diff_timespec.
Report ==
    /\ Ready("report")
    /\ IF leakcheck /\ live # {} THEN GoTo("crashed") ELSE GoTo("time")
    /\ Library /\ UNCHANGED <<local, i, node, live, mac, failed>>

\* A clock that went backwards, or a result in memory; it is not looked at whether
\* there was any.
DiffTimespec ==
    /\ Ready("time")
    /\ \/ GoTo("done") /\ UNCHANGED failed
       \/ GoTo("crashed") /\ failed' = TRUE
    /\ Library /\ UNCHANGED <<local, i, node, live, mac>>

\* Mutants of freed_by: main.c's free_entry leaves the node to its owner, or frees
\* the node of the loop and not that of the entry.
freed_nothing == {}
freed_current == IF held \subseteq held' THEN {} ELSE {node}

\* The nodes that main.c's free_entry frees in a step of the array.
freed_by == held \ held'

\* A step of the array, with main.c's callbacks.
ArrayStep ==
    /\ Step
    /\ pc = "fill_entry" => pc' = "link"
    /\ live' = live \ freed_by
    /\ UNCHANGED <<local, at, i, node, mac>>
    /\ failed' = (failed \/ (pc # "idle" /\ pc' = "idle" /\ arr' = NULL /\ op = "create"))

MainNext ==
    \/ ParseArgs \/ Configure \/ CreateArray \/ LoopNode \/ LoopAdd \/ LoopPrint
    \/ GetLast \/ DelFirst \/ LastNode \/ AddLast \/ GetByKey \/ GetFirst
    \/ FreeTheArray \/ Report \/ DiffTimespec \/ ArrayStep

MainSpec == MainInit /\ [][MainNext]_mainVars

-----------------------------------------------------------------------------
(* What the example relies on. *)

\* The keys of the entries live inside the nodes: an entry in a structure, or on
\* its way in or out, has a node that is allocated and whose mac is still the key
\* the entry was put in a bucket for; and no two entries share a node.  The node
\* the program is about to print is allocated at every print.
KeysLiveInNodes ==
    /\ \A e \in Filled : data[e] \in live /\ key[e] = mac[data[e]]
    /\ DataHeldOnce
    /\ at \in {"add", "added", "print_last", "add_last", "get_last"} /\ (at = "print_last" => pc = "idle")
          => node \in live
    /\ at \in {"print_got", "print_first"} /\ pc = "idle" /\ ret # NULL
          => ret \in alive /\ data[ret] \in live

\* When no allocation fails, the table has room for one entry and the divisor is
\* not 0, the program does not crash, whatever macs are drawn and however often
\* they repeat; and when it reports, every node, every entry and the array are
\* freed, so that the detector has nothing to report.  After failures, what is left
\* at the end are nodes whose addition failed, and with the leak detector a program
\* with such a node does not get to its end.
CleanWithoutFailures ==
    /\ ~failed /\ toAdd > 0 /\ config.divisor > 0 => at # "crashed"
    /\ at \in {"time", "done"} /\ ~failed => live = {}
    /\ at = "done" => mem = {} /\ blocks = {} /\ held = {} /\ (leakcheck => live = {})
==============================================================================
