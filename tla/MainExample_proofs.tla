--------------------------- MODULE MainExample_proofs ---------------------------
(***************************************************************************)
(* The example program keeps the rules of the array it uses, whichever     *)
(* allocations fail and whichever macs are drawn: MainInv, together with   *)
(* the invariant of the array.                                             *)
(***************************************************************************)
EXTENDS MainExample, AssocArray_proofs

\* Which call of the array the program waits for at each of its steps, and when
\* the array is gone.
CallsOK ==
    /\ pc # "idle" => \/ at = "loop" /\ op = "create"
                      \/ at \in {"added", "get_last"} /\ op = "replace"
                      \/ at = "new_node" /\ op = "del_first"
                      \/ at = "print_got" /\ op = "get"
                      \/ at = "report" /\ op = "free"
    /\ at = "report" /\ pc = "idle" => arr = NULL
    /\ at \in {"args", "usage", "create", "time", "done"} => arr = NULL

\* The node in node is allocated and not the array's yet: from malloc to the
\* moment fill_entry takes it.
InHand ==
    \/ at \in {"add", "add_last"}
    \/ at \in {"added", "get_last"}
       /\ pc \in {"search", "unlink", "free_entry", "shrink", "malloc_entry", "fill_entry"}

\* The nodes of the entries are allocated and their macs have not changed; and so
\* is the node that is being added, or printed.
NodesOK ==
    /\ live \subseteq Data /\ mac \in [Data -> Key \cup {NULL}]
    /\ \A e \in Filled : data[e] \in live /\ key[e] = mac[data[e]]
    /\ pc # "idle" /\ op = "replace" => d = node /\ k = mac[node]
    /\ InHand => node \notin held
    /\ at \in {"add", "added", "print_last", "add_last", "get_last"} => node \in live
    /\ at \in {"print_got", "print_first"} /\ pc = "idle" /\ ret # NULL => ret \in alive

\* Without a failure every node is the array's or in hand, and from the first
\* addition to the last call there is an array with an entry in it.
BooksOK ==
    /\ ~failed =>
          /\ \/ live = held \cup (IF InHand THEN {node} ELSE {})
             \/ at \in {"added", "get_last"} /\ pc = "idle" /\ ret = -1
             \/ at = "crashed"
          /\ at = "loop" /\ pc = "idle" /\ i # 0 => arr # NULL /\ alive # {}
          /\ at \in {"added", "get_last"} /\ pc = "idle" =>
                ret = -1 \/ (arr # NULL /\ alive # {})
          /\ at = "crashed" => config.divisor = 0 \/ ~(0 < toAdd)
    /\ leakcheck /\ at \in {"time", "done"} => live = {}
    /\ at = "crashed" => pc = "idle"
    /\ at \in {"args", "create"} \/ pc \in {"create_ht", "create_table"} => i = 0

MainInv == CallsOK /\ NodesOK /\ BooksOK

-----------------------------------------------------------------------------
LEMMA MainInitInv == MainInit => IndInv /\ MapInv /\ MainInv
  <1> SUFFICES ASSUME MainInit PROVE IndInv /\ MapInv /\ MainInv
    OBVIOUS
  <1>1. IndInv /\ MapInv
    BY InitIndInv DEF MainInit, Init, MapInv, UniqueKeys, Replacing
  <1>2. CallsOK /\ NodesOK /\ BooksOK
    BY DEF MainInit, Init, CallsOK, NodesOK, BooksOK, InHand, Filled
  <1> QED BY <1>1, <1>2 DEF MainInv

\* The state of the array that the parts of MainInv speak of, when nothing changes it.
LEMMA FilledKept ==
    ASSUME UNCHANGED vars
    PROVE  Filled' = Filled
  BY DEF vars, history, cursor, Filled

\* The steps of the program between calls of the array.
LEMMA ProgramStep ==
    ASSUME IndInv, MainInv,
           \/ ParseArgs \/ Configure \/ LoopNode \/ LoopPrint \/ LastNode
           \/ Report \/ DiffTimespec
    PROVE  MainInv'
  <1> USE DEF MainInv, Ready, GoTo, Library, local
  <1>0. UNCHANGED <<arr, held, alive, pc, op, k, d, ret, data, key>> /\ Filled' = Filled
    BY FilledKept DEF ParseArgs, Configure, LoopNode, LoopPrint, LastNode, Report,
       DiffTimespec, vars, heap, call, history, fields
  <1>1. pc = "idle" /\ Filled = alive
    BY DEF ParseArgs, Configure, LoopNode, LoopPrint, LastNode, Report, DiffTimespec, Filled
  <1>2. held \subseteq live
    BY <1>1 DEF NodesOK, IndInv, DataHeldOnce
  <1>3. CASE ParseArgs \/ Configure
    BY <1>0, <1>1, <1>3 DEF ParseArgs, Configure, CallsOK, NodesOK, BooksOK, InHand
  <1>4. CASE LoopNode \/ LastNode
    <2>1. CallsOK'
      BY <1>0, <1>1, <1>4 DEF LoopNode, LastNode, CallsOK
    <2>2. NodesOK'
      BY <1>0, <1>1, <1>2, <1>4 DEF LoopNode, LastNode, NewNode, NodesOK, InHand
    <2>3. BooksOK'
      BY <1>0, <1>1, <1>2, <1>4 DEF LoopNode, LastNode, NewNode, BooksOK, InHand
    <2> QED BY <2>1, <2>2, <2>3
  <1>5. CASE LoopPrint
    BY <1>0, <1>1, <1>5 DEF LoopPrint, CallsOK, NodesOK, BooksOK, InHand
  <1>6. CASE Report
    <2>1. held = {}
      BY <1>1, <1>6 DEF Report, CallsOK, IndInv, ArrayOK, DataHeldOnce
    <2> QED BY <1>0, <1>1, <1>6, <2>1 DEF Report, CallsOK, NodesOK, BooksOK, InHand
  <1>7. CASE DiffTimespec
    BY <1>0, <1>1, <1>7 DEF DiffTimespec, CallsOK, NodesOK, BooksOK, InHand
  <1> QED BY <1>3, <1>4, <1>5, <1>6, <1>7

\* A getter of an array that holds an entry returns one.
LEMMA EndsFound ==
    ASSUME IndInv, GetEnd
    PROVE  ret' \in alive \cup {NULL} /\ (alive # {} => ret' \in alive)
  <1> USE DEF IndInv
  <1>1. pc = "idle" /\ arr # NULL /\ RingOf(list, alive, older)
        /\ alive \in SUBSET Entry /\ Ordered(alive, older)
    BY DEF GetEnd, Call, RingInOrder, Clearing, TypeOK
  <1>2. alive # {} => ~ListEmpty
    <2>1. size = Cardinality(alive)
      BY <1>1, FS_CardinalityType DEF SizeExact, Clearing, ArrayOK
    <2>2. alive # {} => size # 0
      BY <2>1, FS_EmptySet DEF ArrayOK
    <2>3. alive # {} => ~k_list_empty(list, ListHead)
      BY <1>1 DEF RingOf, After, k_list_empty
    <2> QED BY <2>2, <2>3 DEF ListEmpty
  <1>3. ~ListEmpty => k_list_first(list, ListHead) \in alive /\ k_list_last(list, ListHead) \in alive
    BY <1>1, RingEnds DEF ListEmpty
  <1> QED BY <1>2, <1>3 DEF GetEnd, EndOf, Return

\* The calls of the program.
LEMMA CallsStep ==
    ASSUME IndInv, MainInv,
           \/ CreateArray \/ LoopAdd \/ AddLast \/ GetLast \/ DelFirst
           \/ GetByKey \/ GetFirst \/ FreeTheArray
    PROVE  MainInv'
  <1> USE DEF MainInv, Ready, GoTo, local, Call, Return, Goto, heap, fields, links, history, cursor
  <1>0. NULL \notin alive /\ pc = "idle" /\ held \subseteq live /\ Filled = alive
    <2>1. pc = "idle" /\ Filled = alive
      BY DEF CreateArray, LoopAdd, AddLast, AddNode, GetLast, DelFirst, GetByKey, GetFirst,
             FreeTheArray, Filled
    <2>2. NULL \notin alive
      BY Addresses DEF IndInv, TypeOK
    <2> QED BY <2>1, <2>2 DEF NodesOK, IndInv, DataHeldOnce
  <1>1. CASE CreateArray
    BY <1>0, <1>1 DEF CreateArray, Create, CallsOK, NodesOK, BooksOK, InHand, Filled
  <1>2. CASE LoopAdd \/ AddLast
    <2>1. /\ at \in {"add", "add_last"} /\ at' \in {"added", "get_last"}
          /\ UNCHANGED <<node, live, mac, failed, toAdd, config, leakcheck, held, alive, key, data, arr>>
          /\ op' = "replace"
          /\ \/ pc' = "search" /\ k' = mac[node] /\ d' = node
             \/ pc' = "idle" /\ arr = NULL /\ ret' = -1
      BY <1>2 DEF LoopAdd, AddLast, AddNode, Search, CallOnNull
    <2>2. Filled' = alive
      BY <2>1 DEF Filled
    <2> QED BY <1>0, <2>1, <2>2 DEF CallsOK, NodesOK, BooksOK, InHand
  <1>3. CASE GetLast
    <2>1. /\ pc' = "idle" /\ ret' \in alive \cup {NULL}
          /\ arr # NULL /\ alive # {} => ret' \in alive
      BY <1>3, EndsFound DEF GetLast, GetEnd, CallOnNull
    <2>2. UNCHANGED <<arr, held, alive, key, data>>
      BY <1>3 DEF GetLast, GetEnd, CallOnNull
    <2>3. Filled' = alive
      BY <2>1, <2>2 DEF Filled
    <2> QED BY <1>0, <1>3, <2>1, <2>2, <2>3 DEF GetLast, CallsOK, NodesOK, BooksOK, InHand
  <1>4. CASE DelFirst
    <2>1. pc' \in {"idle", "unlink"} /\ UNCHANGED <<arr, held, alive, key, data>>
      BY <1>4 DEF DelFirst, DelEnd
    <2>2. Filled' = alive
      BY <2>1 DEF Filled
    <2> QED BY <1>0, <1>4, <2>1, <2>2 DEF DelFirst, CallsOK, NodesOK, BooksOK, InHand
  <1>5. CASE GetByKey
    <2>1. pc' = "search" /\ UNCHANGED <<arr, held, alive, key, data>>
      BY <1>5 DEF GetByKey, Search
    <2>2. Filled' = alive
      BY <2>1 DEF Filled
    <2> QED BY <1>0, <1>5, <2>1, <2>2 DEF GetByKey, CallsOK, NodesOK, BooksOK, InHand
  <1>6. CASE GetFirst
    <2>1. pc' = "idle" /\ ret' \in alive \cup {NULL} /\ UNCHANGED <<arr, held, alive, key, data>>
      BY <1>6, EndsFound DEF GetFirst, GetEnd
    <2>2. Filled' = alive
      BY <2>1, <2>1 DEF Filled
    <2> QED BY <1>0, <1>6, <2>1, <2>2 DEF GetFirst, CallsOK, NodesOK, BooksOK, InHand
  <1>7. CASE FreeTheArray
    <2>1. pc' = "clear" /\ op' = "free" /\ UNCHANGED <<arr, held, alive, key, data>>
      BY <1>7 DEF FreeTheArray, Free
    <2>2. Filled' = alive
      BY <2>1 DEF Filled
    <2> QED BY <1>0, <1>7, <2>1, <2>2 DEF FreeTheArray, CallsOK, NodesOK, BooksOK, InHand
  <1> QED BY <1>1, <1>2, <1>3, <1>4, <1>5, <1>6, <1>7

\* The steps of the array, with main.c's callbacks.
LEMMA LibraryStep ==
    ASSUME IndInv, MainInv, ArrayStep
    PROVE  MainInv'
  <1> USE DEF MainInv, Return, Goto, heap, fields, links, call, history, cursor, local
  <1>0. /\ pc # "idle" /\ UNCHANGED <<at, i, node, mac, argv, config, toAdd, leakcheck, op, k, d>>
        /\ live' = live \ (held \ held')
        /\ failed' = (failed \/ (pc' = "idle" /\ arr' = NULL /\ op = "create"))
    BY DEF ArrayStep, freed_by, Step, CreateHt, CreateTable, SearchEnd, SearchHit, SearchNext,
           Unlink, FreeEntry, Shrink, MallocEntry, FillEntry, LinkEntry, ClearUnlink,
           ClearEntry, ClearBucket, FreeArray
  <1>00. /\ held = {data[e] : e \in Filled} /\ \A x, y \in Filled : data[x] = data[y] => x = y
         /\ held \subseteq live
    BY DEF NodesOK, IndInv, DataHeldOnce
  <1>1. CASE CreateHt \/ CreateTable
    <2>1. /\ op = "create" /\ pc \in {"create_ht", "create_table"} /\ alive = {}
          /\ pc' # "idle" => pc' = "create_table"
          /\ pc' = "idle" => arr' = NULL \/ arr' = Array
          /\ UNCHANGED <<held, alive, data, key>>
          /\ Filled = alive /\ Filled' = alive
      BY <1>1 DEF CreateHt, CreateTable, EmptyArray, Filled, IndInv, CallOK, ArrayOK
    <2>2. at = "loop"
      BY <1>0, <2>1 DEF CallsOK
    <2>3. i = 0
      BY <1>0, <2>1 DEF BooksOK
    <2> QED BY <1>0, <1>00, <2>1, <2>2, <2>3 DEF CallsOK, NodesOK, BooksOK, InHand
  <1>2. CASE SearchEnd \/ SearchHit \/ SearchNext
    <2>1. /\ op \in {"get", "del", "replace"} /\ pc = "search" /\ arr # NULL
          /\ UNCHANGED <<arr, held, alive, data, key>>
          /\ pc' = "idle" => op \in {"get", "del"} /\ ret' \in alive \cup {NULL, 1}
          /\ pc' \in {"idle", "search", "unlink", "malloc_entry"}
          /\ op = "get" => pc' \in {"idle", "search"} /\ (pc' = "idle" => ret' \in alive \cup {NULL})
      BY <1>2 DEF SearchEnd, SearchHit, SearchNext, IndInv, CallOK, ArrayOK, HeapExact
    <2>2. Filled = alive /\ Filled' = alive
      BY <2>1 DEF Filled
    <2> QED BY <1>0, <1>00, <2>1, <2>2 DEF CallsOK, NodesOK, BooksOK, InHand
  <1>3. CASE Unlink
    <2>1. /\ op \in {"del", "replace", "del_first", "del_last"}
          /\ pc = "unlink" /\ pc' = "free_entry" /\ cur' = cur
          /\ cur \in alive /\ alive' = alive \ {cur}
          /\ UNCHANGED <<arr, held, data, key>>
      BY <1>3 DEF Unlink, Forget, IndInv, CallOK, HeapExact
    <2>2. Filled = alive /\ Filled' = alive
      BY <2>1 DEF Filled
    <2> QED BY <1>0, <1>00, <2>1, <2>2 DEF CallsOK, NodesOK, BooksOK, InHand
  <1>4. CASE FreeEntry \/ ClearEntry
    <2>1. /\ cur \in Entry /\ cur \notin alive
          /\ held' = {data'[e] : e \in alive}
          /\ \A e \in alive : key'[e] = key[e] /\ data'[e] = data[e]
      <3>1. pc \in {"free_entry", "clear_entry"} /\ free_assoc_array_entry(cur)
            /\ UNCHANGED history
        BY <1>4 DEF FreeEntry, ClearEntry
      <3> QED BY <3>1, Freed
    <2>2. /\ Filled = alive \cup {cur} /\ Filled' = alive /\ UNCHANGED <<arr, alive>>
          /\ held' = held \ {data[cur]} /\ data[cur] \in held
          /\ \/ pc = "free_entry" /\ pc' = "shrink" /\ op \in {"del", "replace", "del_first", "del_last"}
             \/ pc = "clear_entry" /\ pc' = "clear" /\ op = "free"
      BY <1>4, <1>00 DEF FreeEntry, ClearEntry, Filled, free_assoc_array_entry, IndInv, CallOK, Clearing
    <2>3. live' = live \ {data[cur]} /\ (data[cur] # node \/ ~InHand)
      BY <1>0, <2>2 DEF NodesOK
    <2>4. \A e \in alive : data[e] # data[cur]
      BY <1>00, <2>1, <2>2
    <2>5. InHand' = InHand
      BY <1>0, <2>2 DEF InHand, CallsOK
    <2>6. NodesOK'
      BY <1>0, <2>1, <2>2, <2>3, <2>4, <2>5 DEF NodesOK, CallsOK, InHand
    <2>7. BooksOK'
      BY <1>0, <2>2, <2>3, <2>5 DEF BooksOK, CallsOK, NodesOK
    <2> QED BY <1>0, <2>2, <2>6, <2>7 DEF CallsOK
  <1>5. CASE Shrink
    <2>1. /\ op \in {"del", "replace", "del_first", "del_last"}
          /\ pc = "shrink" /\ pc' \in {"idle", "malloc_entry"}
          /\ op = "replace" => pc' = "malloc_entry"
          /\ UNCHANGED <<arr, held, alive, data, key>>
      BY <1>5 DEF Shrink, IndInv, CallOK
    <2>2. Filled = alive /\ Filled' = alive
      BY <2>1 DEF Filled
    <2> QED BY <1>0, <1>00, <2>1, <2>2 DEF CallsOK, NodesOK, BooksOK, InHand
  <1>6. CASE MallocEntry
    <2>1. /\ op = "replace" /\ pc = "malloc_entry"
          /\ pc' = "fill_entry" \/ (pc' = "idle" /\ ret' = -1)
          /\ UNCHANGED <<arr, held, alive, data, key>>
      BY <1>0, <1>6 DEF MallocEntry, IndInv, CallOK, CallsOK
    <2>2. Filled = alive /\ Filled' = alive
      BY <2>1 DEF Filled
    <2>3. ret' = -1 => ret' # NULL \/ pc' # "idle" \/ at \notin {"print_got", "print_first"}
      BY <1>0, <2>1 DEF CallsOK
    <2> QED BY <1>0, <1>00, <2>1, <2>2, <2>3 DEF CallsOK, NodesOK, BooksOK, InHand
  <1>7. CASE FillEntry
    <2>1. /\ op = "replace" /\ pc = "fill_entry" /\ pc' = "link" /\ cur' = cur
          /\ cur \in Entry /\ cur \notin alive
          /\ key' = [key EXCEPT ![cur] = k] /\ data' = [data EXCEPT ![cur] = d]
          /\ held' = held \cup {d} /\ UNCHANGED <<arr, alive>>
          /\ d = node /\ k = mac[node]
      BY <1>0, <1>7
         DEF FillEntry, fill_assoc_array_entry, ArrayStep, IndInv, CallOK, CallsOK, HeapExact,
             InFlight, TypeOK, NodesOK
    <2>2. Filled = alive /\ Filled' = alive \cup {cur} /\ InHand /\ node \in live
      BY <1>0, <2>1 DEF Filled, CallsOK, InHand, NodesOK
    <2>3. /\ data'[cur] = node /\ key'[cur] = mac[node]
          /\ \A e \in alive : data'[e] = data[e] /\ key'[e] = key[e]
      BY <2>1 DEF IndInv, TypeOK
    <2>4. /\ live' = live /\ held' = held \cup {node} /\ (~failed' => ~failed)
          /\ ~InHand' /\ at \in {"added", "get_last"}
      <3>1. held \ held' = {}
        BY <2>1
      <3>2. live' = live
        BY <1>0, <3>1
      <3> QED BY <1>0, <2>1, <3>2 DEF CallsOK, InHand
    <2>5. CallsOK'
      BY <1>0, <2>1 DEF CallsOK
    <2>6. NodesOK'
      BY <1>0, <2>1, <2>2, <2>3, <2>4 DEF NodesOK
    <2>7. BooksOK'
      BY <1>0, <2>1, <2>2, <2>4 DEF BooksOK
    <2> QED BY <2>5, <2>6, <2>7
  <1>8. CASE LinkEntry
    <2>1. /\ op = "replace" /\ pc = "link" /\ pc' = "idle" /\ ret' = 0 /\ arr # NULL
          /\ alive' = alive \cup {cur} /\ UNCHANGED <<arr, held, data, key>>
      BY <1>0, <1>8 DEF LinkEntry, IndInv, CallOK, ArrayOK, CallsOK
    <2>2. Filled = alive \cup {cur} /\ Filled' = alive \cup {cur}
      BY <2>1 DEF Filled
    <2> QED BY <1>0, <1>00, <2>1, <2>2 DEF CallsOK, NodesOK, BooksOK, InHand
  <1>9. CASE ClearUnlink \/ ClearBucket
    <2>1. /\ op = "free" /\ pc = "clear" /\ pc' \in {"clear", "clear_entry"}
          /\ UNCHANGED <<arr, held, data, key>>
          /\ Filled' \subseteq Filled
      BY <1>9 DEF ClearUnlink, ClearBucket, Forget, IndInv, CallOK, Clearing, Filled, HeapExact
    <2> QED BY <1>0, <1>00, <2>1 DEF CallsOK, NodesOK, BooksOK, InHand
  <1>10. CASE FreeArray
    <2>1. /\ op = "free" /\ pc = "clear" /\ pc' = "idle" /\ arr' = NULL
          /\ UNCHANGED <<held, data, key, alive>>
      BY <1>10 DEF FreeArray, IndInv, CallOK, Clearing
    <2>2. Filled = alive /\ Filled' = alive
      BY <2>1 DEF Filled
    <2> QED BY <1>0, <1>00, <2>1, <2>2 DEF CallsOK, NodesOK, BooksOK, InHand
  <1> QED BY <1>1, <1>2, <1>3, <1>4, <1>5, <1>6, <1>7, <1>8, <1>9, <1>10 DEF ArrayStep, Step

\* Every step of the program is a step of the array or leaves it alone, and the
\* program never calls array_add.
LEMMA MainStepsTheArray == [MainNext]_mainVars => [Next]_vars /\ (op # "add" => op' # "add")
  <1> USE DEF Call, call
  <1>1. CASE ParseArgs \/ Configure \/ LoopNode \/ LoopPrint \/ LastNode \/ Report \/ DiffTimespec
    BY <1>1 DEF ParseArgs, Configure, LoopNode, LoopPrint, LastNode, Report, DiffTimespec, Library, vars
  <1>2. CASE CreateArray \/ LoopAdd \/ AddLast \/ GetLast \/ DelFirst \/ GetByKey \/ GetFirst \/ FreeTheArray
    <2>1. Calls
      BY <1>2 DEF CreateArray, LoopAdd, AddLast, AddNode, GetLast, DelFirst, GetByKey, GetFirst,
         FreeTheArray, Calls
    <2>2. op' # "add"
      BY <1>2 DEF CreateArray, LoopAdd, AddLast, AddNode, GetLast, DelFirst, GetByKey, GetFirst,
         FreeTheArray, Create, Free
    <2> QED BY <2>1, <2>2 DEF Next
  <1>3. CASE ArrayStep
    <2>1. Step
      BY <1>3 DEF ArrayStep
    <2>2. op' = op
      BY <2>1 DEF Step, CreateHt, CreateTable, SearchEnd, SearchHit, SearchNext,
           Unlink, FreeEntry, Shrink, MallocEntry, FillEntry, LinkEntry, ClearUnlink,
           ClearEntry, ClearBucket, FreeArray
    <2> QED BY <2>1, <2>2 DEF Next
  <1>4. CASE UNCHANGED mainVars
    BY <1>4 DEF mainVars, vars
  <1> QED BY <1>1, <1>2, <1>3, <1>4 DEF MainNext

LEMMA MainNextInv == IndInv /\ MainInv /\ [MainNext]_mainVars => MainInv'
  <1> SUFFICES ASSUME IndInv, MainInv, [MainNext]_mainVars PROVE MainInv'
    OBVIOUS
  <1>1. CASE UNCHANGED mainVars
    BY <1>1, FilledKept DEF mainVars, local, vars, heap, fields, call, history, MainInv, CallsOK, NodesOK, BooksOK, InHand
  <1> QED BY <1>1, ProgramStep, CallsStep, LibraryStep DEF MainNext

LEMMA MainInvariance == MainSpec => [](IndInv /\ MainInv)
  <1>1. IndInv /\ MainInv /\ [MainNext]_mainVars => (IndInv /\ MainInv)'
    BY MainStepsTheArray, MainNextInv, NextIndInv
  <1> QED BY <1>1, MainInitInv, PTL DEF MainSpec

\* The key of an entry lives inside its node: whatever fails, an entry in a
\* structure, or on its way in or out, has a node that is allocated and whose mac
\* has not changed, no two entries share one, and main prints only such nodes.
THEOREM KeysStayInTheirNodes == MainSpec => []KeysLiveInNodes
  <1>1. IndInv /\ MainInv => KeysLiveInNodes
    <2> SUFFICES ASSUME IndInv, MainInv PROVE KeysLiveInNodes
      OBVIOUS
    <2>1. alive \subseteq Filled
      BY DEF Filled
    <2>2. at \in {"print_got", "print_first"} /\ pc = "idle" /\ ret # NULL => ret \in alive /\ data[ret] \in live
      BY <2>1 DEF MainInv, NodesOK
    <2> QED BY <2>2 DEF IndInv, MainInv, NodesOK, KeysLiveInNodes
  <1> QED BY <1>1, MainInvariance, PTL

\* When no allocation fails the example does not crash and reports with every node
\* freed; whatever fails, when it ends the array and its entries are gone, and
\* with the leak detector every node is.
THEOREM CleanEnd == MainSpec => []CleanWithoutFailures
  <1>1. IndInv /\ MainInv => CleanWithoutFailures
    <2> SUFFICES ASSUME IndInv, MainInv PROVE CleanWithoutFailures
      OBVIOUS
    <2>1. at \in {"time", "done"} => pc = "idle" /\ arr = NULL
      BY DEF MainInv, CallsOK
    <2>2. at \in {"time", "done"} => mem = {} /\ blocks = {} /\ held = {}
      BY <2>1 DEF IndInv, ArrayOK, HeapExact, InFlight, DataHeldOnce, Filled
    <2> QED BY <2>1, <2>2 DEF CleanWithoutFailures, MainInv, BooksOK, InHand
  <1> QED BY <1>1, MainInvariance, PTL

\* The example adds with array_add_replace, and the macs are all of one length: no
\* two entries ever have the same mac, however often one is drawn.
THEOREM MacsAreUnique ==
    ASSUME Prefix = {}
    PROVE  MainSpec => []UniqueKeys
  <1>1. IndInv /\ MapInv /\ [MainNext]_mainVars => (IndInv /\ MapInv)'
    <2> SUFFICES ASSUME IndInv, MapInv, [MainNext]_mainVars PROVE (IndInv /\ MapInv)'
      OBVIOUS
    <2>1. [Next]_vars /\ op' # "add"
      BY MainStepsTheArray DEF MapInv
    <2> QED BY <2>1, NextIndInv, MapStep DEF MapNext
  <1>2. IndInv /\ MapInv => UniqueKeys
    BY DEF MapInv
  <1> QED BY <1>1, <1>2, MainInitInv, PTL DEF MainSpec
==============================================================================
