-------------------------------- MODULE Deque --------------------------------
(***************************************************************************)
(* The deque of deque.c: a ring of list.h and a counter.  An entry that is *)
(* popped belongs to the caller, who frees it.                             *)
(*                                                                         *)
(* No function of deque.c waits or calls back, so a call is one step; only *)
(* deq_free, which frees the nodes it walks over, takes a step per node.   *)
(* Two things end the program: a push when malloc fails, which stores      *)
(* through NULL, and, once a pop has handed out the head of the list as if *)
(* it were an entry, whatever the caller does with it.                     *)
(***************************************************************************)
EXTENDS KListWalk, FiniteSets

CONSTANTS
    Deq,       \* the address of the deq_t
    ListHead,  \* the address of its list
    Entry,     \* the addresses malloc can return for a deq_entry_t
    Data,      \* the data pointers the caller pushes
    Garbage    \* what malloc's memory may hold where size is

ASSUME DequeAssumption ==
    /\ Garbage \subseteq Int
    /\ ListHead \notin Entry \cup Poison \cup {NULL}
    /\ Entry \cap (Poison \cup {NULL}) = {} /\ IsFiniteSet(Entry)
    /\ Deq # NULL

VARIABLES deq,       \* the caller's pointer: NULL or Deq
          mem,       \* the entries that are allocated
          out,       \* of these, the ones the caller has popped and not freed
          list, size, data,
          pc, cur, tmp,
          op, ret    \* the last call, which end it was for, and its result

vars == <<deq, mem, out, list, size, data, pc, cur, tmp, op, ret>>

Init ==
    /\ deq = NULL /\ mem = {} /\ out = {}
    /\ list = [next |-> [x \in Entry \cup {ListHead} |-> LIST_POISON1],
               prev |-> [x \in Entry \cup {ListHead} |-> LIST_POISON2]]
    /\ size = 0
    /\ data = [e \in Entry |-> NULL]
    /\ pc = "idle" /\ cur = NULL /\ tmp = NULL
    /\ op = [f |-> "none", tail |-> FALSE] /\ ret = NULL

Call(f, t) == pc = "idle" /\ op' = [f |-> f, tail |-> t]

-----------------------------------------------------------------------------
\* malloc, then K_INIT_LIST_HEAD: size stays what the memory held.
deque_create ==
    /\ Call("create", FALSE)
    /\ deq = NULL
    /\ \/ UNCHANGED <<deq, list, size>>
       \/ /\ deq' = Deq
          /\ list' = K_INIT_LIST_HEAD(list, ListHead)
          /\ size' \in Garbage
    /\ ret' = NULL
    /\ UNCHANGED <<mem, out, data, pc, cur, tmp>>

\* _deq_push: the counter, then malloc, whose result is not looked at.
Push(tail) ==
    /\ deq # NULL
    /\ Call("push", tail)
    /\ size' = size + 1
    /\ \/ pc' = "crashed" /\ UNCHANGED <<mem, list, data>>
       \/ \E e \in Entry \ mem, v \in Data :
             /\ mem' = mem \cup {e}
             /\ data' = [data EXCEPT ![e] = v]
             /\ list' = IF tail THEN k_list_add_tail(list, e, ListHead)
                        ELSE k_list_add(list, e, ListHead)
             /\ UNCHANGED pc
    /\ ret' = NULL
    /\ UNCHANGED <<deq, out, cur, tmp>>

deq_isempty == size = 0

End(tail) == IF tail THEN k_list_last(list, ListHead) ELSE k_list_first(list, ListHead)

\* Mutants of Pop: the entry is freed under the caller, and the counter is left
\* alone.
PopFrees(tail) ==
    /\ deq # NULL
    /\ Call("pop", tail)
    /\ \/ deq_isempty /\ ret' = NULL /\ UNCHANGED <<list, size, out, mem>>
       \/ /\ ~deq_isempty
          /\ list' = k_list_del(list, End(tail))
          /\ size' = size - 1
          /\ ret' = End(tail)
          /\ mem' = mem \ {End(tail)}
          /\ out' = out \cup {End(tail)}
    /\ UNCHANGED <<deq, data, pc, cur, tmp>>

PopKeepsSize(tail) ==
    /\ deq # NULL /\ ~deq_isempty
    /\ Call("pop", tail)
    /\ list' = k_list_del(list, End(tail))
    /\ ret' = End(tail)
    /\ out' = out \cup {End(tail)}
    /\ UNCHANGED <<deq, mem, data, size, pc, cur, tmp>>

\* _deq_pop: on a ring with no entry End is the head itself.
Pop(tail) ==
    /\ deq # NULL
    /\ Call("pop", tail)
    /\ \/ deq_isempty /\ ret' = NULL /\ UNCHANGED <<list, size, out, pc>>
       \/ /\ ~deq_isempty
          /\ list' = k_list_del(list, End(tail))
          /\ size' = size - 1
          /\ ret' = End(tail)
          /\ IF End(tail) = ListHead THEN pc' = "astray" /\ UNCHANGED out
             ELSE out' = out \cup {End(tail)} /\ UNCHANGED pc
    /\ UNCHANGED <<deq, mem, data, cur, tmp>>

\* A mutant of Get: peek_from_tail is not looked at.
GetHeadAlways(tail) ==
    /\ deq # NULL
    /\ Call("get", tail)
    /\ ret' = IF deq_isempty THEN NULL ELSE End(FALSE)
    /\ UNCHANGED <<deq, mem, out, list, size, data, pc, cur, tmp>>

\* _deq_get
Get(tail) ==
    /\ deq # NULL
    /\ Call("get", tail)
    /\ ret' = IF deq_isempty THEN NULL ELSE End(tail)
    /\ pc' = IF ret' = ListHead THEN "astray" ELSE pc
    /\ UNCHANGED <<deq, mem, out, list, size, data, cur, tmp>>

\* The caller frees an entry it has popped.
FreePopped ==
    /\ pc = "idle"
    /\ \E e \in out : mem' = mem \ {e} /\ out' = out \ {e}
    /\ UNCHANGED <<deq, list, size, data, pc, cur, tmp, op, ret>>

-----------------------------------------------------------------------------
\* deq_free: k_list_for_each_entry_safe reads the first two nodes.
Free ==
    /\ deq # NULL
    /\ Call("free", FALSE)
    /\ cur' = list.next[ListHead]
    /\ tmp' = list.next[list.next[ListHead]]
    /\ pc' = "free"
    /\ ret' = NULL
    /\ UNCHANGED <<deq, mem, out, list, size, data>>

\* A mutant of FreeItem: the loop stops one node early.
FreeItemButLast ==
    /\ pc = "free" /\ cur # ListHead
    /\ mem' = IF tmp = ListHead THEN mem ELSE mem \ {cur}
    /\ cur' = tmp
    /\ tmp' = list.next[tmp]
    /\ UNCHANGED <<deq, out, list, size, data, pc, op, ret>>

\* free(item), and the node after it becomes the item.
FreeItem ==
    /\ pc = "free" /\ cur # ListHead
    /\ mem' = mem \ {cur}
    /\ cur' = tmp
    /\ tmp' = list.next[tmp]
    /\ UNCHANGED <<deq, out, list, size, data, pc, op, ret>>

\* free(name)
FreeDeque ==
    /\ pc = "free" /\ cur = ListHead
    /\ deq' = NULL
    /\ pc' = "idle" /\ cur' = NULL /\ tmp' = NULL
    /\ UNCHANGED <<mem, out, list, size, data, op, ret>>

-----------------------------------------------------------------------------
Next ==
    \/ deque_create
    \/ \E tail \in BOOLEAN : Push(tail) \/ Pop(tail) \/ Get(tail)
    \/ FreePopped
    \/ Free \/ FreeItem \/ FreeDeque

Spec == Init /\ [][Next]_vars
==============================================================================
