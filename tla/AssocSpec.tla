------------------------------ MODULE AssocSpec ------------------------------
(***************************************************************************)
(* What assoc_array.h promises its caller, with no pointers in it: a       *)
(* sequence of items in the order they were added, of which a key denotes  *)
(* the newest.  A call takes effect between its call and its return; the   *)
(* one call with two effects is array_add_replace, a removal and then an   *)
(* addition that can fail when the removal is done.                        *)
(***************************************************************************)
EXTENDS Integers, Sequences

CONSTANTS
    NULL,
    Array,     \* what array_create returns when it succeeds
    Entry,     \* the handles of items
    Key, Data,
    MayMatch   \* <<s, q>> : a search for q may accept an item of key s

VARIABLES exists, items, phase, op, k, d, ret

vars == <<exists, items, phase, op, k, d, ret>>

EINVAL == 22

Init ==
    /\ exists = FALSE /\ items = <<>> /\ phase = "idle"
    /\ op = "none" /\ k = NULL /\ d = NULL /\ ret = NULL

Call(f, q, v) == phase = "idle" /\ op' = f /\ k' = q /\ d' = v

Return(r) == phase' = "idle" /\ ret' = r

\* Functions that fail at once: array_create, and all of them on a NULL array.
FailAtOnce ==
    /\ ~exists
    /\ \/ Call("create", NULL, NULL) /\ Return(NULL)
       \/ \E f \in {"get", "get_first", "get_last"} : Call(f, NULL, NULL) /\ Return(NULL)
       \/ Call("del", NULL, NULL) /\ Return(EINVAL)
       \/ \E f \in {"add", "replace", "free", "del_first", "del_last"} :
             Call(f, NULL, NULL) /\ Return(-1)
    /\ UNCHANGED <<exists, items>>

\* The functions on the ends of the sequence, when they have nothing to remove.
AtOnce ==
    /\ exists
    /\ \/ Call("get_first", NULL, NULL)
          /\ Return(IF items = <<>> THEN NULL ELSE items[1].id)
       \/ Call("get_last", NULL, NULL)
          /\ Return(IF items = <<>> THEN NULL ELSE items[Len(items)].id)
       \/ \E f \in {"del_first", "del_last"} :
             Call(f, NULL, NULL) /\ items = <<>> /\ Return(-1)
    /\ UNCHANGED <<exists, items>>

Begin ==
    /\ \/ ~exists /\ Call("create", NULL, NULL) /\ UNCHANGED items
       \/ /\ exists
          /\ \/ \E q \in Key : Call("get", q, NULL) \/ Call("del", q, NULL)
             \/ \E q \in Key, v \in Data : Call("add", q, v) \/ Call("replace", q, v)
             \/ \E f \in {"del_first", "del_last"} :
                   items # <<>> /\ Call(f, NULL, NULL)
          /\ UNCHANGED items
       \/ exists /\ Call("free", NULL, NULL) /\ items' = <<>>
    /\ phase' = "called"
    /\ UNCHANGED <<exists, ret>>

CreateReturns ==
    /\ phase = "called" /\ op = "create"
    /\ \/ Return(Array) /\ exists' = TRUE
       \/ Return(NULL) /\ UNCHANGED exists
    /\ UNCHANGED <<items, op, k, d>>

Absent == \A i \in DOMAIN items : items[i].key # k

\* The search stops at item i: it accepts it, and no newer item has the key.
Found(i) ==
    /\ <<items[i].key, k>> \in MayMatch
    /\ \A j \in DOMAIN items : j > i => items[j].key # k

GetReturns ==
    /\ phase = "called" /\ op = "get"
    /\ \/ Absent /\ Return(NULL)
       \/ \E i \in DOMAIN items : Found(i) /\ Return(items[i].id)
    /\ UNCHANGED <<exists, items, op, k, d>>

\* array_add_replace goes on when there is nothing to remove.
Remove ==
    /\ phase = "called"
    /\ \/ \E i \in DOMAIN items :
             /\ \/ op \in {"del", "replace"} /\ Found(i)
                \/ op = "del_first" /\ i = 1
                \/ op = "del_last" /\ i = Len(items)
             /\ items' = SubSeq(items, 1, i - 1) \o SubSeq(items, i + 1, Len(items))
       \/ op = "replace" /\ Absent /\ UNCHANGED items
    /\ phase' = "removed"
    /\ UNCHANGED <<exists, op, k, d, ret>>

DelReturns ==
    /\ \/ phase = "removed" /\ op \in {"del", "del_first", "del_last"} /\ Return(0)
       \/ phase = "called" /\ op = "del" /\ Absent /\ Return(1)
    /\ UNCHANGED <<exists, items, op, k, d>>

\* An addition, or its failure for lack of memory.
AddReturns ==
    /\ \/ phase = "called" /\ op = "add"
       \/ phase = "removed" /\ op = "replace"
    /\ \/ \E e \in Entry :
             /\ \A i \in DOMAIN items : items[i].id # e
             /\ items' = Append(items, [id |-> e, key |-> k, data |-> d])
             /\ Return(0)
       \/ Return(-1) /\ UNCHANGED items
    /\ UNCHANGED <<exists, op, k, d>>

FreeReturns ==
    /\ phase = "called" /\ op = "free"
    /\ exists' = FALSE
    /\ Return(0)
    /\ UNCHANGED <<items, op, k, d>>

Next ==
    \/ FailAtOnce \/ AtOnce \/ Begin
    \/ CreateReturns \/ GetReturns \/ Remove \/ DelReturns \/ AddReturns \/ FreeReturns

Spec == Init /\ [][Next]_vars
==============================================================================
