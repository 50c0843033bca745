------------------------------ MODULE DequeSpec ------------------------------
(***************************************************************************)
(* What deque.h promises: a sequence of data pointers, entered, read and   *)
(* left at both ends.  A push has no result to report a failure with, so   *)
(* it always succeeds.                                                     *)
(***************************************************************************)
EXTENDS Sequences, Integers

CONSTANTS NULL, Entry, Data

VARIABLES exists, items, op, ret

vars == <<exists, items, op, ret>>

Init ==
    /\ exists = FALSE /\ items = <<>>
    /\ op = [f |-> "none", tail |-> FALSE] /\ ret = NULL

Call(f, t) == op' = [f |-> f, tail |-> t]

Create ==
    /\ ~exists /\ Call("create", FALSE)
    /\ exists' \in BOOLEAN
    /\ ret' = NULL
    /\ UNCHANGED items

Push(tail) ==
    /\ exists /\ Call("push", tail)
    /\ \E e \in Entry, v \in Data :
          /\ \A i \in DOMAIN items : items[i].id # e
          /\ LET x == [id |-> e, data |-> v]
             IN  items' = IF tail THEN Append(items, x) ELSE <<x>> \o items
    /\ ret' = NULL
    /\ UNCHANGED exists

\* The item at an end of the sequence, NULL when there is none.
At(tail) == IF items = <<>> THEN NULL ELSE IF tail THEN items[Len(items)] ELSE items[1]

Pop(tail) ==
    /\ exists /\ Call("pop", tail)
    /\ ret' = At(tail)
    /\ items' = IF items = <<>> THEN <<>>
                ELSE IF tail THEN SubSeq(items, 1, Len(items) - 1) ELSE Tail(items)
    /\ UNCHANGED exists

Get(tail) ==
    /\ exists /\ Call("get", tail)
    /\ ret' = At(tail)
    /\ UNCHANGED <<exists, items>>

Free ==
    /\ exists /\ Call("free", FALSE)
    /\ exists' = FALSE /\ items' = <<>> /\ ret' = NULL

Next == Create \/ Free \/ \E tail \in BOOLEAN : Push(tail) \/ Pop(tail) \/ Get(tail)

Spec == Init /\ [][Next]_vars
==============================================================================
