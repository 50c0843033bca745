--------------------------- MODULE AssocCallbacks ----------------------------
(***************************************************************************)
(* AssocArray with callbacks that call the array again.                    *)
(*                                                                         *)
(* free_entry and fill_entry are functions of the program: before they do  *)
(* their work they may call the library on the same array, and the call    *)
(* that runs them waits.  stack holds the frames of the calls that wait.   *)
(* The library forbids nothing, so the rules are those its code imposes:   *)
(* no callback frees the array; and a free_entry that array_free runs may  *)
(* search the table and no more, because the ring is not unlinked there    *)
(* and the successor in tmp has been read.                                 *)
(***************************************************************************)
EXTENDS AssocArrayProps, SequencesExt

CONSTANT MaxDepth  \* how many calls may wait

ASSUME DepthAssumption == MaxDepth \in Nat

VARIABLE stack

cbVars == <<vars, stack>>

CbInit == Init /\ stack = <<>>

Frame == [pc |-> pc, op |-> op, k |-> k, d |-> d, bkt |-> bkt, cur |-> cur, tmp |-> tmp]

\* The callback of the step in progress makes a call of its own.
Enter ==
    /\ pc \in {"free_entry", "fill_entry", "clear_entry"}
    /\ Len(stack) < MaxDepth
    /\ stack' = Append(stack, Frame)
    /\ pc' = "idle" /\ op' = "none" /\ k' = NULL /\ d' = NULL
    /\ bkt' = 0 /\ cur' = NULL /\ tmp' = NULL
    /\ UNCHANGED <<heap, fields, links, ret, history>>

\* The call has returned and the callback goes on, with its own call's variables.
Leave ==
    /\ pc = "idle" /\ stack # <<>>
    /\ LET f == Last(stack)
       IN  pc' = f.pc /\ op' = f.op /\ k' = f.k /\ d' = f.d /\ bkt' = f.bkt
           /\ cur' = f.cur /\ tmp' = f.tmp
    /\ stack' = Front(stack)
    /\ UNCHANGED <<heap, fields, links, ret, history>>

Waiting == ToSet(stack)

\* array_free is on its way, in the call in progress or in one that waits.
Freeing == Clearing \/ \E f \in Waiting : f.pc = "clear_entry"

\* The calls a program makes, from outside or from a callback.  Data that a call
\* which waits will hand over to the array is not handed over twice.
CbCalls ==
    /\ Calls
    /\ stack # <<>> => op' # "free"
    /\ Freeing => op' = "get"
    /\ \A f \in Waiting : f.op \in {"add", "replace"} => d' # f.d
    /\ UNCHANGED stack

CbStep == Step /\ UNCHANGED stack

CbNext == CbCalls \/ CbStep \/ Enter \/ Leave

CbSpec == CbInit /\ [][CbNext]_cbVars

-----------------------------------------------------------------------------
(* What stays true when callbacks call back. *)

\* The calls that are at work, each as its frame.
Frames == {Frame} \cup Waiting

Holding == {f \in Frames : f.pc \in {"fill_entry", "link", "free_entry", "clear_entry"}}

\* Each call that waits in a callback keeps its own entry: it is allocated, in no
\* structure, and no call made meanwhile got, linked or freed it; nothing else
\* that is allocated is out of the array; and array_free's saved successor is
\* still an entry of the array when the callback returns.
NestedHeapExact ==
    /\ mem = alive \cup {f.cur : f \in Holding}
    /\ Cardinality({f.cur : f \in Holding}) =
          Cardinality({i \in DOMAIN stack : stack[i] \in Holding})
             + (IF Frame \in Holding THEN 1 ELSE 0)
    /\ \A f \in Holding : f.cur \notin alive
    /\ \A f \in Frames : f.pc = "clear_entry" => f.tmp \in alive \cup {NULL}

\* arr->size is ahead of the ring and the table by one for every call that has
\* unlinked its entry and is still in, or just behind, free_entry, however many
\* calls come and go in between; so it is exact again when all have returned.
SizeAhead ==
    arr # NULL /\ ~Freeing =>
        size = Cardinality(alive)
                 + Cardinality({i \in DOMAIN stack : stack[i].pc = "free_entry"})
                 + (IF pc \in {"free_entry", "shrink"} THEN 1 ELSE 0)

\* The ring and the chains a callback's calls walk are whole, with the entries in
\* order; only array_free leaves the ring behind.  The size is ahead as said, and
\* data belongs to one entry.
NestedStructures ==
    /\ SizeAhead
    /\ arr # NULL /\ ~Freeing => RingOf(list, alive, older)
    /\ ChainsNewestFirst
    /\ LookupMissesNothing
    /\ held = {data[e] : e \in alive} \cup {data[f.cur] : f \in {g \in Holding : g.pc # "fill_entry"}}
==============================================================================
