------------------------ MODULE AssocCallbacks_proofs ------------------------
(***************************************************************************)
(* Callbacks that call the array again leave it right, however deep they   *)
(* nest.  The proof maps the nested calls to the array without callbacks:  *)
(* to the call in progress, the entries, the data and the part of the      *)
(* counter that belong to waiting calls are not there.  Each step of the   *)
(* call is then a step of AssocArray, whose invariant is proved; what is   *)
(* left is what the waiting calls keep, and the moments when one starts to *)
(* wait and when it goes on.                                               *)
(***************************************************************************)
EXTENDS AssocCallbacks, AssocArray_proofs

\* array_free waits in a callback: it is the call the array sees, and the callback
\* does no more than search.
Swept == \E i \in DOMAIN stack : stack[i].pc = "clear_entry"

Seen == IF Swept THEN stack[1] ELSE Frame

\* The waiting calls whose entries, data and counts the array does not see.
Lent == IF Swept THEN {} ELSE DOMAIN stack

LentFilled == {i \in Lent : stack[i].pc = "free_entry"}

Mem == mem \ {stack[i].cur : i \in Lent}
Held == held \ {data[stack[i].cur] : i \in LentFilled}
Size == size - Cardinality(LentFilled)

A == INSTANCE AssocArray_proofs
       WITH mem <- Mem, held <- Held, size <- Size,
            pc <- Seen.pc, op <- Seen.op, k <- Seen.k, d <- Seen.d, bkt <- Seen.bkt,
            cur <- Seen.cur, tmp <- Seen.tmp, ret <- IF Swept THEN NULL ELSE ret

\* A call that waits in a callback, as its frame.
FrameType ==
    [pc : {"free_entry", "fill_entry", "clear_entry"},
     op : {"add", "replace", "free", "del", "del_first", "del_last"},
     k : Key \cup {NULL}, d : Data \cup {NULL}, bkt : Bucket,
     cur : Entry, tmp : Entry \cup {NULL}]

Adds(f) == f.op \in {"add", "replace"}

FrameOK(f) ==
    /\ f.pc = "free_entry" => f.op \in {"del", "replace", "del_first", "del_last"}
    /\ f.pc = "fill_entry" => Adds(f)
    /\ f.pc = "clear_entry" <=> f.op = "free"
    /\ f.op \in {"del", "add", "replace"} => f.k \in Key
    /\ Adds(f) => f.d \in Data \ held

\* The frames that wait: each with an entry of its own, which is out of the array,
\* and with data of its own.
StackOK ==
    /\ stack \in Seq(FrameType)
    /\ \A i \in DOMAIN stack : FrameOK(stack[i])
    /\ \A i, j \in DOMAIN stack :
          i # j => /\ stack[i].cur # stack[j].cur
                   /\ Adds(stack[i]) /\ Adds(stack[j]) => stack[i].d # stack[j].d
    /\ stack # <<>> => arr # NULL /\ op # "free"
    /\ mem \subseteq Entry /\ held \subseteq Data /\ size \in Int

\* What the array does not see is there.
LentOK ==
    /\ \A i \in Lent : stack[i].cur \in mem
    /\ \A i \in LentFilled : data[stack[i].cur] \in held
    /\ \A i, j \in LentFilled : i # j => data[stack[i].cur] # data[stack[j].cur]
    /\ pc # "idle" /\ op \in {"add", "replace"} =>
          /\ pc # "link" => d \notin held
          /\ \A i \in DOMAIN stack : Adds(stack[i]) => stack[i].d # d

\* The search of a callback that array_free runs.
SweptOK ==
    Swept =>
        /\ Len(stack) = 1
        /\ pc \in {"idle", "search"} /\ op \in {"none", "get"} /\ k \in Key \cup {NULL}
        /\ pc = "search" =>
              /\ op = "get" /\ k \in Key /\ bkt = BucketOf(k)
              /\ cur \in alive \cup {NULL}
              /\ cur # NULL => BucketOf(key[cur]) = bkt
              /\ \A y \in alive : key[y] = k => cur # NULL /\ (y = cur \/ y \in older[cur])

RetOK == ret \in {-1, 0, 1, EINVAL, NULL, Array} \cup Entry

CbInv == A!IndInv /\ StackOK /\ LentOK /\ SweptOK

-----------------------------------------------------------------------------
\* A call that starts to wait, and the last one that goes on.
LEMMA Pushed ==
    ASSUME NEW S, NEW s \in Seq(S), NEW e \in S
    PROVE  /\ Append(s, e) \in Seq(S)
           /\ Len(s) \in Nat
           /\ DOMAIN s = 1 .. Len(s)
           /\ Len(s) + 1 \notin DOMAIN s
           /\ DOMAIN Append(s, e) = DOMAIN s \cup {Len(s) + 1}
           /\ Append(s, e)[Len(s) + 1] = e
           /\ \A i \in DOMAIN s : Append(s, e)[i] = s[i]
  OBVIOUS

LEMMA FramePopped ==
    ASSUME NEW S, NEW s \in Seq(S), s # <<>>
    PROVE  /\ Front(s) \in Seq(S)
           /\ Len(s) \in DOMAIN s /\ Last(s) = s[Len(s)]
           /\ DOMAIN Front(s) = DOMAIN s \ {Len(s)}
           /\ \A i \in DOMAIN Front(s) : Front(s)[i] = s[i]
  <1>1. Len(s) \in Nat /\ Len(s) > 0
    OBVIOUS
  <1>2. Front(s) = [i \in 1 .. Len(s) - 1 |-> s[i]]
    BY <1>1 DEF Front
  <1>3. Front(s) \in Seq(S) /\ DOMAIN Front(s) = 1 .. Len(s) - 1
    BY <1>1, <1>2
  <1> QED BY <1>1, <1>2, <1>3 DEF Last

LEMMA NoneLeft ==
    ASSUME NEW S, NEW s \in Seq(S), DOMAIN s = {}
    PROVE  s = <<>>
  <1>1. Len(s) \in Nat /\ DOMAIN s = 1 .. Len(s)
    OBVIOUS
  <1>2. Len(s) = 0
    BY <1>1
  <1> QED BY <1>2

\* What the array sees when array_free does not wait, and when it does.
LEMMA Unswept ==
    ASSUME ~Swept
    PROVE  /\ Seen.pc = pc /\ Seen.op = op /\ Seen.k = k /\ Seen.d = d /\ Seen.bkt = bkt
           /\ Seen.cur = cur /\ Seen.tmp = tmp /\ (IF Swept THEN NULL ELSE ret) = ret
           /\ Lent = DOMAIN stack
  BY DEF Seen, Frame, Lent

LEMMA UnsweptNext ==
    ASSUME ~Swept'
    PROVE  /\ Seen'.pc = pc' /\ Seen'.op = op' /\ Seen'.k = k' /\ Seen'.d = d' /\ Seen'.bkt = bkt'
           /\ Seen'.cur = cur' /\ Seen'.tmp = tmp' /\ (IF Swept' THEN NULL ELSE ret') = ret'
           /\ Lent' = DOMAIN stack'
  BY DEF Seen, Frame, Lent

\* The calls that wait are finitely many.
LEMMA LentFinite ==
    ASSUME StackOK
    PROVE  IsFiniteSet(LentFilled) /\ Cardinality(LentFilled) \in Nat
           /\ IsFiniteSet(DOMAIN stack)
  <1>1. Len(stack) \in Nat /\ DOMAIN stack = 1 .. Len(stack)
    BY DEF StackOK
  <1>2. IsFiniteSet(DOMAIN stack)
    BY <1>1, FS_Interval
  <1>3. LentFilled \subseteq DOMAIN stack
    BY DEF LentFilled, Lent
  <1> QED BY <1>2, <1>3, FS_Subset, FS_CardinalityType

\* The constants of the array the call sees are those of the array.
LEMMA SameConstants ==
    /\ A!Bucket = Bucket /\ A!Poison = Poison
    /\ \A S : A!Cardinality(S) = Cardinality(S)
    /\ \A S : A!IsFiniteSet(S) <=> IsFiniteSet(S)
    /\ \A q : A!BucketOf(q) = BucketOf(q)
    /\ \A p, q : A!KeyMatches(p, q) = KeyMatches(p, q)
  <1>1. A!Bucket = Bucket /\ A!Poison = Poison
    BY DEF A!Bucket, Bucket, A!Poison, Poison
  <1>2. ASSUME NEW S PROVE A!Cardinality(S) = Cardinality(S)
    BY DEF A!Cardinality, Cardinality
  <1>3. ASSUME NEW S PROVE A!IsFiniteSet(S) <=> IsFiniteSet(S)
    BY DEF A!IsFiniteSet, IsFiniteSet
  <1>4. ASSUME NEW q PROVE A!BucketOf(q) = BucketOf(q)
    BY DEF BucketOf, A!BucketOf, calc_bkt, A!calc_bkt
  <1>5. ASSUME NEW p, NEW q PROVE A!KeyMatches(p, q) = KeyMatches(p, q)
    BY DEF KeyMatches, A!KeyMatches
  <1> QED BY <1>1, <1>2, <1>3, <1>4, <1>5

LEMMA AInitInv == A!Init => A!IndInv
  BY A!InitIndInv, SameConstants, AddressAssumption, TableAssumption, PoisonAssumption, KeyAssumption

LEMMA ANextInv == A!IndInv /\ [A!Next]_A!vars => A!IndInv'
  BY A!NextIndInv, SameConstants, AddressAssumption, TableAssumption, PoisonAssumption, KeyAssumption

LEMMA CbInitInv == CbInit => CbInv
  <1> SUFFICES ASSUME CbInit PROVE CbInv
    OBVIOUS
  <1>1. ~Swept /\ DOMAIN stack = {} /\ Lent = {} /\ LentFilled = {}
    BY DEF CbInit, Swept, Lent, LentFilled
  <1>2. Mem = mem /\ Held = held /\ Size = size
    BY <1>1, FS_EmptySet DEF Mem, Held, Size, CbInit, Init
  <1>3. A!Init
    BY <1>1, <1>2, SameConstants, Unswept DEF CbInit, Init, A!Init
  <1>4. StackOK /\ LentOK /\ SweptOK
    BY <1>1 DEF CbInit, Init, StackOK, LentOK, SweptOK
  <1> QED BY <1>3, <1>4, AInitInv DEF CbInv

-----------------------------------------------------------------------------
(* While array_free does not wait, a step of the call in progress is a step of the
   array. *)

\* The state that a step starts from, and the stack that it leaves alone.
Working == CbInv /\ ~Swept /\ UNCHANGED stack

LEMMA Sees ==
    ASSUME Working
    PROVE  /\ Seen.pc = pc /\ Seen.op = op /\ Seen.k = k /\ Seen.d = d /\ Seen.bkt = bkt
           /\ Seen.cur = cur /\ Seen.tmp = tmp /\ (IF Swept THEN NULL ELSE ret) = ret
           /\ Seen'.pc = pc' /\ Seen'.op = op' /\ Seen'.k = k' /\ Seen'.d = d' /\ Seen'.bkt = bkt'
           /\ Seen'.cur = cur' /\ Seen'.tmp = tmp' /\ (IF Swept' THEN NULL ELSE ret') = ret'
           /\ Lent = DOMAIN stack /\ Lent' = Lent /\ LentFilled' = LentFilled /\ ~Swept'
  <1>1. ~Swept'
    BY DEF Working, Swept
  <1> QED BY <1>1, Unswept, UnsweptNext DEF Working, LentFilled

\* What the array sees of the heap when the step changes nothing of it.
LEMMA SameHeap ==
    ASSUME Working, UNCHANGED <<mem, held, data, size>>
    PROVE  UNCHANGED <<Mem, Held, Size>>
  <1>1. Lent' = Lent /\ LentFilled' = LentFilled /\ stack' = stack
    BY Sees DEF Working
  <1>2. Mem' = Mem
    BY <1>1 DEF Mem
  <1>3. Held' = Held
    BY <1>1 DEF Held
  <1>4. Size' = Size
    BY <1>1 DEF Size
  <1> QED BY <1>2, <1>3, <1>4

\* Of the state in the middle of a call the array sees the whole truth.
LEMMA SeesEmpty ==
    ASSUME Working, arr # NULL, pc = "idle"
    PROVE  A!ListEmpty <=> ListEmpty
  <1>1. /\ Size = Cardinality(alive) /\ A!RingOf(list, alive, older) /\ IsFiniteSet(alive)
    <2>1. IsFiniteSet(alive) /\ A!RingOf(list, alive, older)
      BY Sees, SameConstants DEF Working, CbInv, A!IndInv, A!RingInOrder, A!ArrayOK, A!Clearing
    <2>2. Size = Cardinality(alive) + 0
      BY Sees, SameConstants DEF Working, CbInv, A!IndInv, A!SizeExact, A!Clearing
    <2> QED BY <2>1, <2>2, FS_CardinalityType
  <1>2. Cardinality(alive) \in Nat /\ (Cardinality(alive) = 0 <=> alive = {})
    BY <1>1, FS_EmptySet, FS_CardinalityType
  <1>3. alive # {} => ~k_list_empty(list, ListHead)
    BY <1>1 DEF A!RingOf, A!After, k_list_empty
  <1>4. Size = size - Cardinality(LentFilled) /\ Cardinality(LentFilled) \in Nat /\ size \in Int
    BY LentFinite DEF Working, CbInv, StackOK, Size
  <1>5. k_list_empty(list, ListHead) <=> A!k_list_empty(list, ListHead)
    BY DEF k_list_empty, A!k_list_empty
  <1>6. size = 0 => alive = {}
    BY <1>1, <1>2, <1>4
  <1>7. ListHead \notin alive
    BY AddressAssumption, Sees DEF Working, CbInv, A!IndInv, A!TypeOK
  <1>8. alive = {} => k_list_empty(list, ListHead)
    BY <1>1, <1>7 DEF A!RingOf, A!After, k_list_empty
  <1> QED BY <1>1, <1>2, <1>3, <1>5, <1>6, <1>8 DEF ListEmpty, A!ListEmpty

\* The calls of the program.
LEMMA SeesCalls ==
    ASSUME Working, Calls
    PROVE  A!Calls
  <1> USE Sees DEF Call, A!Call, Return, A!Return, Goto, A!Goto, heap, A!heap, fields, A!fields,
          links, A!links, call, A!call, cursor, A!cursor, history, A!history
  <1>1. UNCHANGED <<Mem, Held, Size>>
    BY SameHeap DEF Calls, Create, CallOnNull, GetEnd, Search, DelEnd, Add, Free
  <1>2. CASE Create
    BY <1>1, <1>2 DEF Create, A!Create, A!Calls
  <1>3. CASE CallOnNull
    BY <1>1, <1>3 DEF CallOnNull, A!CallOnNull, A!Calls, EINVAL, A!EINVAL
  <1>4. CASE GetEnd
    <2>1. A!ListEmpty <=> ListEmpty
      BY <1>4, SeesEmpty DEF GetEnd
    <2>2. \A f : A!EndOf(f) = EndOf(f)
      BY DEF EndOf, A!EndOf, k_list_first, k_list_last, A!k_list_first, A!k_list_last
    <2> QED BY <1>1, <1>4, <2>1, <2>2 DEF GetEnd, A!GetEnd, A!Calls
  <1>5. CASE DelEnd
    <2>1. A!ListEmpty <=> ListEmpty
      BY <1>5, SeesEmpty DEF DelEnd
    <2>2. \A f : A!EndOf(f) = EndOf(f)
      BY DEF EndOf, A!EndOf, k_list_first, k_list_last, A!k_list_first, A!k_list_last
    <2> QED BY <1>1, <1>5, <2>1, <2>2 DEF DelEnd, A!DelEnd, A!Calls
  <1>6. CASE Search
    <2>1. Data \ held \subseteq Data \ Held
      BY DEF Held
    <2> QED BY <1>1, <1>6, <2>1, SameConstants DEF Search, A!Search, A!Calls
  <1>7. CASE Add
    <2>1. Data \ held \subseteq Data \ Held
      BY DEF Held
    <2> QED BY <1>1, <1>7, <2>1 DEF Add, A!Add, A!Calls
  <1>8. CASE Free
    BY <1>1, <1>8 DEF Free, A!Free, A!Calls
  <1> QED BY <1>2, <1>3, <1>4, <1>5, <1>6, <1>7, <1>8 DEF Calls

\* What a step of the call in progress may rely on about its own entry: it is not
\* that of a call that waits, and neither is its data.
LEMMA OwnEntry ==
    ASSUME Working
    PROVE  /\ pc \in {"fill_entry", "link", "free_entry", "clear_entry"} =>
                 /\ cur \in mem /\ cur \in Entry
                 /\ \A i \in Lent : stack[i].cur # cur
           /\ pc \in {"link", "free_entry", "clear_entry"} =>
                 /\ data[cur] \in held
                 /\ \A i \in LentFilled : data[stack[i].cur] # data[cur]
           /\ \A i \in Lent : stack[i].cur \in mem \ alive /\ stack[i].cur \in Entry
           /\ \A i \in LentFilled : i \in Lent /\ data[stack[i].cur] \in held
           /\ data \in [Entry -> Data \cup {NULL}] /\ key \in [Entry -> Key \cup {NULL}]
           /\ alive \subseteq mem /\ alive \subseteq Entry
  <1>1. /\ Mem = alive \cup A!InFlight /\ Held = {data[e] : e \in A!Filled}
        /\ data \in [Entry -> Data \cup {NULL}] /\ key \in [Entry -> Key \cup {NULL}]
        /\ alive \subseteq Entry
    BY DEF Working, CbInv, A!IndInv, A!HeapExact, A!DataHeldOnce, A!TypeOK
  <1>2. LentFilled \subseteq Lent
    BY DEF LentFilled
  <1>3. /\ \A i \in Lent : stack[i].cur \in mem /\ stack[i].cur \notin Mem
        /\ \A i \in LentFilled : data[stack[i].cur] \in held /\ data[stack[i].cur] \notin Held
    BY DEF Working, CbInv, LentOK, Mem, Held
  <1>4. Mem \subseteq mem /\ Held \subseteq held /\ mem \subseteq Entry
    BY DEF Mem, Held, Working, CbInv, StackOK
  <1>5. pc \in {"fill_entry", "link", "free_entry", "clear_entry"} => cur \in Mem
    BY <1>1, Sees DEF A!InFlight
  <1>6. pc \in {"link", "free_entry", "clear_entry"} => data[cur] \in Held
    BY <1>1, Sees DEF A!Filled
  <1> QED BY <1>1, <1>2, <1>3, <1>4, <1>5, <1>6

\* The steps of the library that allocate, free or count.
LEMMA SeesHeapStep ==
    ASSUME Working, FreeEntry \/ ClearEntry \/ Shrink \/ MallocEntry \/ FillEntry \/ LinkEntry
    PROVE  A!Step
  <1> USE Sees DEF Call, A!Call, Return, A!Return, Goto, A!Goto, heap, A!heap, fields, A!fields,
          links, A!links, call, A!call, cursor, A!cursor, history, A!history
  <1>0. stack' = stack
    BY DEF Working
  <1>1. CASE FreeEntry \/ ClearEntry
    <2>1. /\ pc \in {"free_entry", "clear_entry"} /\ free_assoc_array_entry(cur)
          /\ UNCHANGED <<arr, blocks, size, alive, older>>
      BY <1>1 DEF FreeEntry, ClearEntry
    <2>2. Mem' = Mem \ {cur}
      BY <1>0, <2>1, OwnEntry DEF Mem, free_assoc_array_entry
    <2>3. \A i \in LentFilled : data'[stack[i].cur] = data[stack[i].cur]
      BY <2>1, OwnEntry DEF free_assoc_array_entry
    <2>4. Held' = Held \ {data[cur]}
      BY <1>0, <2>1, <2>3, OwnEntry DEF Held, free_assoc_array_entry
    <2>5. Size' = Size
      BY <2>1 DEF Size
    <2>6. A!free_assoc_array_entry(Seen.cur)
      BY <2>1, <2>2, <2>4 DEF free_assoc_array_entry, A!free_assoc_array_entry
    <2> QED BY <1>1, <2>1, <2>5, <2>6
            DEF FreeEntry, A!FreeEntry, ClearEntry, A!ClearEntry, A!Step
  <1>2. CASE MallocEntry
    <2>1. Held' = Held /\ Size' = Size
      BY <1>0, <1>2 DEF MallocEntry, Held, Size
    <2>2. CASE Return(-1) /\ UNCHANGED mem
      <3>1. Mem' = Mem
        BY <1>0, <2>2 DEF Mem
      <3> QED BY <1>2, <2>1, <2>2, <3>1 DEF MallocEntry, A!MallocEntry, A!Step
    <2>3. ASSUME NEW e \in Entry \ mem, mem' = mem \cup {e}, cur' = e, Goto("fill_entry"),
                 UNCHANGED <<bkt, tmp>>
          PROVE  A!Step
      <3>1. Mem' = Mem \cup {e} /\ e \in Entry \ Mem
        BY <1>0, <2>3, OwnEntry DEF Mem
      <3> QED BY <1>2, <2>1, <2>3, <3>1 DEF MallocEntry, A!MallocEntry, A!Step
    <2> QED BY <1>2, <2>2, <2>3 DEF MallocEntry
  <1>3. CASE FillEntry
    <2>1. Size' = Size
      BY <1>0, <1>3 DEF FillEntry, Size
    <2>2. CASE mem' = mem \ {cur} /\ Return(-1) /\ UNCHANGED <<held, fields>>
      <3>1. Mem' = Mem \ {cur} /\ Held' = Held
        BY <1>0, <2>2 DEF Mem, Held
      <3> QED BY <1>3, <2>1, <2>2, <3>1 DEF FillEntry, A!FillEntry, A!Step
    <2>3. CASE fill_assoc_array_entry(cur) /\ Goto("link") /\ UNCHANGED <<mem, cursor>>
      <3>1. Mem' = Mem
        BY <1>0, <2>3 DEF Mem
      <3>2. \A i \in LentFilled : data'[stack[i].cur] = data[stack[i].cur]
        BY <1>3, <2>3, OwnEntry DEF FillEntry, fill_assoc_array_entry
      <3>3. d \notin held
        <4>1. op \in {"add", "replace"}
          BY <1>3 DEF FillEntry, Working, CbInv, A!IndInv, A!CallOK
        <4> QED BY <1>3, <4>1 DEF FillEntry, Working, CbInv, LentOK
      <3>4. Held' = Held \cup {d}
        BY <1>0, <2>3, <3>2, <3>3, OwnEntry DEF Held, fill_assoc_array_entry
      <3>5. A!fill_assoc_array_entry(Seen.cur)
        BY <2>3, <3>4 DEF fill_assoc_array_entry, A!fill_assoc_array_entry
      <3> QED BY <1>3, <2>1, <2>3, <3>1, <3>5 DEF FillEntry, A!FillEntry, A!Step
    <2> QED BY <1>3, <2>2, <2>3 DEF FillEntry
  <1>4. CASE Shrink \/ LinkEntry
    <2>1. UNCHANGED <<mem, held, data>>
      BY <1>4 DEF Shrink, LinkEntry
    <2>2. Mem' = Mem /\ Held' = Held
      BY <1>0, <2>1 DEF Mem, Held
    <2>3. size \in Int /\ Cardinality(LentFilled) \in Nat
      BY LentFinite DEF Working, CbInv, StackOK
    <2>4. CASE Shrink
      <3>1. Size' = Size - 1
        BY <2>3, <2>4 DEF Size, Shrink
      <3> QED BY <2>2, <2>4, <3>1 DEF Shrink, A!Shrink, A!Step
    <2>5. CASE LinkEntry
      <3>1. Size' = Size + 1
        BY <2>3, <2>5 DEF Size, LinkEntry
      <3>2. /\ \A b : A!hlist_add_head(ht, cur, b) = hlist_add_head(ht, cur, b)
            /\ A!k_list_add_tail(list, cur, ListHead) = k_list_add_tail(list, cur, ListHead)
        BY DEF A!hlist_add_head, hlist_add_head, A!k_list_add_tail, k_list_add_tail,
               A!list_add_between, list_add_between
      <3> QED BY <2>2, <2>5, <3>1, <3>2, SameConstants DEF LinkEntry, A!LinkEntry, A!Step
    <2> QED BY <1>4, <2>4, <2>5
  <1> QED BY <1>1, <1>2, <1>3, <1>4

\* The steps of the library that walk the chains and change the links.
LEMMA SeesLinkStep ==
    ASSUME Working,
           \/ CreateHt \/ CreateTable \/ SearchEnd \/ SearchHit \/ SearchNext \/ Unlink
           \/ ClearUnlink \/ ClearBucket \/ FreeArray
    PROVE  A!Step
  <1> USE Sees DEF Call, A!Call, Return, A!Return, Goto, A!Goto, heap, A!heap, fields, A!fields,
          links, A!links, call, A!call, cursor, A!cursor, history, A!history
  <1>1. CASE CreateTable
    <2>1. LentFilled = {}
      <3>1. arr = NULL
        BY <1>1 DEF CreateTable, Working, CbInv, A!IndInv, A!ArrayOK
      <3> QED BY <3>1 DEF Working, CbInv, StackOK, LentFilled, Lent
    <2>2. \A n : n - Cardinality({}) = n - 0
      BY FS_EmptySet
    <2>3. LentFilled' = {} /\ Lent' = Lent /\ stack' = stack
      BY <2>1 DEF Working
    <2>4. UNCHANGED <<Mem, Held>>
      BY <1>1, <2>1, <2>3 DEF CreateTable, Mem, Held
    <2>5. Size = size - 0 /\ Size' = size' - 0
      BY <2>1, <2>2, <2>3 DEF Size
    <2>6. CASE size' = 0 /\ ht' = hashtable_init(ht) /\ EmptyArray /\ blocks' = blocks \cup {"table"}
      <3>1. A!hashtable_init(ht) = hashtable_init(ht)
        BY SameConstants DEF A!hashtable_init, hashtable_init
      <3>2. Size' = 0
        BY <2>5, <2>6
      <3>3. A!K_INIT_LIST_HEAD(list, ListHead) = K_INIT_LIST_HEAD(list, ListHead)
        BY DEF A!K_INIT_LIST_HEAD, K_INIT_LIST_HEAD
      <3> QED BY <1>1, <2>4, <2>6, <3>1, <3>2, <3>3
              DEF CreateTable, A!CreateTable, EmptyArray, A!EmptyArray, A!Step
    <2>7. CASE blocks' = (blocks \ {"ht"}) \ {"arr"} /\ Return(NULL) /\ UNCHANGED <<arr, links>>
      <3>1. Size' = Size
        BY <2>5, <2>7
      <3> QED BY <1>1, <2>4, <2>7, <3>1 DEF CreateTable, A!CreateTable, A!Step
    <2> QED BY <1>1, <2>6, <2>7 DEF CreateTable, EmptyArray
  <1>2. CASE ~CreateTable
    <2>1. UNCHANGED <<Mem, Held, Size>>
      BY <1>2, SameHeap
         DEF CreateHt, SearchEnd, SearchHit, SearchNext, Unlink, ClearUnlink, ClearBucket, FreeArray
    <2>2. CASE CreateHt
      BY <2>1, <2>2 DEF CreateHt, A!CreateHt, A!Step
    <2>3. CASE SearchEnd \/ SearchHit \/ SearchNext
      <3>1. CASE SearchEnd
        BY <2>1, <3>1, SameConstants DEF SearchEnd, A!SearchEnd, A!Step
      <3>2. CASE SearchHit
        BY <2>1, <3>2, SameConstants DEF SearchHit, A!SearchHit, A!Step
      <3>3. CASE SearchNext
        BY <2>1, <3>3, SameConstants DEF SearchNext, A!SearchNext, chain_next, A!chain_next, A!Step
      <3> QED BY <2>3, <3>1, <3>2, <3>3
    <2>4. \A e : Forget(e) => A!Forget(e)
      BY DEF Forget, A!Forget
    <2>5. CASE Unlink
      <3>1. A!hlist_del(ht, cur) = hlist_del(ht, cur) /\ A!k_list_del(list, cur) = k_list_del(list, cur)
        BY DEF A!hlist_del, hlist_del, A!hlist_unlink, hlist_unlink, A!k_list_del, k_list_del,
               A!list_del_between, list_del_between
      <3> QED BY <2>1, <2>4, <2>5, <3>1 DEF Unlink, A!Unlink, A!Step
    <2>6. CASE ClearUnlink
      <3>1. A!hlist_del_init(ht, cur) = hlist_del_init(ht, cur)
        BY DEF A!hlist_del_init, hlist_del_init, A!hlist_unlink, hlist_unlink,
               A!hlist_unhashed, hlist_unhashed, A!hlist_init_node, hlist_init_node
      <3> QED BY <2>1, <2>4, <2>6, <3>1 DEF ClearUnlink, A!ClearUnlink, chain_next, A!chain_next, A!Step
    <2>7. CASE ClearBucket
      BY <2>1, <2>7 DEF ClearBucket, A!ClearBucket, A!Step
    <2>8. CASE FreeArray
      BY <2>1, <2>8 DEF FreeArray, A!FreeArray, A!Step
    <2> QED BY <1>2, <2>2, <2>3, <2>5, <2>6, <2>7, <2>8
  <1> QED BY <1>1, <1>2

\* So the invariant of the array is kept.
LEMMA WorkingStep ==
    ASSUME Working, Next
    PROVE  A!IndInv'
  <1>1. A!Next
    BY SeesCalls, SeesHeapStep, SeesLinkStep DEF Next, Step, A!Next
  <1> QED BY <1>1, ANextInv DEF Working, CbInv

-----------------------------------------------------------------------------
(* What the calls that wait keep, while another one works. *)

LEMMA WaitersStay ==
    ASSUME Working, CbCalls \/ CbStep
    PROVE  (StackOK /\ LentOK /\ SweptOK)'
  <1> USE DEF Call, Return, Goto, heap, fields, links, call, cursor, history
  <1>0. /\ stack' = stack /\ DOMAIN stack' = DOMAIN stack
        /\ Lent = DOMAIN stack /\ Lent' = Lent /\ LentFilled' = LentFilled /\ ~Swept'
    BY Sees DEF Working
  <1>1. /\ A!IndInv /\ A!IndInv' /\ stack \in Seq(FrameType)
        /\ \A i \in DOMAIN stack : FrameOK(stack[i])
        /\ mem \subseteq Entry /\ held \subseteq Data /\ size \in Int
    BY WorkingStep DEF Working, CbInv, StackOK, CbCalls, CbStep, Next
  <1>2. /\ \A i \in Lent : stack[i].cur \in mem'
        /\ \A i \in LentFilled : data'[stack[i].cur] = data[stack[i].cur] /\ data[stack[i].cur] \in held'
        /\ mem' \subseteq Entry /\ held' \subseteq held \cup {d}
        /\ held' \subseteq held \/ (pc = "fill_entry" /\ pc' = "link")
        /\ size' \in Int
    <2>1. CASE FreeEntry \/ ClearEntry
      <3>1. /\ pc \in {"free_entry", "clear_entry"} /\ free_assoc_array_entry(cur)
            /\ size' = size
        BY <2>1 DEF FreeEntry, ClearEntry
      <3> QED BY <1>1, <3>1, OwnEntry DEF free_assoc_array_entry
    <2>2. CASE FillEntry
      BY <1>1, <2>2, OwnEntry DEF FillEntry, fill_assoc_array_entry
    <2>3. CASE ~(FreeEntry \/ ClearEntry \/ FillEntry)
      <3>1. ASSUME Calls
            PROVE  UNCHANGED <<held, data>> /\ mem \subseteq mem' /\ mem' \subseteq Entry /\ size' \in Int
        BY <1>1, <3>1
           DEF Calls, Create, CallOnNull, GetEnd, Search, DelEnd, Add, Free
      <3>2. ASSUME Shrink \/ MallocEntry \/ LinkEntry
            PROVE  UNCHANGED <<held, data>> /\ mem \subseteq mem' /\ mem' \subseteq Entry /\ size' \in Int
        BY <1>1, <3>2 DEF Shrink, MallocEntry, LinkEntry
      <3>3. ASSUME CreateHt \/ CreateTable
            PROVE  UNCHANGED <<held, data>> /\ mem \subseteq mem' /\ mem' \subseteq Entry /\ size' \in Int
        BY <1>1, <3>3 DEF CreateHt, CreateTable, EmptyArray
      <3>4. ASSUME SearchEnd \/ SearchHit \/ SearchNext \/ Unlink
            PROVE  UNCHANGED <<held, data>> /\ mem \subseteq mem' /\ mem' \subseteq Entry /\ size' \in Int
        BY <1>1, <3>4 DEF SearchEnd, SearchHit, SearchNext, Unlink
      <3>5. ASSUME ClearUnlink \/ ClearBucket \/ FreeArray
            PROVE  UNCHANGED <<held, data>> /\ mem \subseteq mem' /\ mem' \subseteq Entry /\ size' \in Int
        BY <1>1, <3>5 DEF ClearUnlink, ClearBucket, FreeArray
      <3>6. UNCHANGED <<held, data>> /\ mem \subseteq mem' /\ mem' \subseteq Entry /\ size' \in Int
        BY <2>3, <3>1, <3>2, <3>3, <3>4, <3>5 DEF CbCalls, CbStep, Step
      <3> QED BY <3>6, OwnEntry
    <2> QED BY <2>1, <2>2, <2>3
  <1>3. /\ CbCalls => pc = "idle" /\ UNCHANGED <<arr, held>>
        /\ CbStep => pc # "idle" /\ op' = op /\ d' = d
    <2>1. CbCalls => pc = "idle" /\ UNCHANGED <<arr, held>>
      BY DEF CbCalls, Calls, Create, CallOnNull, GetEnd, Search, DelEnd, Add, Free
    <2>2. CbStep => pc # "idle" /\ op' = op /\ d' = d
      BY DEF CbStep, Step, CreateHt, CreateTable, SearchEnd, SearchHit, SearchNext, Unlink,
             FreeEntry, Shrink, MallocEntry, FillEntry, LinkEntry, ClearUnlink, ClearEntry,
             ClearBucket, FreeArray
    <2> QED BY <2>1, <2>2
  <1>4. stack # <<>> => arr' # NULL /\ op' # "free"
    <2> SUFFICES ASSUME stack # <<>>, CbStep PROVE arr' # NULL
      BY <1>3 DEF CbCalls, Working, CbInv, StackOK
    <2>1. arr # NULL /\ op # "free"
      BY DEF Working, CbInv, StackOK
    <2>2. ~FreeArray
      BY <1>1, <2>1, Sees DEF FreeArray, A!IndInv, A!CallOK, A!Clearing
    <2>3. ~CreateTable
      BY <1>1, <2>1, Sees DEF CreateTable, A!IndInv, A!ArrayOK
    <2> QED BY <2>1, <2>2, <2>3
        DEF CbStep, Step, CreateHt, SearchEnd, SearchHit, SearchNext, Unlink, Shrink,
           MallocEntry, LinkEntry, ClearUnlink, ClearBucket, FreeEntry, ClearEntry, FillEntry
  <1>5. ASSUME NEW i \in DOMAIN stack, Adds(stack[i])
        PROVE  stack[i].d \notin held'
    <2>1. stack[i].d \notin held
      BY <1>1, <1>5 DEF FrameOK
    <2>2. CASE pc = "fill_entry"
      <3>1. op \in {"add", "replace"}
        BY <1>1, <2>2, Sees DEF A!IndInv, A!CallOK
      <3>2. stack[i].d # d
        BY <1>5, <2>2, <3>1 DEF Working, CbInv, LentOK
      <3> QED BY <1>2, <2>1, <3>2
    <2> QED BY <1>2, <2>1, <2>2
  <1>6. StackOK'
    <2>1. \A i \in DOMAIN stack : FrameOK(stack[i])'
      BY <1>0, <1>1, <1>5 DEF FrameOK, Adds
    <2>2. \A i, j \in DOMAIN stack :
             i # j => /\ stack[i].cur # stack[j].cur
                      /\ Adds(stack[i]) /\ Adds(stack[j]) => stack[i].d # stack[j].d
      BY DEF Working, CbInv, StackOK
    <2>3. held' \subseteq Data
      <3>1. held' \subseteq held \/ d \in Data
        BY <1>1, <1>2, Sees DEF A!IndInv, A!CallOK
      <3> QED BY <1>1, <1>2, <3>1
    <2> QED BY <1>0, <1>1, <1>2, <1>4, <2>1, <2>2, <2>3 DEF StackOK, Adds
  <1>7. LentOK'
    <2>1. \A i, j \in LentFilled : i # j => data'[stack[i].cur] # data'[stack[j].cur]
      BY <1>2 DEF Working, CbInv, LentOK
    <2>2. ASSUME pc' # "idle", op' \in {"add", "replace"}, pc' # "link"
          PROVE  d' \notin held'
      <3>1. CASE CbCalls
        <4>1. held' = held
          BY <1>3, <3>1
        <4>2. d' \notin held
          BY <2>2, <3>1
             DEF CbCalls, Calls, Create, CallOnNull, GetEnd, Search, DelEnd, Add, Free
        <4> QED BY <4>1, <4>2
      <3>2. CASE CbStep
        <4>1. pc # "idle" /\ op \in {"add", "replace"} /\ d' = d
          BY <1>3, <2>2, <3>2
        <4>2. pc # "link"
          BY <2>2, <3>2
             DEF CbStep, Step, CreateHt, CreateTable, SearchEnd, SearchHit, SearchNext, Unlink,
                 FreeEntry, Shrink, MallocEntry, FillEntry, LinkEntry, ClearUnlink, ClearEntry,
                 ClearBucket, FreeArray
        <4>3. d \notin held
          BY <4>1, <4>2 DEF Working, CbInv, LentOK
        <4> QED BY <1>2, <2>2, <4>1, <4>3
      <3> QED BY <3>1, <3>2
    <2>3. ASSUME pc' # "idle", op' \in {"add", "replace"}, NEW i \in DOMAIN stack, Adds(stack[i])
          PROVE  stack[i].d # d'
      <3>1. CASE CbCalls
        BY <2>3, <3>1 DEF CbCalls, Waiting, ToSet, Adds
      <3>2. CASE CbStep
        BY <1>3, <2>3, <3>2 DEF Working, CbInv, LentOK, CbCalls
      <3> QED BY <3>1, <3>2
    <2> QED BY <1>0, <1>2, <2>1, <2>2, <2>3 DEF LentOK
  <1>8. SweptOK'
    BY <1>0 DEF SweptOK
  <1> QED BY <1>6, <1>7, <1>8

-----------------------------------------------------------------------------
(* While array_free waits, its callback searches. *)

\* The chains in the state of the array, whatever call is in progress.
LEMMA Chains ==
    ASSUME CbInv, arr # NULL
    PROVE  /\ ChainsOf(ht, alive, older, key)
           /\ ChainsLinked(ht, alive, older, key)
           /\ Ordered(alive, older) /\ alive \in SUBSET Entry
           /\ \A e \in alive : key[e] \in Key
  <1>1. A!ChainsOf(ht, alive, older, key) /\ A!Ordered(alive, older) /\ alive \in SUBSET Entry
        /\ \A e \in alive : key[e] \in Key
    BY DEF CbInv, A!IndInv, A!ChainsNewestFirst, A!TypeOK, A!ArrayOK
  <1>2. ChainsOf(ht, alive, older, key)
    <2>1. \A s : A!Behind(alive, older, key, s) = Behind(alive, older, key, s)
      <3>1. ASSUME NEW s PROVE A!Behind(alive, older, key, s) = Behind(alive, older, key, s)
        BY SameConstants DEF Behind, A!Behind
      <3> QED BY <3>1
    <2> QED BY <1>1, <2>1, SameConstants DEF ChainsOf, A!ChainsOf
  <1>3. Ordered(alive, older)
    BY <1>1 DEF Ordered, A!Ordered
  <1> QED BY <1>1, <1>2, <1>3, ChainsFacts

LEMMA SweptStep ==
    ASSUME CbInv, Swept, CbCalls \/ CbStep
    PROVE  CbInv'
  <1> USE DEF Call, Return, Goto, heap, fields, links, call, cursor, history
  <1>1. /\ stack' = stack /\ Swept' /\ Seen' = Seen /\ Lent = {} /\ Lent' = {} /\ LentFilled = {}
        /\ LentFilled' = {}
    <2>1. stack' = stack
      BY DEF CbCalls, CbStep
    <2>2. Swept'
      BY <2>1 DEF Swept
    <2> QED BY <2>1, <2>2 DEF Seen, Lent, LentFilled
  <1>2. arr # NULL /\ pc \in {"idle", "search"} /\ op \in {"none", "get"}
    BY DEF CbInv, StackOK, SweptOK, Swept
  <1>3. \/ Search /\ op' = "get"
        \/ SearchEnd \/ SearchHit \/ SearchNext
    <2>1. CASE CbCalls
      <3>1. Freeing
        BY DEF Swept, Freeing, Waiting, ToSet
      <3> QED BY <1>2, <2>1, <3>1
              DEF CbCalls, Calls, Create, CallOnNull, GetEnd, Search, DelEnd, Add, Free
    <2>2. CASE CbStep
      BY <1>2, <2>2 DEF CbStep, Step, CreateHt, CreateTable, Unlink, FreeEntry, Shrink, MallocEntry,
         FillEntry, LinkEntry, ClearUnlink, ClearEntry, ClearBucket, FreeArray
    <2> QED BY <2>1, <2>2
  <1>4. UNCHANGED <<arr, blocks, mem, held, key, data, ht, list, size, alive, older>>
    BY <1>3 DEF Search, SearchEnd, SearchHit, SearchNext
  <1>5. UNCHANGED A!vars
    <2>1. UNCHANGED <<Mem, Held, Size>>
      BY <1>1, <1>4 DEF Mem, Held, Size
    <2> QED BY <1>1, <1>4, <2>1
         DEF A!vars, A!heap, A!fields, A!links, A!call, A!cursor, A!history
  <1>6. A!IndInv'
    BY <1>5, ANextInv DEF CbInv
  <1>7. StackOK' /\ LentOK'
    <2>1. op' # "free" /\ op' \in {"none", "get"}
      BY <1>2, <1>3 DEF Search, SearchEnd, SearchHit, SearchNext
    <2>2. StackOK'
      BY <1>1, <1>2, <1>4, <2>1 DEF CbInv, StackOK, FrameOK, Adds
    <2>3. LentOK'
      BY <1>1, <2>1 DEF LentOK
    <2> QED BY <2>2, <2>3
  <1>8. SweptOK'
    <2> ChainsLinked(ht, alive, older, key) /\ \A e \in alive : key[e] \in Key
      BY <1>2, Chains
    <2> alive \in SUBSET Entry
      BY <1>2, Chains
    <2>0. Len(stack') = 1
      BY <1>1 DEF CbInv, SweptOK
    <2>1. CASE Search
      <3>1. PICK q \in Key : /\ k' = q /\ bkt' = BucketOf(q) /\ cur' = ht.link[BucketOf(q)]
                             /\ BucketOf(q) \in Bucket
        BY <2>1, BucketOfType DEF Search
      <3>2. Behind(alive, older, key, bkt') = {y \in alive : BucketOf(key[y]) = bkt'}
        BY <3>1, BehindBucket
      <3>3. /\ cur' # NULL => cur' \in Behind(alive, older, key, bkt')
            /\ cur' = NULL => Behind(alive, older, key, bkt') = {}
            /\ \A y \in Behind(alive, older, key, bkt') \ {cur'} : y \in older[cur']
        BY <3>1 DEF ChainsLinked
      <3>4. pc' = "search" /\ op' = "get"
        BY <1>2, <1>3, <2>1 DEF Search, SearchEnd, SearchHit, SearchNext
      <3> QED BY <1>4, <2>0, <3>1, <3>2, <3>3, <3>4 DEF SweptOK
    <2>2. CASE SearchEnd \/ SearchHit
      BY <1>1, <1>4, <2>0, <2>2 DEF SearchEnd, SearchHit, CbInv, SweptOK
    <2>3. CASE SearchNext
      <3>1. /\ cur \in alive /\ cur' = ht.link[cur] /\ key[cur] # k
            /\ bkt = BucketOf(k) /\ BucketOf(key[cur]) = bkt
            /\ pc' = "search" /\ op' = op /\ k' = k /\ bkt' = bkt /\ op = "get" /\ k \in Key
            /\ \A y \in alive : key[y] = k => y = cur \/ y \in older[cur]
        <4>1. KeyMatches(k, k) = {TRUE}
          BY DEF KeyMatches
        <4> QED BY <2>3, <4>1 DEF SearchNext, chain_next, CbInv, SweptOK
      <3>2. Behind(alive, older, key, cur)
              = {y \in older[cur] : BucketOf(key[y]) = BucketOf(key[cur])}
        BY <3>1, BehindEntry
      <3>3. /\ cur' # NULL => cur' \in Behind(alive, older, key, cur) /\ cur' \in alive
            /\ cur' = NULL => Behind(alive, older, key, cur) = {}
            /\ \A y \in Behind(alive, older, key, cur) \ {cur'} : y \in older[cur']
        BY <3>1 DEF ChainsLinked
      <3>4. ASSUME NEW y \in alive, key[y] = k
            PROVE  y \in Behind(alive, older, key, cur)
        BY <3>1, <3>2, <3>4
      <3> QED BY <1>4, <2>0, <3>1, <3>2, <3>3, <3>4 DEF SweptOK
    <2> QED BY <1>3, <2>1, <2>2, <2>3
  <1> QED BY <1>6, <1>7, <1>8 DEF CbInv

-----------------------------------------------------------------------------
(* A call starts to wait, and goes on. *)

\* The callback makes its call: the entry, the data and the count of the one that
\* waits leave what the array sees.
LEMMA EnterStep ==
    ASSUME CbInv, Enter
    PROVE  CbInv'
  <1> USE DEF heap, fields, links, history
  <1>0. /\ pc \in {"free_entry", "fill_entry", "clear_entry"} /\ ~Swept
        /\ stack' = Append(stack, Frame) /\ stack \in Seq(FrameType)
        /\ pc' = "idle" /\ op' = "none" /\ k' = NULL /\ d' = NULL
        /\ bkt' = 0 /\ cur' = NULL /\ tmp' = NULL
        /\ UNCHANGED <<arr, blocks, mem, held, key, data, ht, list, size, alive, older, ret>>
    BY DEF Enter, CbInv, SweptOK, StackOK
  <1> DEFINE n == Len(stack) + 1
  <1>1. /\ Seen.pc = pc /\ Seen.op = op /\ Seen.k = k /\ Seen.d = d /\ Seen.bkt = bkt
        /\ Seen.cur = cur /\ Seen.tmp = tmp /\ Lent = DOMAIN stack
        /\ (IF Swept THEN NULL ELSE ret) = ret
    BY <1>0, Unswept
  <1>2. /\ Frame \in FrameType /\ FrameOK(Frame) /\ arr # NULL
    <2>1. /\ arr # NULL /\ cur \in Entry /\ tmp \in Entry \cup {NULL} /\ bkt \in Bucket
          /\ k \in Key \cup {NULL} /\ d \in Data \cup {NULL}
      BY <1>0, <1>1, SameConstants
         DEF CbInv, A!IndInv, A!TypeOK, A!HeapExact, A!InFlight, A!ArrayOK
    <2>2. /\ pc = "free_entry" => op \in {"del", "replace", "del_first", "del_last"}
          /\ pc = "fill_entry" => op \in {"add", "replace"}
          /\ pc = "clear_entry" => op = "free"
          /\ op \in {"del", "add", "replace"} => k \in Key
          /\ op \in {"add", "replace"} => d \in Data \ held
      BY <1>0, <1>1 DEF CbInv, A!IndInv, A!CallOK, A!Clearing, LentOK
    <2> QED BY <1>0, <2>1, <2>2 DEF Frame, FrameType, FrameOK, Adds
  <1>3. /\ stack' \in Seq(FrameType) /\ DOMAIN stack' = DOMAIN stack \cup {n} /\ n \notin DOMAIN stack
        /\ stack'[n] = Frame /\ \A i \in DOMAIN stack : stack'[i] = stack[i]
        /\ Len(stack) \in Nat /\ DOMAIN stack = 1 .. Len(stack)
    BY <1>0, <1>2, Pushed
  <1>4. /\ cur \in mem /\ cur \notin alive /\ \A i \in DOMAIN stack : stack[i].cur # cur
        /\ pc # "fill_entry" => data[cur] \in held /\ \A i \in LentFilled : data[stack[i].cur] # data[cur]
    <2>1. /\ cur \in Mem /\ cur \notin alive /\ (pc # "fill_entry" => data[cur] \in Held)
      BY <1>0, <1>1
         DEF CbInv, A!IndInv, A!HeapExact, A!DataHeldOnce, A!InFlight, A!Filled
    <2> QED BY <1>1, <2>1 DEF Mem, Held
  <1>5. StackOK'
    <2>1. ASSUME NEW i \in DOMAIN stack' PROVE FrameOK(stack[i])'
      <3>1. FrameOK(Frame) /\ \A j \in DOMAIN stack : FrameOK(stack[j])
        BY <1>2 DEF CbInv, StackOK
      <3> QED BY <1>0, <1>3, <2>1, <3>1 DEF FrameOK, Adds
    <2>2. \A i \in DOMAIN stack : Adds(stack[i]) /\ Adds(Frame) => stack[i].d # Frame.d
      BY <1>0 DEF CbInv, LentOK, Frame, Adds
    <2>3. Frame.cur = cur
      BY DEF Frame
    <2>4. \A i, j \in DOMAIN stack' :
             i # j => /\ stack'[i].cur # stack'[j].cur
                      /\ Adds(stack'[i]) /\ Adds(stack'[j]) => stack'[i].d # stack'[j].d
      BY <1>3, <1>4, <2>2, <2>3 DEF CbInv, StackOK
    <2> QED BY <1>0, <1>2, <1>3, <2>1, <2>4 DEF CbInv, StackOK, Adds
  <1>6. CASE pc = "clear_entry"
    <2>1. stack = <<>>
      BY <1>1, <1>6 DEF CbInv, A!IndInv, A!CallOK, A!Clearing, StackOK
    <2>2. DOMAIN stack = {} /\ n = 1 /\ LentFilled = {} /\ Lent = {}
      BY <1>1, <2>1 DEF LentFilled
    <2>3. Swept' /\ Seen' = Frame /\ Lent' = {} /\ LentFilled' = {}
      BY <1>3, <1>6, <2>2 DEF Swept, Seen, Lent, LentFilled, Frame
    <2>4. /\ Seen'.pc = Seen.pc /\ Seen'.op = Seen.op /\ Seen'.k = Seen.k /\ Seen'.d = Seen.d
          /\ Seen'.bkt = Seen.bkt /\ Seen'.cur = Seen.cur /\ Seen'.tmp = Seen.tmp
          /\ Mem' = Mem /\ Held' = Held /\ Size' = Size
      BY <1>0, <1>1, <2>2, <2>3 DEF Frame, Mem, Held, Size
    <2>5. A!IndInv'
      <3>1. A!TypeOK'
        BY <1>0, <2>3, <2>4 DEF CbInv, A!IndInv, A!TypeOK
      <3>2. (A!Ordered(alive, older) /\ A!RingInOrder /\ A!ChainsNewestFirst /\ A!SizeExact)'
        BY <1>0, <2>4 DEF CbInv, A!IndInv, A!RingInOrder, A!ChainsNewestFirst, A!SizeExact, A!Clearing
      <3>3. (A!HeapExact /\ A!DataHeldOnce)'
        BY <1>0, <2>4 DEF CbInv, A!IndInv, A!HeapExact, A!DataHeldOnce, A!InFlight, A!Filled
      <3>4. (A!CallOK /\ A!ArrayOK)'
        BY <1>0, <2>4 DEF CbInv, A!IndInv, A!CallOK, A!ArrayOK, A!Clearing
      <3>5. (A!SearchOK /\ A!ClearOK)'
        BY <1>0, <1>1, <1>6, <2>4 DEF CbInv, A!IndInv, A!SearchOK, A!ClearOK, A!Clearing
      <3> QED BY <3>1, <3>2, <3>3, <3>4, <3>5 DEF A!IndInv
    <2>6. LentOK' /\ SweptOK'
      BY <1>0, <1>3, <2>2, <2>3 DEF LentOK, SweptOK
    <2> QED BY <1>5, <2>5, <2>6 DEF CbInv
  <1>7. CASE pc # "clear_entry"
    <2>1. ~Swept' /\ Frame.pc = pc /\ Frame.cur = cur
      BY <1>0, <1>3, <1>7 DEF Swept, Frame
    <2>2. /\ Seen'.pc = "idle" /\ Seen'.op = "none" /\ Seen'.k = NULL /\ Seen'.d = NULL /\ Seen'.bkt = 0
          /\ Seen'.cur = NULL /\ Seen'.tmp = NULL /\ (IF Swept' THEN NULL ELSE ret') = ret
          /\ Lent' = Lent \cup {n}
      BY <1>0, <1>1, <1>3, <2>1, UnsweptNext
    <2>3. LentFilled' = LentFilled \cup (IF pc = "free_entry" THEN {n} ELSE {}) /\ n \notin LentFilled
      BY <1>1, <1>3, <2>1, <2>2 DEF LentFilled
    <2>4. Mem' = Mem \ {cur} /\ cur \in Mem
      BY <1>0, <1>1, <1>3, <1>4, <2>1, <2>2 DEF Mem
    <2>5. Held' = Held \ (IF pc = "free_entry" THEN {data[cur]} ELSE {})
      <3> DEFINE L == {data[stack[i].cur] : i \in LentFilled}
      <3>1. \A i \in LentFilled : stack'[i] = stack[i]
        BY <1>3, <1>1 DEF LentFilled
      <3>2. L' = L \cup (IF pc = "free_entry" THEN {data[cur]} ELSE {})
        <4>1. /\ \A x : x \in L <=> \E i \in LentFilled : x = data[stack[i].cur]
              /\ \A x : x \in L' <=> \E i \in LentFilled' : x = data'[stack'[i].cur]
          OBVIOUS
        <4>2. data' = data /\ data[stack'[n].cur] = data[cur]
          BY <1>0, <1>3, <2>1
        <4> HIDE DEF L
        <4>3. CASE pc = "free_entry"
          <5>1. LentFilled' = LentFilled \cup {n}
            BY <2>3, <4>3
          <5>2. \A x : x \in L' <=> x \in L \/ x = data[cur]
            BY <3>1, <4>1, <4>2, <5>1
          <5> QED BY <4>3, <5>2
        <4>4. CASE pc # "free_entry"
          <5>1. LentFilled' = LentFilled
            BY <2>3, <4>4
          <5>2. \A x : x \in L' <=> x \in L
            BY <3>1, <4>1, <4>2, <5>1
          <5> QED BY <4>4, <5>2
        <4> QED BY <4>3, <4>4
      <3>3. Held = held \ L /\ Held' = held \ L'
        BY <1>0 DEF Held
      <3> HIDE DEF L
      <3> QED BY <3>2, <3>3
    <2>6. Size' = Size - (IF pc = "free_entry" THEN 1 ELSE 0)
      <3>1. IsFiniteSet(LentFilled) /\ Cardinality(LentFilled) \in Nat /\ size \in Int
        BY LentFinite DEF CbInv, StackOK
      <3>2. pc = "free_entry" => Cardinality(LentFilled') = Cardinality(LentFilled) + 1
        BY <2>3, <3>1, FS_AddElement
      <3>3. pc # "free_entry" => Cardinality(LentFilled') = Cardinality(LentFilled)
        BY <2>3
      <3> QED BY <1>0, <3>1, <3>2, <3>3 DEF Size
    <2>7. A!IndInv'
      <3>0. pc \in {"free_entry", "fill_entry"} /\ Cardinality(alive) \in Nat
        BY <1>0, <1>7, FS_CardinalityType, SameConstants DEF CbInv, A!IndInv, A!ArrayOK
      <3>a. Size = Cardinality(alive) + (IF pc = "free_entry" THEN 1 ELSE 0)
        BY <1>0, <1>1, <1>2, <3>0, SameConstants DEF CbInv, A!IndInv, A!SizeExact, A!Clearing
      <3>1. A!TypeOK'
        <4>1. Mem' \subseteq Entry /\ Held' \subseteq Data /\ alive' \subseteq Mem' /\ Size' \in Nat
          BY <1>0, <1>4, <2>4, <2>5, <2>6, <3>0, <3>a DEF CbInv, A!IndInv, A!TypeOK
        <4> QED BY <1>0, <1>1, <2>2, <4>1, BucketRange, SameConstants DEF CbInv, A!IndInv, A!TypeOK
      <3>2. (A!Ordered(alive, older) /\ A!RingInOrder /\ A!ChainsNewestFirst)'
        BY <1>0, <1>1, <3>0 DEF CbInv, A!IndInv, A!RingInOrder, A!ChainsNewestFirst, A!Clearing
      <3>3. A!SizeExact'
        BY <1>0, <2>2, <2>6, <3>0, <3>a, SameConstants DEF A!SizeExact
      <3>4. (A!HeapExact /\ A!DataHeldOnce)'
        BY <1>0, <1>1, <1>4, <2>2, <2>4, <2>5, <3>0
           DEF CbInv, A!IndInv, A!HeapExact, A!DataHeldOnce, A!InFlight, A!Filled
      <3>5. (A!CallOK /\ A!ArrayOK)'
        BY <1>0, <1>2, <2>2 DEF CbInv, A!IndInv, A!CallOK, A!ArrayOK, A!Clearing
      <3>6. (A!SearchOK /\ A!ClearOK)'
        BY <2>2 DEF A!SearchOK, A!ClearOK, A!Clearing
      <3> QED BY <3>1, <3>2, <3>3, <3>4, <3>5, <3>6 DEF A!IndInv
    <2>8. LentOK'
      BY <1>0, <1>1, <1>3, <1>4, <2>1, <2>2, <2>3 DEF CbInv, LentOK, LentFilled
    <2>9. SweptOK'
      BY <2>1 DEF SweptOK
    <2> QED BY <1>5, <2>7, <2>8, <2>9 DEF CbInv
  <1> QED BY <1>6, <1>7

LEMMA LeaveStep ==
    ASSUME CbInv, RetOK, Leave
    PROVE  CbInv'
  <1> USE DEF heap, fields, links, history
  <1> DEFINE n == Len(stack)
             f == stack[n]
  <1>0. /\ pc = "idle" /\ stack # <<>> /\ stack \in Seq(FrameType) /\ n \in DOMAIN stack
        /\ stack' = Front(stack) /\ arr # NULL
        /\ pc' = f.pc /\ op' = f.op /\ k' = f.k /\ d' = f.d
        /\ bkt' = f.bkt /\ cur' = f.cur /\ tmp' = f.tmp
        /\ UNCHANGED <<arr, blocks, mem, held, key, data, ht, list, size, alive, older, ret>>
    BY FramePopped DEF Leave, CbInv, StackOK
  <1>1. /\ stack' \in Seq(FrameType) /\ DOMAIN stack' = DOMAIN stack \ {n}
        /\ \A i \in DOMAIN stack' : stack'[i] = stack[i]
    BY <1>0, FramePopped
  <1>2. f \in FrameType /\ FrameOK(f)
    BY <1>0 DEF CbInv, StackOK
  <1>3. /\ \A i \in DOMAIN stack' : FrameOK(stack[i]) /\ stack[i].cur # f.cur
        /\ \A i \in DOMAIN stack' : Adds(f) /\ Adds(stack[i]) => stack[i].d # f.d
    BY <1>0, <1>1 DEF CbInv, StackOK
  <1>4. StackOK'
    <2>1. ASSUME NEW i \in DOMAIN stack' PROVE FrameOK(stack[i])'
      BY <1>0, <1>1, <1>3, <2>1 DEF FrameOK, Adds
    <2>2. \A i, j \in DOMAIN stack' :
             i # j => /\ stack'[i].cur # stack'[j].cur
                      /\ Adds(stack'[i]) /\ Adds(stack'[j]) => stack'[i].d # stack'[j].d
      BY <1>1 DEF CbInv, StackOK
    <2>3. stack' # <<>> => op' # "free"
      <3>1. CASE Swept
        <4>1. DOMAIN stack = {n}
          BY <3>1, <1>0 DEF CbInv, SweptOK
        <4>2. DOMAIN stack' = {}
          BY <1>1, <4>1
        <4>3. stack' = <<>>
          BY <1>1, <4>2, NoneLeft
        <4> QED BY <4>3
      <3>2. CASE ~Swept
        BY <1>0, <1>2, <3>2 DEF Swept, FrameOK
      <3> QED BY <3>1, <3>2
    <2> QED BY <1>0, <1>1, <2>1, <2>2, <2>3 DEF CbInv, StackOK, Adds
  <1>5. CASE Swept
    <2>1. n = 1 /\ DOMAIN stack = {1} /\ f.pc = "clear_entry"
      BY <1>0, <1>5 DEF CbInv, SweptOK, Swept
    <2>2. DOMAIN stack' = {} /\ ~Swept' /\ Seen = f /\ Lent = {} /\ LentFilled = {}
      BY <1>1, <1>5, <2>1 DEF Swept, Seen, Lent, LentFilled
    <2>3. Lent' = {} /\ LentFilled' = {}
      BY <2>2, UnsweptNext DEF LentFilled
    <2>4. /\ Seen'.pc = Seen.pc /\ Seen'.op = Seen.op /\ Seen'.k = Seen.k /\ Seen'.d = Seen.d
          /\ Seen'.bkt = Seen.bkt /\ Seen'.cur = Seen.cur /\ Seen'.tmp = Seen.tmp
          /\ Mem' = Mem /\ Held' = Held /\ Size' = Size
          /\ (IF Swept' THEN NULL ELSE ret') = ret
      <3>1. Mem' = Mem /\ Held' = Held /\ Size' = Size
        BY <1>0, <2>2, <2>3 DEF Mem, Held, Size
      <3> QED BY <1>0, <2>2, <3>1, UnsweptNext
    <2>5. A!IndInv'
      <3>1. A!TypeOK'
        BY <1>0, <2>4, SameConstants DEF RetOK, CbInv, A!IndInv, A!TypeOK, EINVAL, A!EINVAL
      <3>2. (A!Ordered(alive, older) /\ A!RingInOrder /\ A!ChainsNewestFirst /\ A!SizeExact)'
        BY <1>0, <2>4 DEF CbInv, A!IndInv, A!RingInOrder, A!ChainsNewestFirst, A!SizeExact, A!Clearing
      <3>3. (A!HeapExact /\ A!DataHeldOnce)'
        BY <1>0, <2>4 DEF CbInv, A!IndInv, A!HeapExact, A!DataHeldOnce, A!InFlight, A!Filled
      <3>4. (A!CallOK /\ A!ArrayOK)'
        BY <1>0, <2>4 DEF CbInv, A!IndInv, A!CallOK, A!ArrayOK, A!Clearing
      <3>5. (A!SearchOK /\ A!ClearOK)'
        BY <1>0, <2>1, <2>2, <2>4 DEF CbInv, A!IndInv, A!SearchOK, A!ClearOK, A!Clearing
      <3> QED BY <3>1, <3>2, <3>3, <3>4, <3>5 DEF A!IndInv
    <2>6. LentOK'
      <3>1. op' = "free"
        BY <1>0, <1>2, <2>1 DEF FrameOK
      <3> QED BY <2>3, <3>1 DEF LentOK
    <2>7. SweptOK'
      BY <2>2 DEF SweptOK
    <2> QED BY <1>4, <2>5, <2>6, <2>7 DEF CbInv
  <1>6. CASE ~Swept
    <2>1. f.pc \in {"free_entry", "fill_entry"} /\ ~Swept'
      BY <1>0, <1>1, <1>2, <1>6 DEF Swept, FrameType
    <2>2. /\ Seen.pc = "idle" /\ Lent = DOMAIN stack /\ Lent' = DOMAIN stack'
          /\ Seen'.pc = f.pc /\ Seen'.op = f.op /\ Seen'.k = f.k /\ Seen'.d = f.d /\ Seen'.bkt = f.bkt
          /\ Seen'.cur = f.cur /\ Seen'.tmp = f.tmp /\ (IF Swept' THEN NULL ELSE ret') = ret
          /\ (IF Swept THEN NULL ELSE ret) = ret
      BY <1>0, <1>6, <2>1, Unswept, UnsweptNext
    <2>3. LentFilled' = LentFilled \ {n} /\ (n \in LentFilled <=> f.pc = "free_entry")
      BY <1>0, <1>1, <2>2 DEF LentFilled
    <2>4. /\ f.cur \in mem /\ (f.pc = "free_entry" => data[f.cur] \in held)
          /\ \A i \in LentFilled' : f.pc = "free_entry" => data[stack[i].cur] # data[f.cur]
      BY <1>0, <2>2, <2>3 DEF CbInv, LentOK
    <2>5. Mem' = Mem \cup {f.cur} /\ f.cur \notin Mem
      BY <1>0, <1>1, <1>3, <2>2, <2>4 DEF Mem
    <2>6. /\ Held' = Held \cup (IF f.pc = "free_entry" THEN {data[f.cur]} ELSE {})
          /\ f.pc = "free_entry" => data[f.cur] \notin Held
      <3> DEFINE L == {data[stack[i].cur] : i \in LentFilled}
      <3>1. \A i \in LentFilled' : stack'[i] = stack[i]
        BY <1>1, <2>2, <2>3 DEF LentFilled
      <3>2. L' = {data[stack[i].cur] : i \in LentFilled'}
        BY <1>0, <3>1
      <3>3. L = L' \cup (IF f.pc = "free_entry" THEN {data[f.cur]} ELSE {})
        <4>1. /\ \A x : x \in L <=> \E i \in LentFilled : x = data[stack[i].cur]
              /\ \A x : x \in L' <=> \E i \in LentFilled' : x = data[stack[i].cur]
          BY <3>2
        <4>2. stack[n].cur = f.cur
          BY <1>1
        <4> HIDE DEF L
        <4>3. CASE f.pc = "free_entry"
          <5>1. LentFilled = LentFilled' \cup {n}
            BY <2>3, <4>3
          <5>2. \A x : x \in L <=> x \in L' \/ x = data[f.cur]
            BY <4>1, <4>2, <5>1
          <5> QED BY <4>3, <5>2
        <4>4. CASE f.pc # "free_entry"
          <5>1. LentFilled = LentFilled'
            BY <2>3, <4>4
          <5>2. \A x : x \in L <=> x \in L'
            BY <4>1, <5>1
          <5> QED BY <4>4, <5>2
        <4> QED BY <4>3, <4>4
      <3>4. f.pc = "free_entry" => data[f.cur] \notin L'
        BY <2>4, <3>2
      <3>5. Held = held \ L /\ Held' = held \ L'
        BY <1>0 DEF Held
      <3> HIDE DEF L
      <3> QED BY <2>4, <3>3, <3>4, <3>5
    <2>7. Size' = Size + (IF f.pc = "free_entry" THEN 1 ELSE 0)
      <3>1. IsFiniteSet(LentFilled) /\ Cardinality(LentFilled) \in Nat /\ size \in Int
        BY LentFinite DEF CbInv, StackOK
      <3>2. f.pc = "free_entry" => Cardinality(LentFilled') = Cardinality(LentFilled) - 1
        BY <2>3, <3>1, FS_RemoveElement
      <3>3. f.pc # "free_entry" => LentFilled' = LentFilled
        BY <2>3
      <3>4. f.pc # "free_entry" => Cardinality(LentFilled') = Cardinality(LentFilled)
        BY <3>3
      <3> QED BY <1>0, <3>1, <3>2, <3>4 DEF Size
    <2>8. A!IndInv'
      <3>0. Cardinality(alive) \in Nat
        BY FS_CardinalityType, SameConstants DEF CbInv, A!IndInv, A!ArrayOK
      <3>a. Size = Cardinality(alive)
        <4>1. Size = Cardinality(alive) + 0
          BY <1>0, <2>2, SameConstants DEF CbInv, A!IndInv, A!SizeExact, A!Clearing
        <4> QED BY <3>0, <4>1
      <3>1. A!TypeOK'
        <4>1. Mem' \subseteq Entry /\ Held' \subseteq Data /\ alive' \subseteq Mem' /\ Size' \in Nat
          <5>1. Size' \in Nat
            BY <2>7, <3>0, <3>a
          <5>2. /\ Mem \subseteq Entry /\ alive \subseteq Mem /\ Held \subseteq Data
                /\ mem \subseteq Entry /\ held \subseteq Data
            BY DEF CbInv, A!IndInv, A!TypeOK, StackOK
          <5>3. Mem' \subseteq Entry /\ alive' \subseteq Mem'
            BY <1>0, <2>4, <2>5, <5>2
          <5>4. Held' \subseteq Data
            BY <2>4, <2>6, <5>2
          <5> QED BY <5>1, <5>3, <5>4
        <4> QED BY <1>0, <1>2, <2>1, <2>2, <4>1, SameConstants DEF CbInv, A!IndInv, A!TypeOK, FrameType
      <3>2. (A!Ordered(alive, older) /\ A!RingInOrder /\ A!ChainsNewestFirst)'
        BY <1>0, <2>2 DEF CbInv, A!IndInv, A!RingInOrder, A!ChainsNewestFirst, A!Clearing
      <3>3. A!SizeExact'
        BY <1>0, <2>1, <2>2, <2>7, <3>0, <3>a, SameConstants DEF A!SizeExact
      <3>4. (A!HeapExact /\ A!DataHeldOnce)'
        BY <1>0, <2>1, <2>2, <2>5, <2>6
           DEF CbInv, A!IndInv, A!HeapExact, A!DataHeldOnce, A!InFlight, A!Filled
      <3>5. (A!CallOK /\ A!ArrayOK)'
        <4>1. Adds(f) => f.d \in Data \ Held'
          BY <1>0, <1>2 DEF FrameOK, Held
        <4> QED BY <1>0, <1>2, <2>1, <2>2, <4>1
                DEF CbInv, A!IndInv, A!CallOK, A!ArrayOK, A!Clearing, FrameOK, Adds
      <3>6. (A!SearchOK /\ A!ClearOK)'
        BY <2>1, <2>2 DEF A!SearchOK, A!ClearOK, A!Clearing
      <3> QED BY <3>1, <3>2, <3>3, <3>4, <3>5, <3>6 DEF A!IndInv
    <2>9. LentOK'
      <3>1. \A i \in LentFilled' : i \in LentFilled /\ i \in DOMAIN stack'
        BY <2>2, <2>3 DEF LentFilled
      <3>2. op' \in {"add", "replace"} => Adds(f) /\ d' \notin held'
        BY <1>0, <1>2 DEF FrameOK, Adds
      <3> QED BY <1>0, <1>1, <1>3, <2>1, <2>2, <3>1, <3>2 DEF CbInv, LentOK
    <2>10. SweptOK'
      BY <2>1 DEF SweptOK
    <2> QED BY <1>4, <2>8, <2>9, <2>10 DEF CbInv
  <1> QED BY <1>5, <1>6

\* While array_free waits, the only steps are those of a search.
LEMMA SweptSearch ==
    ASSUME CbInv, Swept, CbCalls \/ CbStep
    PROVE  (Search /\ op' = "get") \/ ((SearchEnd \/ SearchHit \/ SearchNext) /\ op = "get")
  <1>1. arr # NULL /\ pc \in {"idle", "search"} /\ (pc = "search" => op = "get")
    BY DEF CbInv, StackOK, SweptOK, Swept
  <1>2. CASE CbCalls
    <2>1. Freeing
      BY DEF Swept, Freeing, Waiting, ToSet
    <2> QED BY <1>1, <1>2, <2>1
            DEF CbCalls, Calls, Create, CallOnNull, GetEnd, Search, DelEnd, Add, Free, Call
  <1>3. CASE CbStep
    BY <1>1, <1>3 DEF CbStep, Step, CreateHt, CreateTable, Unlink, FreeEntry, Shrink, MallocEntry,
       FillEntry, LinkEntry, ClearUnlink, ClearEntry, ClearBucket, FreeArray,
       SearchEnd, SearchHit, SearchNext
  <1> QED BY <1>2, <1>3

\* What the last call returned keeps its type.
LEMMA RetStep ==
    ASSUME CbInv, RetOK, CbNext
    PROVE  RetOK'
  <1>1. CASE Enter \/ Leave
    BY <1>1 DEF Enter, Leave, RetOK
  <1>2. CASE (CbCalls \/ CbStep) /\ ~Swept
    <2>1. Working /\ Next
      BY <1>2 DEF Working, CbCalls, CbStep, Next
    <2>2. A!TypeOK' /\ (IF Swept' THEN NULL ELSE ret') = ret'
      BY <2>1, WorkingStep, Sees DEF A!IndInv
    <2> QED BY <2>2 DEF A!TypeOK, RetOK, EINVAL, A!EINVAL
  <1>3. CASE (CbCalls \/ CbStep) /\ Swept
    <2>1. pc = "search" => cur \in alive \cup {NULL}
      BY <1>3 DEF CbInv, SweptOK
    <2>2. alive \in SUBSET Entry
      BY <1>3, Chains DEF CbInv, StackOK, Swept
    <2> QED BY <1>3, <2>1, <2>2, SweptSearch
            DEF Search, SearchEnd, SearchHit, SearchNext, Call, Return, Goto, RetOK
  <1> QED BY <1>1, <1>2, <1>3 DEF CbNext

LEMMA CbNextInv == CbInv /\ RetOK /\ [CbNext]_cbVars => (CbInv /\ RetOK)'
  <1> SUFFICES ASSUME CbInv, RetOK, [CbNext]_cbVars PROVE (CbInv /\ RetOK)'
    OBVIOUS
  <1>1. CASE (CbCalls \/ CbStep) /\ ~Swept
    <2>1. Working /\ Next
      BY <1>1 DEF Working, CbCalls, CbStep, Next
    <2> QED BY <1>1, <2>1, WorkingStep, WaitersStay, RetStep DEF CbInv, CbNext
  <1>2. CASE (CbCalls \/ CbStep) /\ Swept
    BY <1>2, SweptStep, RetStep DEF CbNext
  <1>3. CASE Enter \/ Leave
    BY <1>3, EnterStep, LeaveStep, RetStep DEF CbNext
  <1>4. CASE UNCHANGED cbVars
    <2> USE <1>4 DEF cbVars, vars, heap, fields, links, call, cursor, history
    <2>1. Swept' = Swept /\ Seen' = Seen /\ Lent' = Lent
      BY DEF Swept, Seen, Frame, Lent
    <2>2. LentFilled' = LentFilled
      BY <2>1 DEF LentFilled
    <2>3. UNCHANGED <<Mem, Held, Size>>
      BY <2>1, <2>2 DEF Mem, Held, Size
    <2>4. UNCHANGED A!vars
      BY <2>1, <2>3 DEF A!vars, A!heap, A!fields, A!links, A!call, A!cursor, A!history
    <2>5. A!IndInv'
      BY <2>4, ANextInv DEF CbInv
    <2>6. StackOK'
      BY DEF CbInv, StackOK, FrameOK, Adds
    <2>7. LentOK'
      BY <2>1, <2>2 DEF CbInv, LentOK, Adds
    <2>8. SweptOK'
      BY <2>1 DEF CbInv, SweptOK
    <2> QED BY <2>5, <2>6, <2>7, <2>8 DEF CbInv, RetOK
  <1> QED BY <1>1, <1>2, <1>3, <1>4 DEF CbNext

LEMMA CbInvariance == CbSpec => [](CbInv /\ RetOK)
  <1>1. CbInit => RetOK
    BY DEF CbInit, Init, RetOK
  <1> QED BY <1>1, CbInitInv, CbNextInv, PTL DEF CbSpec

-----------------------------------------------------------------------------
(* What the invariant says of the array and the calls that wait. *)

\* The entries of the calls that wait.
Kept == {stack[i].cur : i \in DOMAIN stack}

\* The calls that wait and the one in progress, in terms of the stack.
LEMMA HoldingFrames ==
    ASSUME CbInv
    PROVE  /\ Waiting = {stack[i] : i \in DOMAIN stack}
           /\ {i \in DOMAIN stack : stack[i] \in Holding} = DOMAIN stack
           /\ Holding = Waiting \cup (IF Frame \in Holding THEN {Frame} ELSE {})
           /\ Frame \in Holding <=> pc \in {"fill_entry", "link", "free_entry", "clear_entry"}
           /\ \A i \in DOMAIN stack : stack[i] \in FrameType
           /\ Frame.pc = pc /\ Frame.cur = cur /\ Frame.tmp = tmp
  <1>1. Waiting = {stack[i] : i \in DOMAIN stack}
    BY DEF Waiting, ToSet
  <1>2. \A i \in DOMAIN stack : stack[i] \in FrameType
    BY DEF CbInv, StackOK
  <1>3. Frame.pc = pc /\ Frame.cur = cur /\ Frame.tmp = tmp
    BY DEF Frame
  <1>4. Waiting \subseteq Holding
    BY <1>1, <1>2 DEF Holding, Frames, FrameType
  <1>5. Holding = Waiting \cup (IF Frame \in Holding THEN {Frame} ELSE {})
    BY <1>4 DEF Holding, Frames
  <1>6. Frame \in Holding <=> pc \in {"fill_entry", "link", "free_entry", "clear_entry"}
    BY <1>3 DEF Holding, Frames
  <1>7. {i \in DOMAIN stack : stack[i] \in Holding} = DOMAIN stack
    BY <1>1, <1>4
  <1> QED BY <1>1, <1>2, <1>3, <1>5, <1>6, <1>7

\* The entries of the calls that wait are as many as the calls.
LEMMA KeptCounted ==
    ASSUME CbInv
    PROVE  IsFiniteSet(Kept) /\ Cardinality(Kept) = Cardinality(DOMAIN stack)
           /\ Cardinality(Kept) \in Nat
  <1> DEFINE entry == [i \in DOMAIN stack |-> stack[i].cur]
  <1>1. entry \in Bijection(DOMAIN stack, Kept)
    BY DEF CbInv, StackOK, Kept, Bijection, Injection, Surjection, IsInjective
  <1>2. IsFiniteSet(DOMAIN stack)
    BY LentFinite DEF CbInv
  <1>3. IsFiniteSet(Kept) /\ Cardinality(DOMAIN stack) = Cardinality(Kept)
    BY <1>1, <1>2, FS_Bijection DEF ExistsBijection
  <1> QED BY <1>3, FS_CardinalityType

\* The heap in terms of what waits, is in the array and is in the call's hands.
LEMMA HeapShared ==
    ASSUME CbInv
    PROVE  /\ mem = alive \cup Kept \cup (IF Frame \in Holding THEN {cur} ELSE {})
           /\ Kept \cap alive = {}
           /\ Frame \in Holding => cur \notin Kept \cup alive
  <1>1. Mem = alive \cup A!InFlight /\ alive \cap A!InFlight = {}
    BY DEF CbInv, A!IndInv, A!HeapExact
  <1>2. CASE ~Swept
    <2>1. Mem = mem \ Kept /\ Kept \subseteq mem
      BY <1>2, Unswept DEF Mem, Kept, CbInv, LentOK
    <2>2. A!InFlight = IF Frame \in Holding THEN {cur} ELSE {}
      BY <1>2, HoldingFrames, Unswept DEF A!InFlight
    <2> QED BY <1>1, <2>1, <2>2
  <1>3. CASE Swept
    <2>1. DOMAIN stack = {1} /\ stack[1].pc = "clear_entry" /\ Seen = stack[1] /\ Lent = {}
      BY <1>3 DEF CbInv, StackOK, SweptOK, Swept, Seen, Lent
    <2>2. Mem = mem /\ Kept = {stack[1].cur} /\ A!InFlight = Kept
      BY <2>1 DEF Mem, Kept, A!InFlight
    <2>3. Frame \notin Holding
      BY <1>3, HoldingFrames DEF CbInv, SweptOK
    <2> QED BY <1>1, <2>2, <2>3
  <1> QED BY <1>2, <1>3

\* A callback may call the array back from any depth of other calls: each call
\* that waits has its own entry, allocated and in no structure; nothing else is
\* out of the array; and array_free's saved successor is still an entry of the
\* array when its callback returns.
THEOREM CallbacksMemorySafe == CbSpec => []NestedHeapExact
  <1>1. CbInv => NestedHeapExact
    <2> SUFFICES ASSUME CbInv PROVE NestedHeapExact
      OBVIOUS
    <2>1. {f.cur : f \in Holding} = Kept \cup (IF Frame \in Holding THEN {cur} ELSE {})
      <3>1. {f.cur : f \in Waiting} = Kept
        BY HoldingFrames DEF Kept
      <3>2. CASE Frame \in Holding
        <4>1. Holding = Waiting \cup {Frame}
          BY <3>2, HoldingFrames
        <4> QED BY <3>1, <3>2, <4>1, HoldingFrames
      <3>3. CASE Frame \notin Holding
        <4>1. Holding = Waiting
          BY <3>3, HoldingFrames
        <4> QED BY <3>1, <3>3, <4>1
      <3> QED BY <3>2, <3>3
    <2>2. Cardinality({f.cur : f \in Holding}) =
            Cardinality(Kept) + (IF Frame \in Holding THEN 1 ELSE 0)
      <3>1. CASE Frame \in Holding
        <4>1. {f.cur : f \in Holding} = Kept \cup {cur} /\ cur \notin Kept
          BY <2>1, <3>1, HeapShared
        <4>2. Cardinality(Kept \cup {cur}) = Cardinality(Kept) + 1
          BY <4>1, KeptCounted, FS_AddElement
        <4> QED BY <3>1, <4>1, <4>2
      <3>2. CASE Frame \notin Holding
        <4>1. {f.cur : f \in Holding} = Kept
          BY <2>1, <3>2
        <4>2. Cardinality({f.cur : f \in Holding}) = Cardinality(Kept)
          BY <4>1
        <4> QED BY <3>2, <4>2, KeptCounted
      <3> QED BY <3>1, <3>2
    <2>3. Cardinality({i \in DOMAIN stack : stack[i] \in Holding}) = Cardinality(Kept)
      BY HoldingFrames, KeptCounted
    <2>4. \A f \in Holding : f.cur \notin alive
      <3>1. \A f \in Holding : f.cur \in Kept \cup (IF Frame \in Holding THEN {cur} ELSE {})
        BY <2>1
      <3> QED BY <3>1, HeapShared
    <2>5. ASSUME NEW f \in Frames, f.pc = "clear_entry" PROVE f.tmp \in alive \cup {NULL}
      <3>1. f = Seen
        <4>1. CASE Swept
          <5>1. DOMAIN stack = {1} /\ Seen = stack[1] /\ pc \in {"idle", "search"}
            BY <4>1 DEF CbInv, StackOK, SweptOK, Seen
          <5> QED BY <2>5, <5>1, HoldingFrames DEF Frames
        <4>2. CASE ~Swept
          BY <2>5, <4>2, HoldingFrames DEF Frames, Swept, Seen
        <4> QED BY <4>1, <4>2
      <3> QED BY <2>5, <3>1 DEF CbInv, A!IndInv, A!HeapExact
    <2> QED BY <2>1, <2>2, <2>3, <2>4, <2>5, HeapShared DEF NestedHeapExact
  <1> QED BY <1>1, CbInvariance, PTL

\* The array that the calls of a callback see is the one of the structures.
LEMMA StructuresShared ==
    ASSUME CbInv
    PROVE  /\ Freeing <=> Swept \/ Clearing
           /\ arr # NULL /\ ~Freeing => RingOf(list, alive, older)
           /\ ChainsNewestFirst
           /\ SizeAhead
  <1>1. Freeing <=> Swept \/ Clearing
    BY HoldingFrames DEF Freeing, Swept
  <1>2. ASSUME arr # NULL, ~Freeing
        PROVE  RingOf(list, alive, older) /\ SizeAhead
    <2>1. ~Swept /\ ~Clearing
      BY <1>1, <1>2
    <2>2. Seen.pc = pc /\ Lent = DOMAIN stack /\ ~A!Clearing
      BY <2>1, Unswept DEF Clearing, A!Clearing
    <2>3. RingOf(list, alive, older)
      <3>1. A!RingOf(list, alive, older)
        BY <1>2, <2>2 DEF CbInv, A!IndInv, A!RingInOrder
      <3> QED BY <3>1 DEF RingOf, After, A!RingOf, A!After
    <2>4. Size = Cardinality(alive) + (IF pc \in {"free_entry", "shrink"} THEN 1 ELSE 0)
      BY <1>2, <2>2, SameConstants DEF CbInv, A!IndInv, A!SizeExact
    <2>5. /\ size = Size + Cardinality(LentFilled) /\ Size \in Int /\ Cardinality(LentFilled) \in Nat
          /\ Cardinality(alive) \in Nat
      <3>1. size \in Int /\ Cardinality(LentFilled) \in Nat
        BY LentFinite DEF CbInv, StackOK
      <3>2. Cardinality(alive) \in Nat
        BY FS_CardinalityType, SameConstants DEF CbInv, A!IndInv, A!ArrayOK
      <3> QED BY <3>1, <3>2 DEF Size
    <2>6. LentFilled = {i \in DOMAIN stack : stack[i].pc = "free_entry"}
      BY <2>2 DEF LentFilled
    <2> QED BY <2>3, <2>4, <2>5, <2>6 DEF SizeAhead
  <1>3. ChainsNewestFirst
    BY Chains DEF ChainsNewestFirst
  <1> QED BY <1>1, <1>2, <1>3 DEF SizeAhead

LEMMA DataShared ==
    ASSUME CbInv
    PROVE  held = {data[e] : e \in alive}
                    \cup {data[f.cur] : f \in {g \in Holding : g.pc # "fill_entry"}}
  <1> DEFINE D == {data[f.cur] : f \in {g \in Holding : g.pc # "fill_entry"}}
             W == {data[f.cur] : f \in {g \in Waiting : g.pc # "fill_entry"}}
  <1>1. Held = {data[e] : e \in A!Filled}
    BY DEF CbInv, A!IndInv, A!DataHeldOnce
  <1>2. D = W \cup (IF pc \in {"link", "free_entry", "clear_entry"} THEN {data[cur]} ELSE {})
    <2>1. CASE pc \in {"link", "free_entry", "clear_entry"}
      <3>1. {g \in Holding : g.pc # "fill_entry"} = {g \in Waiting : g.pc # "fill_entry"} \cup {Frame}
        BY <2>1, HoldingFrames
      <3> QED BY <2>1, <3>1, HoldingFrames
    <2>2. CASE pc \notin {"link", "free_entry", "clear_entry"}
      <3>1. {g \in Holding : g.pc # "fill_entry"} = {g \in Waiting : g.pc # "fill_entry"}
        BY <2>2, HoldingFrames
      <3> QED BY <2>2, <3>1
    <2> QED BY <2>1, <2>2
  <1>3. CASE ~Swept
    <2>1. \A i \in DOMAIN stack : stack[i].pc # "fill_entry" <=> stack[i].pc = "free_entry"
      BY <1>3, HoldingFrames DEF Swept, FrameType
    <2>2. W = {data[stack[i].cur] : i \in LentFilled}
      BY <1>3, <2>1, HoldingFrames, Unswept DEF LentFilled
    <2>3. W \subseteq held /\ Held = held \ W
      BY <2>2 DEF CbInv, LentOK, Held
    <2>4. Held = {data[e] : e \in alive}
                   \cup (IF pc \in {"link", "free_entry", "clear_entry"} THEN {data[cur]} ELSE {})
      BY <1>1, <1>3, Unswept DEF A!Filled
    <2> QED BY <1>2, <2>3, <2>4
  <1>4. CASE Swept
    <2>1. DOMAIN stack = {1} /\ stack[1].pc = "clear_entry" /\ Seen = stack[1] /\ Lent = {}
      BY <1>4 DEF CbInv, StackOK, SweptOK, Swept, Seen, Lent
    <2>2. pc \in {"idle", "search"}
      BY <1>4 DEF CbInv, SweptOK
    <2>3. Held = held /\ W = {data[stack[1].cur]}
      BY <2>1, HoldingFrames DEF Held, LentFilled
    <2>4. Held = {data[e] : e \in alive} \cup {data[stack[1].cur]}
      BY <1>1, <2>1 DEF A!Filled
    <2> QED BY <1>2, <2>2, <2>3, <2>4
  <1> QED BY <1>3, <1>4

\* A search that a callback makes, or that callbacks interrupt, misses no key.
LEMMA LookupKept == CbInv /\ LookupMissesNothing /\ [CbNext]_cbVars => LookupMissesNothing'
  <1> SUFFICES ASSUME CbInv, LookupMissesNothing, [CbNext]_cbVars,
                      pc' = "idle", k' # NULL, op' \in {"get", "del"}
               PROVE  LookupMissesNothing'
    BY DEF LookupMissesNothing
  <1> USE DEF Call, Return, Goto, heap, fields, links, call, cursor, history
  <1>1. CASE Enter
    BY <1>1 DEF Enter
  <1>2. CASE Leave
    <2>1. stack # <<>> /\ stack \in Seq(FrameType) /\ pc' = Last(stack).pc
      BY <1>2 DEF Leave, CbInv, StackOK
    <2>2. Last(stack) \in FrameType
      <3>1. Len(stack) \in DOMAIN stack /\ Last(stack) = stack[Len(stack)]
        BY <2>1, FramePopped
      <3>2. \A i \in DOMAIN stack : stack[i] \in FrameType
        BY <2>1
      <3> QED BY <3>1, <3>2
    <2> QED BY <2>1, <2>2 DEF FrameType
  <1>3. CASE UNCHANGED cbVars
    BY <1>3 DEF cbVars, vars, LookupMissesNothing, NotOlderThanAny
  <1>4. ASSUME CbCalls \/ CbStep
        PROVE  /\ pc = "search" =>
                     /\ cur # NULL => cur \in alive
                     /\ \A y \in alive : key[y] = k => cur # NULL /\ (y = cur \/ y \in older[cur])
               /\ ~Swept => /\ pc \in {"create_ht", "create_table"} => op = "create"
                            /\ pc = "shrink" => op \in {"del", "replace", "del_first", "del_last"}
                            /\ pc \in {"malloc_entry", "fill_entry", "link"} => op \in {"add", "replace"}
                            /\ pc \in {"clear", "clear_entry"} => op = "free"
               /\ Swept => Search \/ SearchEnd \/ SearchHit \/ SearchNext
    <2>1. CASE Swept
      BY <1>4, <2>1, SweptSearch DEF CbInv, SweptOK
    <2>2. CASE ~Swept
      BY <2>2, Unswept DEF CbInv, A!IndInv, A!SearchOK, A!CallOK, A!Clearing
    <2> QED BY <2>1, <2>2
  <1>5. CASE (CbCalls \/ CbStep) /\ SearchEnd
    <2>1. \A y \in alive : key[y] # k
      BY <1>4, <1>5 DEF SearchEnd
    <2> QED BY <1>5, <2>1 DEF SearchEnd, LookupMissesNothing
  <1>6. CASE (CbCalls \/ CbStep) /\ SearchHit
    <2>1. cur \in alive /\ TRUE \in KeyMatches(key[cur], k) /\ NotOlderThanAny(cur, k)
      BY <1>4, <1>6 DEF SearchHit, NotOlderThanAny
    <2> QED BY <1>6, <2>1 DEF SearchHit, LookupMissesNothing, NotOlderThanAny
  <1>7. CASE (CbCalls \/ CbStep) /\ ~SearchEnd /\ ~SearchHit
    <2>1. CASE Search \/ SearchNext \/ Add \/ Free \/ Unlink \/ FreeEntry
                 \/ ClearUnlink \/ ClearEntry \/ ClearBucket
      BY <2>1 DEF Search, Add, Free, SearchNext, Unlink, FreeEntry, ClearUnlink,
                  ClearEntry, ClearBucket
    <2>2. CASE Create \/ CallOnNull \/ GetEnd \/ DelEnd
      BY <2>2 DEF Create, CallOnNull, GetEnd, DelEnd
    <2>3. CASE Shrink /\ ~Swept
      <3>1. op' = op /\ op' # "get"
        BY <1>4, <1>7, <2>3 DEF Shrink
      <3>2. ret' = 0
        BY <2>3 DEF Shrink
      <3>3. ret' # 1
        BY <3>2, SMT
      <3> QED BY <3>1, <3>3 DEF LookupMissesNothing
    <2>4. CASE (CreateHt \/ CreateTable \/ MallocEntry \/ FillEntry \/ LinkEntry \/ FreeArray) /\ ~Swept
      BY <1>4, <1>7, <2>4
         DEF CreateHt, CreateTable, EmptyArray, MallocEntry, FillEntry, LinkEntry, FreeArray
    <2> QED BY <1>4, <1>7, <2>1, <2>2, <2>3, <2>4 DEF CbCalls, CbStep, Calls, Step
  <1> QED BY <1>1, <1>2, <1>3, <1>5, <1>6, <1>7 DEF CbNext

\* Whatever the callbacks call, and however deep, the ring and the chains stay
\* whole with the entries in order, the counter is ahead by one for each call that
\* waits in free_entry, no search misses a key, and data belongs to one entry.
THEOREM CallbacksKeepStructures == CbSpec => []NestedStructures
  <1>1. CbInit => LookupMissesNothing
    BY DEF CbInit, Init, LookupMissesNothing
  <1>2. CbInv /\ LookupMissesNothing => NestedStructures
    BY StructuresShared, DataShared DEF NestedStructures
  <1> QED BY <1>1, <1>2, CbInvariance, LookupKept, PTL DEF CbSpec

==============================================================================
