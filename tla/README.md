# A verification of the kernel-style hash table library

This directory holds TLA+ specifications of the library in `src/`: an
insertion-ordered associative array (`assoc_array.c`) built from a chained hash
table (`hashtable.h`, `hashtable.c`) and the lists of `list.h`, a deque
(`deque.c`), a leak detector (`leak_detector_c.c`), hash functions and logarithms
(`hash.h`, `log2.h`), an example program (`main.c`), and the test framework that is
kept with them (`unity/`). TLC checks them on small instances. TLAPS proves, for every
instance, the invariants of the array, of the callbacks that call it again, of the lists, of
the example program, of the deque, of the leak detector and of Unity's runners, and that
array and deque implement their abstract specifications.

- [Inventory](#inventory): the parts of the system and what makes each correct
- [Modules](#modules): which module models which part, and how
- [Runs](#runs), [bounds](#bounds) and [fairness](#fairness)
- [Proofs](#proofs)
- [What the checks found](#what-the-checks-found)
- [What is not modelled](#what-is-not-modelled)
- [Plan](#plan)

## Inventory

The library runs in one thread; there are no locks, messages or persistence. What
makes the code hard is that two pointer structures and a counter have to stay in
agreement across allocation failures, callbacks that call back, address reuse, and
a macro that walks a structure while it takes it apart. The one place that speaks
of a second thread is `k_list_empty_careful` (`list.h:207`).

| part | state | operations | correct when |
|---|---|---|---|
| **assoc_array** (`assoc_array.c`) | `arr->ht`, `arr->list`, `arr->size`; per entry `key`, `data`, `hnode`, `lnode` | create, free, add, add_replace, del, del_first/last, get_by_key, get_first/last, collision percent | ring, chains and counter hold the same entries at all times; a lookup finds the newest entry of a key; a failed call loses nothing and leaks nothing |
| **hashtable** (`hashtable.h`, `hashtable.c`) | `table[1 << bits]` of `hlist_head` | `ht_create`, `calc_bkt`, `hashtable_add`, `hash_del`, the `HT_FREE` family, counting macros | an entry is in the chain of its key's bucket and nowhere else |
| **list.h**, ring | `next`, `prev` | init, add, del, replace, move, rotate, cut, splice, range deletion; iterators | forwards and backwards a ring is the sequence that the calls say; a loop safe against removal meets what is left |
| **list.h**, hlist | `first`/`next`, `pprev` | add_head, add_before, add_behind, add_fake, del, del_init, move_list; loops over a table | `*pprev` is the node itself, and a chain the sequence that the calls say |
| **deque** (`deque.c`) | a ring and `size` | create, push/pop/get at both ends, free | it is a sequence; `size` is its length; a popped entry is the caller's |
| **leak detector** (`leak_detector_c.c`) | a ring of its own with a static head, a flag | xmalloc, xcalloc, xrealloc, xfree, report | the ring is what was allocated and not freed; the report lists it |
| **hash.h**, **log2.h** | none | hash functions, integer logarithms | the shortcuts compute the formulas of their comments; which bytes of a key choose its bucket |
| **replaceable allocator** (`mock_mem_functions.c`) | three function pointers | `set_memory_functions` | - |
| **example program** (`main.c`) | an array and its nodes | fills an array of `2^bits * density` nodes with its own callbacks | every node is in the array or freed, and no key outlives its node |
| **Unity, assertions** (`unity.c`, `unity.h`, `unity_internals.h`) | none, or the message | integer, bit, float, string and memory assertions, some 450 macros | an assertion fails exactly when its values, in the type that its name says, break what its name says; where the code reads another type, which one |
| **Unity, runners** (`unity.c`, `unity_fixture.c`) | counters and flags of a test, options, pointers to put back | run, abort, ignore, tear down, conclude, repeat | one verdict for each test, the first; pointers as they were |
| **Unity, memory** (`unity_memory.c`) | a count of blocks, a countdown to a failure | malloc, realloc, free, start and end of a test | a leak fails its test, and only a leak |

How they meet:

- `assoc_array.c` embeds an `hlist_node` and a `k_list_head` in each entry and
  calls `list.h` and `hashtable.h` on them. Each entry is linked twice; nothing
  but the code's care keeps the two in agreement.
- It calls back `fill_entry` when an entry is made and `free_entry` when one is
  released. `free_entry` runs *after* the entry has been unlinked and *before*
  `size` is lowered (`assoc_array.c:121-124`).
- `array_free` leaves everything to `HT_FREE`, which walks the table, unlinks each
  entry from its chain and calls `free_entry` on it. The ring is not touched: its
  nodes are freed where they are.
- `deque.c` uses the ring only. `deq_free` frees the node its loop stands on.
- With `LEAKCHECK`, `leak_detector_c.h` replaces `malloc` and friends in `main.c`
  and there only; the library and libc keep calling libc, so the detector sees
  some of the program's blocks.
- `main.c` is a client of the array. Its `fill_entry` lets the key of an entry point
  into the node, its `free_entry` frees the node: key and data live and die together.
- A test calls the library from inside `TEST_PROTECT` (setjmp); an assertion that
  fails jumps out of it (longjmp), and the runner goes on with the tear-down.

The hard behaviours, each with its line and the properties that watch it, are the
`hazards` of `PROJECT.json`: calls that fail half way, addresses that come back
from `malloc`, two entries of one key, walks over a structure that is being freed,
a comparison with the wrong length, uninitialised or stale counters.

## Modules

| module | models | code |
|---|---|---|
| `Pointers` | NULL and the two poison values | `poison.h` |
| `KList`, `HList` | the operations on rings and on chains, as functions on their links | `list.h:25-343, 595-773` |
| `KListWalk` | the iterators over a ring, as the sequences they visit | `list.h:400-585` |
| `ListMachine`, `ListMachineProps` | programs that use all of `list.h`, and what they rely on | `list.h`, the table macros of `hashtable.h` |
| `AssocArray` | the array: state, one action per step of each function | `assoc_array.c`, `hashtable.c`, the macros of `hashtable.h` it uses |
| `AssocArrayProps` | its properties and its inductive invariant | |
| `AssocArrayMeasures` | the functions that only count | `assoc_array.c:193-216`, `hashtable.h:168-176` |
| `AssocSpec`, `AssocRefinement` | what the array promises, a sequence of items, and the mapping to it | |
| `AssocCallbacks` | the array with callbacks that call it again | `assoc_array.c`, with a program's callbacks |
| `MainExample` | the example program, composed with `AssocArray` | `main.c` |
| `Deque`, `DequeSpec`, `DequeProps` | program, abstract specification and properties of the deque | `deque.c` |
| `LeakDetector`, `LeakDetectorProps` | the leak detector | `leak_detector_c.c` |
| `Words`, `Log2`, `HashFunctions`, `HashProps` | integers of fixed width, logarithms, hash functions | `log2.h`, `hash.h` |
| `UnityMessages` | what an assertion comes to: it holds, or it fails with a message | |
| `UnityAsserts`, `UnityMacros` | assertion functions, and the macros with their casts | `unity.c:190-1606`, `unity_internals.h`, `unity.h` |
| `UnityRunner`, `UnityRunnerProps` | runners, options, pointer restoration, counting allocator; what a run promises | `unity.c`, `unity_fixture.c`, `unity_memory.c` |
| `UnityProps` | what an assertion promises, for the runner with the macros | |
| `AssocArray_proofs` | the array's operations on ring and chains, its invariant, what its walks meet, the refinement and the measures | |
| `AssocCallbacks_proofs`, `MainExample_proofs` | the array under callbacks and in the example program | |
| `KListWalk_lemmas`, `ListMachine_proofs` | the sequence that a ring holds; every operation and loop of `list.h` | |
| `Deque_proofs`, `LeakDetector_proofs` | deque and detector | |
| `UnityRunner_proofs` | verdicts, pointers and leaks in a run of any test program | |
| `MC*` | the instances TLC checks | |

### Pointers, rings and chains

A pointer is a model value: the address of an entry, of a list head, or one of
NULL, `LIST_POISON1` and `LIST_POISON2`. A ring is a record of two functions,
`next` and `prev`, on addresses. In a chain, what an `hlist_node` can be reached
from is a *slot*: a bucket's `first` or another node's `next`. `ht.link[s]` is what
slot `s` holds and `ht.pprev[e]` is the slot that `e` remembers. So `*n->pprev = x`
is `link[pprev[n]] := x`, which is what the code does, and a wrong `pprev` corrupts
another chain in the model as it would in memory. Each operation is one operator
made of the stores the code makes, in their order.

### AssocArray

`pc` is the place inside the call in progress; `op`, `k` and `d` are its function
and arguments; `cur`, `tmp` and `bkt` the local variables; `ret` what the last call
returned. A call is cut where something else can intervene or a different outcome
is possible: at every `malloc` and callback, and at every iteration of a loop over a
chain. Pointer stores between two such points are one step, since nothing can
look at the state between them.

| steps | code |
|---|---|
| `Create`, `CreateHt`, `CreateTable` | `array_create`, `ht_create`: three mallocs, each of which can fail |
| `Search`, `SearchNext`, `SearchHit`, `SearchEnd` | `array_get_by_key`, also as `array_del` and `array_add_replace` call it |
| `Unlink`, `FreeEntry`, `Shrink` | the rest of `array_del`, `_array_del_first` and the first half of `array_add_replace` |
| `DelEnd`, `GetEnd` | `_array_del_first`, `_array_get_first` |
| `Add`, `MallocEntry`, `FillEntry`, `LinkEntry` | `array_add`, and the second half of `array_add_replace` |
| `Free`, `ClearUnlink`, `ClearEntry`, `ClearBucket`, `FreeArray` | `array_free` through `HT_FREE` |
| `CallOnNull` | every function given a NULL array |

The caller may make any call with any arguments, with three restrictions that C's
rules impose: one call at a time, no use of an array that was freed, no data block
handed over twice (the default `free_entry` would free it twice). `malloc` may fail
every time, and may return any address not in use, so an address comes back as
soon as it is freed. `KeyMatches` gives the outcomes of the comparison at
`assoc_array.c:85`, `memcmp(cur->key, key, key_size) == 0`: equal keys match; a query
that is a proper prefix of the stored key matches as well; a query that extends the
stored key reads past the copy, and the outcome is free.

`alive` and `older` are history variables, written and never read by the steps: the
entries in the array, and for each the entries that were there before it. They
state the order of insertion without a second list.

### The abstract array

`AssocSpec` keeps a sequence of items and no pointers. A call has a beginning, an
effect and a return. `array_add_replace` has two effects: a removal, then an addition
which may still fail. That is what the code does, and the abstract specification
says it: when `array_add_replace` returns -1, the old entry is gone and its data
released. `AssocRefinement` reads the items off the program's memory by walking
`arr->list` from the head.

### Callbacks that call back

`AssocCallbacks` gives the callbacks a body: at `fill_entry` and `free_entry` the
program may call the array, and the call in progress waits. `stack` holds the frames
of the calls that wait, their `pc`, arguments and local variables; the array itself is
shared. `Enter` and `Leave` push and pop, everything in between is `AssocArray`
unchanged. Two rules are imposed on the program, for without them the code reads
freed memory: no callback frees the array, and a `free_entry` that `array_free` runs
only searches. The successor that `CLEAR_HASHTABLE_BITS` keeps in `tmp` has been read
before the callback, and the ring and `size` still speak of entries that are gone.
No text of the library states these rules. `NestedHeapExact` and
`NestedStructures` say that they are enough.

### The example program

`MainExample` composes `main.c` with the actions of `AssocArray`: a step of the
program starts a call (`CreateArray`, `LoopAdd`, `DelFirst`, ...) and the program's next
step waits until the array is idle again. The data blocks are the `mac_node`s, and the
steps in which the array gives up a data block are those in which `main.c`'s
`free_entry` frees a node (`freed_by`). An argument of the command line is what the
conversions make of it; `ParseArgs` reads three at a time, as the code does, by
position. Every `malloc` of the program may fail; `failed` remembers that one did.

### Lists

`ListMachine` calls every function of `list.h` that changes something, in any order,
on rings or on chains (the two kinds share nothing, so a behaviour uses one, `family`),
and keeps the sequences that the program believes to be in them (`seq`, `chainSeq`), edited as the comment of each
function says. The properties compare them with the pointers. A loop that is safe
against removal is a cursor pair and the entries it still owes (`loop`, `scan`); its
body may take out the current entry, or the next one with
`k_list_safe_reset_next`. A second thread may be inside `k_list_empty_careful` while
the first is in `k_list_del_init`: loads and stores are steps of their own, and those of
`__list_del` come in their order, and the two of `K_INIT_LIST_HEAD`, which are plain
stores, in either (`Ready`).

### Words and hashes

A word is its bytes, lowest first, so that a string and the integer loaded from it
are one value and 64-bit arithmetic stays within TLC's integers. `Log2` has two
operators where a macro asks whether its argument is constant. `hash_str` is a loop
with its steps; the other functions are folds over the bytes.

### Unity

`UnityAsserts` has one operator for each assertion function: from the arguments to the
message it prints, or `Holds`. `UnityMacros` has one for each family of macros, with the
type's suffix as an argument and the casts as the preprocessor leaves them. A `char` has
`Unit` bits, and the other types two, four and eight chars, so that all boundary values
of all types fit an instance; nothing in the code depends on the eight. As on a 64-bit Linux
machine, `UNITY_INT` has eight chars and an `int`, which `UNITY_INT_WIDTH` is about, four:
the names `INT`, `UINT`, `size_t` and none hand over single numbers at the width of
`UNITY_INT` and read arrays in steps of an `int`. The memory of an array is a sequence of
such steps, so that a `size_t` in it is two.

`UnityRunner` is a whole run of a test program. `at` is where it is; `TEST_ABORT` goes to
what follows the last `TEST_PROTECT`; a test calls operations, any of those its suite
allows in any order, in its body and its tear-down. `asked`, `report`, `said`, `first`,
`ended` and `tally` are history variables for the properties. What a call of an assertion
comes to is a constant of it, `Outcome`, which the instance makes `MacroOutcome` of
`UnityMacros`: the promises of the runners are proved for any assertions.

### Deque and LeakDetector

A call of either is one step, for nothing in it waits or calls back; the loops that
free or print nodes have a step per node. Both can end the program in the model as
they can in C, in the states `crashed` (a store through NULL, a `free` of the static
head) and, for the deque, `astray` (a pop has returned the list head cast to an
entry). `Garbage` is what `malloc`'s memory may hold in the field `size`, which
`deque_create` leaves uninitialised. The leak detector's program holds blocks that
the detector is told of and blocks it is not (`Untracked`).

## Runs

| run | instance | states | what it shows |
|---|---|---|---|
| `assoc_safety` | 3 entries, 3 data, 4 keys, 2 buckets | 131929 | type correctness (`TypeOK`); the ring is in insertion order both ways (`RingInOrder`); each chain is newest first and holds exactly its bucket's entries (`ChainsNewestFirst`); `size` counts them, one too high in the callback (`SizeExact`); nothing allocated is lost or used after it was freed (`HeapExact`); each data block has one owner (`DataHeldOnce`); a freed array leaves nothing (`NothingLeft`); a lookup never misses its key and returns the newest entry (`LookupMissesNothing`); an entry disappears only by a call that asks for it (`RemovesOnlyTheOneAsked`); the counts agree with the contents (`MeasuresAgree`); the inductive invariant of the proofs (`IndInv`); the pointer program implements `AssocSpec` (`ImplementsAssocSpec`) |
| `assoc_returns` | 2 entries, 2 data, no symmetry | 40981 | every call ends (`CallReturns`) |
| `assoc_callbacks` | 3 entries, 3 data, 2 keys, 1 bucket, 2 calls may wait | 1519988 | every call that waits keeps its own entry, and nothing is lost or freed twice (`NestedHeapExact`); ring, chains, search and data stay right under it, and `size` is ahead by the calls that wait in `free_entry` (`NestedStructures`) |
| `assoc_prefix` | as `assoc_safety` | violation | `DelTakesItsKey` fails: see below |
| `main_example` | 8 command lines, 4 nodes, 3 entries, 2 macs of one bucket | 28448 | one entry per mac (`UniqueKeys`); no key outlives its node, and no node is printed after it was freed (`KeysLiveInNodes`); no crash and nothing left without failures, and what can be left with them (`CleanWithoutFailures`) |
| `lists` | 4 entries, 2 rings, 2 buckets | 270103 | rings and chains are the sequences that the calls promise (`RingsHoldTheirSequences`, `ChainsHoldTheirSequences`); safe loops meet what is left, in order, and end (`SafeLoopMeetsTheRest`); the careful test does not say empty while the other thread has stores to come (`CarefulMeansDone`) |
| `hashes` | strings of up to 17 bytes, numbers at the edges of 32 and 64 bits | 1610 | only the sums of the first two bytes of each word choose a bucket (`OnlyTheseBytesChooseTheBucket`); `hash_64` and `hash_time33` compute the formulas of their comments (`ShortcutsAreTheFormulas`); a change of one byte changes `hash_time33`, `hash_fnv` and `hash32_ptr`, and `hash_jenkins` except where two keys reach one of its shifts with a value and its complement (`EveryByteCounts`); the logarithms agree with each other (`LogsAgree`) |
| `deque_cleared` | 3 entries, 2 data | 6408 | on zeroed memory: the ring holds both ways, `size` is its length, `deq_free` and pops share out the heap, and the deque implements a sequence with two ends |
| `deque_uncleared` | the same | violation | `TwoPushedSizeTwo` fails |
| `leak_tracks` | 4 nodes, 3 blocks | 1059 | the ring is exactly the tracked blocks in order, across frees, moves and failed reallocs; the report is all of it but the last |
| `leak_reports` | the same | violation | `ReportsEveryLeak` fails |
| `unity` | a suite for each macro and type, and 11 of other operations | 172950 | every assertion decides as its name says and reports the values, or for arrays of `size_t`, wide unsigned elements and masks as is said below (`AssertionsDecide`); one verdict per test, and counts that agree with them (`OneVerdictPerTest`); pointers put back (`PointersRestored`); leaks, and only leaks, fail a test (`LeaksAreFound`) |

Deadlock is checked in the runs of the array and of the lists, where some call is
always possible, and off in the others, where a program ends or can crash.

### Bounds

Two counters are cut off: `MaxDepth`, the calls that may wait for a callback's, and
`max`, the operations that a test of a suite calls. Apart from them the heap is finite, so
`malloc` on a full heap can only fail, which the code handles like any failure.
Within an instance all behaviours, of any length, are explored.

- *Three entries.* One ring or chain operation touches a node and its two
  neighbours; three entries and a head give every case: sole, first, middle, last,
  and adjacent. Entry addresses are reused at once, which is where a dangling
  pointer would show.
- *Four keys.* `"a"` and `"a\0"`, one a prefix of the other and, because `hash_str`
  adds up the bytes, in one bucket; a third key that only shares their bucket; a
  fourth in the other bucket. With fewer keys than calls, every key is added again
  while it is there.
- *Two buckets* give `HT_FREE` an inner and an outer loop, with empty buckets before
  and after; `assoc_callbacks` and `main_example` use one, so that every key collides.
- *Two waiting calls*: the call inside a callback has a callback that calls. A third
  would find the structures as the second does, one more entry away.
- *Command lines*: one to eight arguments, `-h` among them, and the table of four with two nodes; the
  densities and frequencies that give no node, and a divisor of 0, are among them.
- *Four entries and two rings* for the lists: cut and splice need two entries on each
  side of a joint, moves need another list to go to.
- *Strings of up to 17 bytes* run the loops of eight, four and one byte no, one and
  several times in each combination; words have every single bit, and the edges. Three
  keys are there because `hash_jenkins` gives them the hash of a neighbour, two of them
  from the shift by 6 and one from the shift by 11.
- *A char of two bits, five operations*: at 0, 1, the sign bit and its neighbours, the
  top and beyond, for every type, signed and unsigned. Five operations
  are a malloc, a failure, a realloc that moves, an overrun and a free.
- *Four nodes, three blocks* for the detector: one more node than tracked live
  blocks, for a NULL that a failed `realloc` leaves in the ring.

Entries, data, nodes and blocks are interchangeable and declared symmetric, rings too, except
in the liveness run, where symmetry would not be sound. Keys are not symmetric:
their hashes and prefixes differ.

### Fairness

`CallReturns` assumes `WF_vars(Step)`: a call that was begun is executed. The
program is one thread, and no function waits for anything, so the processor itself
justifies it. Fairness is on the library's steps together and not on
the caller's: nothing makes the program call. The outcome of `memcmp` past the end of a
key and of `malloc` is not assumed fair either; no call depends on it to end.

## Proofs

Every theorem is about any number of entries, keys, data blocks, buckets, nodes and
blocks, any hash and any prefix relation, any tests and operations of a test program, and
every choice that `malloc` makes.

| theorem | says |
|---|---|
| **AssocArray_proofs** | |
| `Invariance` | `Spec => []IndInv` |
| `TypeCorrect`, `RingCorrect`, `ChainsCorrect`, `SizeCorrect` | the structures and the counter agree at every step |
| `MemorySafe`, `DataSafe`, `NoLeak` | no use after free, no double free, nothing lost, nothing left; one owner for each data block |
| `LookupCorrect` | a search misses nothing and finds the newest |
| `RemovalCorrect` | no entry disappears unasked, as an action property |
| `MapCorrect` | if `Prefix = {}`, then `MapSpec => []UniqueKeys` |
| the same, if `Entry` is finite | |
| `WalkCorrect` | the walk of `arr->list` meets the entries, each once and oldest first |
| `ArrayRefines` | the pointer program implements `AssocSpec` |
| `MeasuresCorrect` | the counting functions return the number of entries and the share of collisions |
| **AssocCallbacks_proofs** | |
| `CallbacksMemorySafe` | callbacks that call back, to any depth, free nothing twice and lose nothing |
| `CallbacksKeepStructures` | and leave ring, chains, search, data and counter right |
| **MainExample_proofs** | |
| `KeysStayInTheirNodes` | no entry has its key in a node that was freed |
| `CleanEnd` | without failures the program ends with nothing allocated; what a failure leaves is named |
| `MacsAreUnique` | if `Prefix = {}`, one entry for each mac |
| **Deque_proofs** | |
| `DequeRing`, `DequeHeap` | the ring both ways and the owner of each entry, whatever `size` holds |
| `DequeSize`, `DequeRefines` | if `Garbage = {0}`, `size` counts the ring, and `deque.c` implements `DequeSpec` |
| **ListMachine_proofs** | |
| `RingsHold` | whatever calls a program mixes, each ring is the sequence its calls promise, both ways |
| `ChainsHold` | so is each chain of a table, every `pprev` undoes its link, and `hash_hashed` is right |
| `SafeLoopsMeet` | a safe loop stands at the entries it owes, whatever its bodies take out |
| `DeletedWhenSaid` | a yes of `k_list_empty_careful` means that the deletion is over, in every interleaving |
| **LeakDetector_proofs** | |
| `DetectorRing`, `DetectorTracks` | the ring goes through the allocated nodes, and they record the live blocks in order |
| `DetectorReports` | the report lists every leak but the newest |
| **UnityRunner_proofs** | |
| `EachTestHasOneVerdict` | a test has the verdict of the first event that decides it and no other, and the counts of `UnityEnd` are those of the verdicts |
| `PointersComeBack` | after a test every pointer has the value it had before |
| `NoLeakIsMissed` | a guarded test that leaves a block of its own does not pass, and one told that it leaks leaves one |

### Assumptions

TLC evaluates the assumptions on constants in every run.

- `AddressAssumption`, `NodeAssumption`: different objects have different addresses.
- `BucketAssumption`: a table is an array, with one bucket or more. `DeletionAssumption`: the
  record of a deletion on its way is not NULL.
- `PoisonAssumption`: the poison values are different and not NULL; that is so in C, and
  not in C++, where `poison.h:18-20` makes both NULL, so the proofs are about C builds.
- `TableAssumption`: the number of buckets is `2^bits` with `bits <= 30`, which is
  what `array_create`'s caller has to respect.
- `KeyAssumption`: hashes are naturals, and "proper prefix" is irreflexive and transitive.
- `DepthAssumption`, `ArgumentAssumption` and `UnitAssumption` say what the constants are.
- *The heap is finite*: a part of `DequeAssumption`, `DetectorAssumption` and
  `NodeAssumption`, and a hypothesis of `WalkCorrect`, `ArrayRefines` and `MeasuresCorrect`. A
  walk in the models gives up after as many nodes as there are addresses, which has to be a
  number. The other theorems on the array do without. For Unity it is `MemoryAssumption`:
  the count of blocks is compared with their number.
- Unity: `PointerAssumption` says what the constants of the pointer store are.
  `ProgramAssumption` says what the arguments of operations are, and that only tests of the
  fixture runner use `UT_PTR_SET`, which is a macro of `unity_fixture.h`: the default runner
  puts nothing back. `OutcomeAssumption` says that no assertion prints the message of
  `UnityMalloc_EndTest`, and none of `unity.c` does; only the second half of `LeaksAreFound`,
  which reads that message, needs it. `EachTestHasOneVerdict` needs none of these.
- `Prefix = {}`, in `MapCorrect` and `MacsAreUnique`: no key is a proper prefix of another, as
  when all have one length, which macs have. Without it the claim is false (`assoc_prefix`
  shows the comparison that breaks it). `MapSpec` is a program that adds with
  `array_add_replace` only; `main_example` checks `UniqueKeys` on such a program.
- `Garbage = {0}`, in `DequeSize` and `DequeRefines`: `deque_create` gets zeroed memory from
  `malloc`, since nothing else sets `size`. `deque_uncleared` shows what happens otherwise;
  `DequeRing` and `DequeHeap` need no such thing.

### Arguments

The properties that the runs check are not inductive. `RingInOrder` says
nothing of the entry that is about to be unlinked, and a ring that is right now need
not be after a `k_list_del` of a node that is not in it.

**The array.** `IndInv` adds to the properties:

- `Ordered`: the history is a strict total order of the entries. Without it
  "first", "last" and "newest" mean nothing.
- `CallOK`: which function is at which step, and that the arguments still are what
  they were.
- `ArrayOK`: what has been allocated at each stage of `array_create`; the set of
  entries is finite, which the counter needs.
- `SearchOK`: a search stands in the chain of its bucket and every entry of its key
  is where it stands or behind it; the entry about to be unlinked is the one asked
  for.
- `ClearOK`: the buckets before `bkt` are empty, and the successor that
  `CLEAR_HASHTABLE_BITS` saved is the head of what is left of the chain. Without it
  nothing says that `array_free` reaches every entry.

The lemmas are about one operation on one structure: given a ring (or chains) of a
set in an order, `k_list_add_tail`, `k_list_del`, `hlist_add_head`, `hlist_del` and
`hlist_del_init` yield the ring (the chains) of the set with or without the entry.
The rest is a case per action, and per conjunct of `IndInv` under it.
`MapCorrect` adds that between the removal and the addition of `array_add_replace` no
entry has the key.

**Walks.** A walk is a recursive function, and what it meets needs induction over its
length. The provers cannot instantiate the induction rule of the library, which takes a
predicate; the lemma `Induction` of `KListWalk_lemmas` takes a *set* of numbers and follows from
the least number outside it. From it come that a walk of a ring that `Holds` a sequence
meets this sequence (`BothWalks`), and what `k_list_add`, `k_list_add_tail` and `k_list_del`
do to the sequence.

`WalkInv` joins the two views of the array's ring: the walk meets exactly the entries that the
history orders, and in that order. With it the items of the refinement are a function of
the history, and each step of the program is compared with its step of `AssocSpec`: the
first and the last entry are the oldest and the newest, the entry a search finds is the last
item of its key, a removal takes one item out and moves no other. `MeasuresCorrect` walks the
chains: the nodes behind a node are its older neighbours in the bucket, so the walk
counts the bucket, and a sum over the buckets counts the array (by the same induction, on sets
of buckets).

**Lists.** Every ring operation takes a part of a sequence out and puts another in its place
(`Spliced`): an addition replaces nothing by the entry, `k_list_cut_position` and the splices
do it in two rings at once. So one lemma (`Relinked`) serves them all: if the new part is linked
inside, the two joints are, and no other pointer of the ring has changed, then the ring
holds the new sequence and every other ring its own. What the model writes as edits of
sequences (`Behind`, `Before`, `Without`, `InsteadOf`, `CourseFrom`) is shown to be such a
replacement. `RingInv` has three parts:

- `RingsInv`: the rings hold their sequences, which have no entry in common; while a
  `k_list_del_init` is on its way there *was* a memory `l` that held them, and `ring` is `l`
  with the stores that were made since (`Begun`). Which of them can be left is `Remaining`, from
  their order.
- `LookInv`: a field that `k_list_empty_careful` has passed still points at its entry. The
  last stores of a deletion make that so, and nothing undoes it, for an entry asked
  about is not added (`MayGo`).
- `LoopInv`: a loop owes its entry and what follows the one it has read, and the current
  entry, unless its body took it out, is just before that (`LoopStands`). Without the last part
  nothing says where `k_list_safe_reset_next` goes on.

The chains have the same argument on `link` and `pprev` (`Rechaining`, `TableRelinked`). `ChainInv`
says that each chain holds its sequence, that no node is in two, that a node outside the table
has a NULL, a poisoned or a fake `pprev`, and that a scan over the table owes the rest of
its chain and the chains behind it (`ScanStands`). From the two invariants the lemmas on
walks give what the properties say of the iterators.

**Callbacks.** `CbInv` hides the waiting calls: what the call in progress sees as array is
the array less the entries, data and counts that belong to calls that wait (`Mem`, `Held`,
`Size`). For that array `IndInv` holds, and a step of the call in progress is a step of
`AssocArray`. Three parts speak of the rest: `StackOK` says that the waiting calls have entries and
data of their own, `LentOK` that these are still allocated, and `SweptOK` that under
`array_free` a callback only searches. The moments that need an argument of their own are
those in which a call begins to wait, and those in which it goes on and gets back what was
hidden.

**Example program.** Its array steps are those of `AssocArray`, so `IndInv` holds of it.
`MainInv` adds which call the program waits for at each place (`CallsOK`), that nodes in use
are allocated and their macs did not change (`NodesOK`), and, as long as nothing has failed,
that each live node is the array's or in the program's hand (`BooksOK`).

**Deque and leak detector.** `DequeInv` says that the ring holds the entries that are not
the caller's, and while `deq_free` runs, that its two cursors are the first two of what
it has to free. `SizeExact` and the mapping to items are proved on top of it. `DetectorInv` says
that the nodes in the ring record `tracked`, no address twice except NULL, and that a report has
written what is before its cursor. The NULL is what a failed `realloc` leaves in a node.

**Unity's runners.** Three invariants, one for each promise.

- `Verdict`: inside a test the two flags, and what was printed, are those of the first event
  that decided it (`first`), and outside the flags are down. The flags are what
  `RETURN_IF_FAIL_OR_IGNORE` looks at, so a decided test prints nothing more; the one
  assignment that could take a verdict back, the `CurrentTestFailed = 0` of
  `UnityAssertNumbersWithin`, is behind that look.
- `Pointers`: of what is pushed for one pointer the *first* push holds the value from before the
  test, and a pointer that is not pushed still has it (`Restorable`). Undoing from the end
  keeps this, and leaves the first push of a pointer for last. That the property holds at
  `conclude` says nothing of the pushes in between, which is why it is not inductive.
- `Memory`: in a guarded test `malloc_count` less the number of the test's own blocks is 0 from
  the set-up on (`Excess`). Every way through `unity_malloc`, `unity_free` and
  `unity_realloc` leaves the difference as it is: a failure that was injected, no memory, size
  0, a block that stays, one that moves, an overrun that aborts the test after the block was
  released. With `Verdict` it gives both halves of `LeaksAreFound`: a count above 0 at
  the end decides the test, and the message comes from nowhere else.

TLC found no violation of the three on the instance of `unity`.

### Only model-checked

- `CallReturns`: liveness under fairness, which is out of TLAPS's reach here.
- `OnlyTheseBytesChooseTheBucket`, `ShortcutsAreTheFormulas`, `EveryByteCounts` and `LogsAgree`:
  `Words` uses `Bitwise`, which the provers cannot read, and what folds over bytes and carries
  compute for every input is an induction over data.
- `AssertionsDecide`, for the same two reasons: `UnityAsserts` uses `Bitwise`, and that a printed
  number reads back as itself is an induction over its digits.
- The three runs that expect a violation: they refute what a text or a test says.

## What the checks found

1. **A key finds an entry of a longer key** (`assoc_prefix`). The search compares as
   many bytes as the query has and never looks at `cur->key_size`
   (`assoc_array.c:85`). Add `"a\0"` and ask for `"a"`: they are in one bucket, and the
   entry of `"a\0"` is returned, or deleted, or replaced. The counterexample adds
   `"a\0"` and deletes `"a"`, and the call succeeds. `test_assoc_array.c:260` expects
   a key that is not there not to be deleted.
2. **A new deque has no size** (`deque_uncleared`). `deque_create` does not
   initialise `size` (`deque.c:11-16`); with two pushes on memory that is not zero,
   `size` is not 2, as `test_deque.c:21` asserts. Pops then stop early, or go on past
   the last entry and return the list head.
3. **The report omits the newest leak** (`leak_reports`). The loop of
   `report_mem_leak` stops before the last node (`leak_detector_c.c:169`); a
   single leak is not reported at all.

Read in the code while it was modelled, with no run of their own.

The library:

- `report_mem_leak` ends in `clear`, whose first `free` is of the static head,
  whenever the ring is not empty (`leak_detector_c.c:64-73`); the model ends in
  `crashed`. An `xfree` or `xrealloc` before the first `xmalloc` follows a NULL.
- `_deq_push` stores through `malloc`'s result unchecked (`deque.c:22`).
- `hashtable.h:67-69` speaks of an assertion in `calc_bkt` that is not there;
  `hashtable.h:190` says a NULL `free_func` means `free`, and the macro calls it;
  `hashtable_del` uses `hash_del_bits`, which is not defined; `assoc_array.h:35-36`
  declares two functions that are not defined; `DEQ_PUSH` and `DEQ_PUSH_TAIL` store to
  a field `node` that `deq_entry_t` does not have (`deque.h:41, 57`); `main.c:239` announces the deletion of the last
  entry, and line 247 deletes the first.

- Callbacks that add to or delete from the array under `array_free`, and arguments of
  `array_add_replace` that point into the entry it frees (`assoc_array.c:132`), end in
  freed memory; nothing in the code or its comments forbids them.
- `ilog2` of a 64-bit value known only at run time is the logarithm of its low half
  (`log2.h:43`), where the comment at `log2.h:60` promises both widths. `order_base_2(0)` is
  an undefined shift or a link error and not the 0 of `log2.h:182`. `LogsAgree` asks for
  what is defined.
- In a table of up to 65536 buckets, bytes 3 to 8 of each eight of a key do not choose
  its bucket, and bytes 5 to 8 not even the hash: `hash_32` takes the low half of a sum,
  and its prime is 1 modulo 2^16. That is what `OnlyTheseBytesChooseTheBucket` says.
- `hash_jenkins` keeps its hash in an `int` (`hash.h:212`), so that `hash ^= (hash >> 6)`
  makes one value of x and of its complement (`hash.h:218`), and so does the shift by 11
  (`hash.h:221`): running values 0x1FF801FF and 0x1FF80200, one apart, both become 0x208, and
  the keys 46 184 227 0 101 and 46 184 227 0 102 have one hash, whatever follows them.
  `EveryByteCounts` says that this is the only way in which it loses a byte.
- The usage example `-b 10 -d 0.5 -p 0.1` (`main.c:92`) is read by position: bits are 0,
  no node is added, and `last_entry` is used before it is compared with NULL
  (`main.c:241`). A print frequency above 1 divides by 0.
- `hlist_add_fake` does not set `next`: `hlist_del` of the node, which "will work" after it
  (`list.h:681`), writes through whatever `next` is, unless the program cleared it.

Unity:

- Elements of `UINT8`, `UINT16`, `UINT32` and `HEX` arrays are read with a sign by
  `UnityAssertNumbersArrayWithin` and compared as unsigned `UNITY_INT`s: 0x7F and 0x80
  are not within 1 (`unity.c:1225`). `AssertionsDecide` leaves out the pairs that differ
  in the top bit (`ReadWithAnotherSign`).
- `UNITY_DISPLAY_STYLE_UINT` is as wide as an `int` (`unity_internals.h:402`), and the macros for
  `size_t` are those for `UINT` (`unity.h:305`, `327`). `EQUAL_size_t_ARRAY` and
  `size_t_ARRAY_WITHIN` of n elements compare n `int`s, the first half of the memory, and
  `EACH_EQUAL_size_t` compares halves of elements with the low half of its value:
  {1, 2} equals {1, 3}, and not every element of {7, 7} is 7. `EACH_EQUAL_INT` and `_UINT` take
  the low half of a wider value too (`unity_internals.h:908`, `912`), where `EQUAL_INT` compares
  it whole. `AssertionsDecide` states what is compared (`Typed`).
- The sign that an unsigned element was read with is removed before it is printed only if
  it is shorter than an `int` (`unity.c:842`, `1316`): an element 0x80000000 of a `UINT32`,
  `UINT` or `size_t` array is shown as 18446744071562067968 (`PrintedWithOnes`).
- `UnityPrintMask` prints as many bits as an `int` has (`unity.c:303`): when only bits above
  them differ, `BITS` fails and shows two equal numbers (`DecidesBits`).
- The `_MESSAGE` forms of the `BITS_HIGH` and `BIT_HIGH` macros have 32 ones where the
  others have all (`unity.h:420`); left out as `OnesTooShort`.
- `UINT8_ARRAY_WITHIN` casts its delta to 16 bits (`unity_internals.h:878`);
  `EACH_EQUAL_STRING` of NULL fails on an array of NULLs; `FLOAT_WITHIN` with a delta that is
  NaN holds for any two finite numbers; `UnityPrintLen` reads the character after the
  last before it looks at the length (`unity.c:158`).
- `UnityMain` returns the failures of its last repetition only. `TEST_PASS` in a tear-down
  skips what is behind it, `UnityMalloc_EndTest` included.

## What is not modelled

- **Arguments that point into the entry** that `array_add_replace` frees: the model passes
  keys and data by value. The default callbacks copy the key.
- **Number of buckets beyond 2^30**: `1 << bits` is undefined then, and
  `TableAssumption` leaves it to the caller.
- **Iterators that only name another** (`k_list_for_each_entry_safe_from_reverse` and its
  like) are the same walk in `KListWalk`, and not an operator each.
- **The `DEQ_` macros** of `deque.h`, a second deque on a `deq_t` by value, without
  the test for an empty deque that the functions have: nothing uses them, and the
  two that push do not compile.
- **Sizes, file names and line numbers** of the leak report; text output.
- **mock_mem_functions.c**: the pointers it sets are called by the tests alone; that
  an allocator may fail is in the models.
- **Unity's assertions on doubles**, `UnityPrintF` and `UnityParseOptions`, which the
  default configuration does not compile; how floats and strings are printed; the
  allocator with a heap of its own in `unity_memory.c`; the time that a test took; the Ruby
  scripts and the examples.
- **An assertion outside any test**, which jumps to a frame that is gone.
- **Tests, Makefile, compiler headers**: no state of the system.

## Plan

All steps are done.

1. `Pointers`, `KList`, `HList`, `AssocArray`, `AssocArrayProps`: the core. *Done.*
2. `AssocSpec`, `AssocRefinement`, `AssocArrayMeasures`. *Done.*
3. `Deque`, `LeakDetector`. *Done.*
4. `IndInv`, its proof, the theorems above, `MapCorrect`. *Done.*
5. `AssocCallbacks`. *Done.*
6. `ListMachine`, with the rest of `KList`, `KListWalk` and `HList`. *Done.*
7. `Words`, `Log2`, `HashFunctions`; `MainExample`. *Done.*
8. `UnityAsserts`, `UnityMacros`, `UnityRunner`. *Done.*
9. Proofs of the invariants of the callbacks, the example program, the deque and the leak
   detector, of both refinements and of the measures. *Done.*
10. Proofs of the list machine: rings, chains, loops and the careful test. *Done.*
11. The runner of Unity apart from its assertions; proofs of `OneVerdictPerTest`,
    `PointersRestored` and `LeaksAreFound`. *Done.*
