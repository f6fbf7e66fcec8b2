------------------------------ MODULE ArrayList ------------------------------
(***************************************************************************)
(* src/arraylist.c: the growable array under every table of the compiler.  *)
(*                                                                         *)
(* `arr' is the malloc'ed block, a function on 0 .. capacity-1 whose cells *)
(* hold Junk until something is copied into them; `len' cells are in use.  *)
(* A call runs in several steps: the block is extended if it is full, the  *)
(* place of the new element is searched by dichotomy, the tail is moved.   *)
(* Elements are compared as integers (Symbol_cmp is a strcmp, a total      *)
(* order).                                                                 *)
(*                                                                         *)
(* Two clients are modelled: a symbol table, which only inserts in order   *)
(* and searches (SortedSpec), and a plain list, which appends, pops,       *)
(* sorts, clears, shrinks, truncates and frees (ListSpec).                 *)
(***************************************************************************)
EXTENDS Integers

CONSTANTS Key,              \* the elements, ordered
          Junk,             \* content of a cell nothing was copied into
          InitialCapacity,  \* 30 for symbols, 10 for functions
          Multiplier,       \* ARRAYLIST_REALLOC_MULTIPLIER
          MaxLen            \* bound of the model: no call adds beyond it

ASSUME KeyAssumption == Key \subseteq Int /\ Key # {} /\ Junk \notin Key
ASSUME CapacityAssumption == InitialCapacity \in Nat \ {0}
ASSUME MultiplierAssumption == Multiplier \in Nat /\ Multiplier >= 2
ASSUME MaxLenAssumption == MaxLen \in Nat

VARIABLES arr, len, capacity,  \* the ArrayList
          live,                \* arr points to a block that may be used
          pc, op, elem,        \* step, function and argument of the call
          left, right,         \* the window of the search in progress
          ret                  \* what the last call returned

list == <<arr, len, capacity, live>>
vars == <<arr, len, capacity, live, pc, op, elem, left, right, ret>>

Slots(n) == 0 .. n - 1
Stored == {arr[i] : i \in Slots(len)}

TypeOK ==
    /\ capacity \in Nat
    /\ len \in Nat
    /\ live \in BOOLEAN
    /\ arr \in [Slots(capacity) -> Key \cup {Junk}]
    /\ pc \in {"idle", "extend", "bsearch", "store", "search"}
    /\ op \in {"none", "insert", "append", "search",
                 "pop", "clear", "resize", "sort", "shrink", "free", "init"}
    /\ elem \in Key
    /\ left \in Int /\ right \in Int
    /\ ret \in {"none", "ok", "alloc", "found", "absent", "empty"}
-----------------------------------------------------------------------------
(* ArrayList_init                                                          *)

Block(n) == [i \in Slots(n) |-> Junk]

Init ==
    /\ arr = Block(InitialCapacity)
    /\ len = 0
    /\ capacity = InitialCapacity
    /\ live = TRUE
    /\ pc = "idle" /\ op = "none" /\ elem \in Key
    /\ left = 0 /\ right = 0
    /\ ret = "none"

\* The caller enters a function with argument k; it starts at step `entry'.
Call(f, k, entry) ==
    /\ pc = "idle" /\ live
    /\ pc' = entry /\ op' = f /\ elem' = k
    /\ ret' = "none"
    /\ UNCHANGED list

Return(r) == pc' = "idle" /\ ret' = r

CallInsert(k) == len < MaxLen /\ Call("insert", k, "extend") /\ UNCHANGED <<left, right>>
CallAppend(k) == len < MaxLen /\ Call("append", k, "extend") /\ UNCHANGED <<left, right>>

\* Mistake: a closed window for a function that takes a half-open one.
CallSearchClosed(k) == Call("search", k, "search") /\ left' = 0 /\ right' = len - 1
\* libc's bsearch works on the half-open window [left, right).
CallSearch(k) == Call("search", k, "search") /\ left' = 0 /\ right' = len
-----------------------------------------------------------------------------
(* _ArrayList_realloc_extend and the two functions that call it            *)

\* Mistake: the list is extended one element too late.
MustExtendLate == len > capacity
MustExtend == len >= capacity
Extended == capacity * Multiplier

\* Mistake: malloc for realloc.
ReallocFresh(n) == arr' = Block(n) /\ capacity' = n
\* Mistake: the new capacity is not recorded.
ReallocUnrecorded(n) ==
    /\ arr' = [i \in Slots(n) |-> IF i < capacity THEN arr[i] ELSE Junk]
    /\ capacity' = capacity
\* What realloc keeps: the cells common to the two blocks.
Realloc(n) ==
    /\ arr' = [i \in Slots(n) |-> IF i < capacity THEN arr[i] ELSE Junk]
    /\ capacity' = n

\* Mistake: the last element is left out of the search.
AfterExtendShort ==
    /\ pc' = IF op = "insert" THEN "bsearch" ELSE "store"
    /\ left' = IF op = "insert" THEN 0 ELSE len
    /\ right' = len - 2
\* Mistake: an append takes the first place.
AfterExtendFirst ==
    /\ pc' = IF op = "insert" THEN "bsearch" ELSE "store"
    /\ left' = 0
    /\ right' = len - 1
\* An insertion goes on with the search of its place, an append with the copy.
AfterExtend ==
    /\ pc' = IF op = "insert" THEN "bsearch" ELSE "store"
    /\ left' = IF op = "insert" THEN 0 ELSE len
    /\ right' = len - 1

Extend ==
    /\ pc = "extend"
    /\ IF MustExtend THEN Realloc(Extended) ELSE UNCHANGED <<arr, capacity>>
    /\ AfterExtend
    /\ UNCHANGED <<len, live, op, elem, ret>>

\* realloc returns NULL: the list is left as it was.
ExtendFails ==
    /\ pc = "extend" /\ MustExtend
    /\ Return("alloc")
    /\ UNCHANGED <<arr, len, capacity, live, op, elem, left, right>>

Middle(l, r) == (l + r) \div 2

\* Mistake: a comparison the wrong way round.
BsearchStepReversed ==
    /\ pc = "bsearch" /\ left <= right
    /\ LET mid == Middle(left, right) IN
         \/ elem = arr[mid] /\ left' = mid /\ pc' = "store" /\ UNCHANGED right
         \/ elem > arr[mid] /\ right' = mid - 1 /\ UNCHANGED <<left, pc>>
         \/ elem < arr[mid] /\ left' = mid + 1 /\ UNCHANGED <<right, pc>>
    /\ UNCHANGED <<arr, len, capacity, live, op, elem, ret>>
\* Mistake: the middle stays in the window.
BsearchStepStuck ==
    /\ pc = "bsearch" /\ left <= right
    /\ LET mid == Middle(left, right) IN
         \/ elem = arr[mid] /\ left' = mid /\ pc' = "store" /\ UNCHANGED right
         \/ elem < arr[mid] /\ right' = mid - 1 /\ UNCHANGED <<left, pc>>
         \/ elem > arr[mid] /\ left' = mid /\ UNCHANGED <<right, pc>>
    /\ UNCHANGED <<arr, len, capacity, live, op, elem, ret>>
\* One turn of the loop of _ArrayList_bsearch_index.
BsearchStep ==
    /\ pc = "bsearch" /\ left <= right
    /\ LET mid == Middle(left, right) IN
         \/ elem = arr[mid] /\ left' = mid /\ pc' = "store" /\ UNCHANGED right
         \/ elem < arr[mid] /\ right' = mid - 1 /\ UNCHANGED <<left, pc>>
         \/ elem > arr[mid] /\ left' = mid + 1 /\ UNCHANGED <<right, pc>>
    /\ UNCHANGED <<arr, len, capacity, live, op, elem, ret>>

BsearchExit ==
    /\ pc = "bsearch" /\ left > right
    /\ pc' = "store"
    /\ UNCHANGED <<arr, len, capacity, live, op, elem, left, right, ret>>

\* The block after the memmove of the cells from `index' on and the memcpy of k.
Inserted(index, k) ==
    [i \in Slots(capacity) |-> IF i = index THEN k
                               ELSE IF index < i /\ i <= len THEN arr[i - 1]
                               ELSE arr[i]]

Store ==
    /\ pc = "store"
    /\ arr' = Inserted(left, elem)
    /\ len' = len + 1
    /\ Return("ok")
    /\ UNCHANGED <<capacity, live, op, elem, left, right>>
-----------------------------------------------------------------------------
(* ArrayList_search and ArrayList_contains, by way of the C library        *)

SearchStep ==
    /\ pc = "search" /\ left < right
    /\ LET mid == Middle(left, right) IN
         \/ elem = arr[mid] /\ Return("found") /\ UNCHANGED <<left, right>>
         \/ elem < arr[mid] /\ right' = mid /\ UNCHANGED <<left, pc, ret>>
         \/ elem > arr[mid] /\ left' = mid + 1 /\ UNCHANGED <<right, pc, ret>>
    /\ UNCHANGED <<arr, len, capacity, live, op, elem>>

SearchMiss ==
    /\ pc = "search" /\ left >= right
    /\ Return("absent")
    /\ UNCHANGED <<arr, len, capacity, live, op, elem, left, right>>
-----------------------------------------------------------------------------
(* The other functions, each in one step                                   *)

Direct(f, r) ==
    /\ pc = "idle" /\ op' = f /\ ret' = r
    /\ UNCHANGED <<pc, elem, left, right>>

Pop ==
    /\ live
    /\ Direct("pop", IF len = 0 THEN "empty" ELSE "ok")
    /\ len' = IF len = 0 THEN 0 ELSE len - 1
    /\ UNCHANGED <<arr, capacity, live>>

Clear ==
    /\ live
    /\ Direct("clear", "ok")
    /\ len' = 0
    /\ UNCHANGED <<arr, capacity, live>>

\* The new length is taken as it is, whatever the old one: arraylist.h:137 says
\* that a greater one changes nothing, but the cells above were never written.
Resize(n) ==
    /\ live
    /\ Direct("resize", "ok")
    /\ len' = n
    /\ UNCHANGED <<arr, capacity, live>>

\* qsort leaves the used cells in order and permutes nothing else.
Ordered(a, n) == \A i, j \in Slots(n) : i < j => a[i] <= a[j]
SortedBy(p) == [i \in Slots(capacity) |-> IF i < len THEN arr[p[i]] ELSE arr[i]]

Sort ==
    /\ live
    /\ Direct("sort", "ok")
    /\ \E p \in [Slots(len) -> Slots(len)] :
         /\ \A i, j \in Slots(len) : p[i] = p[j] => i = j
         /\ Ordered(SortedBy(p), len)
         /\ arr' = SortedBy(p)
    /\ UNCHANGED <<len, capacity, live>>

\* realloc(p, 0) frees the block and returns NULL: an empty list that is
\* shrunk keeps its capacity and loses its block.
ShrinkToFit ==
    /\ live
    /\ \/ len > 0 /\ Realloc(len) /\ Direct("shrink", "ok") /\ UNCHANGED live
       \/ len > 0 /\ Direct("shrink", "alloc") /\ UNCHANGED <<arr, capacity, live>>
       \/ len = 0 /\ Direct("shrink", "alloc") /\ live' = FALSE /\ UNCHANGED <<arr, capacity>>
    /\ UNCHANGED len

Free ==
    /\ live
    /\ Direct("free", "ok")
    /\ arr' = Block(0) /\ len' = 0 /\ capacity' = 0 /\ live' = FALSE

Reinit ==
    /\ ~live
    /\ Direct("init", "ok")
    /\ arr' = Block(InitialCapacity) /\ len' = 0
    /\ capacity' = InitialCapacity /\ live' = TRUE
-----------------------------------------------------------------------------
(* The clients                                                             *)

Step == Extend \/ ExtendFails \/ BsearchStep \/ BsearchExit \/ Store
            \/ SearchStep \/ SearchMiss

\* A symbol table: _ST_add and ST_get.
SortedNext ==
    \/ \E k \in Key : CallInsert(k) \/ CallSearch(k)
    \/ Step

SortedSpec == Init /\ [][SortedNext]_vars

\* A caller waits for the function it called, and the function runs on.
FairSortedSpec == SortedSpec /\ WF_vars(Step)

\* A plain list; ArrayList_resize is only used to truncate (see Resize).
ListNext ==
    \/ \E k \in Key : CallAppend(k)
    \/ Extend \/ ExtendFails \/ Store
    \/ Pop \/ Clear \/ Sort \/ ShrinkToFit \/ Free \/ Reinit
    \/ \E n \in 0 .. len : Resize(n)

ListSpec == Init /\ [][ListNext]_vars
-----------------------------------------------------------------------------
(* Properties                                                              *)

\* Every used cell was written: no caller ever reads an uninitialized element,
\* whatever the sequence of extensions, moves, shrinks and truncations.
UsedCellsWritten ==
    live => len <= capacity /\ \A i \in Slots(len) : arr[i] \in Key

\* The precondition of bsearch, that nothing in the code checks: the list is in
\* order at every moment a search may begin or is in progress.
Sorted == Ordered(arr, len)

\* The window of a search never excludes the element it looks for: what is left
\* of it is smaller, what is right of it is greater.
WindowSound ==
    /\ pc = "bsearch" =>
         /\ 0 <= left /\ left <= right + 1 /\ right < len
         /\ \A i \in Slots(len) : (i < left => arr[i] < elem) /\ (right < i => elem < arr[i])
    /\ pc = "search" =>
         /\ 0 <= left /\ left <= right /\ right <= len
         /\ \A i \in Slots(len) : (i < left => arr[i] < elem) /\ (right <= i => elem < arr[i])

\* The copy of a new element lands in the block, at a place that keeps the order.
StoreSound ==
    pc = "store" =>
         /\ len < capacity
         /\ left \in 0 .. len
         /\ op = "insert" => \A i \in Slots(len) : (i < left => arr[i] <= elem)
                                               /\ (left <= i => elem <= arr[i])

\* A symbol table's list is a set of keys: every search answers by what was
\* inserted, and a failed insertion loses nothing (arraylist.h:52-60,191-208).
Lookups == INSTANCE LookupSet WITH
    keys <- Stored,
    pending <- IF pc = "idle" THEN "idle" ELSE op,
    asked <- elem,
    answer <- ret
Implements == Lookups!Spec

\* Every call returns: the dichotomies terminate.
CallsReturn == pc # "idle" ~> pc = "idle"

\* Until it is sorted or freed a list keeps its elements in the order they were
\* appended: FunctionST_is_defined_before_use compares places in the list.
InsertionOrderKept ==
    [][op' # "sort" /\ live /\ live' =>
         \A i \in Slots(len) : i < len' => arr'[i] = arr[i]]_vars
=============================================================================
