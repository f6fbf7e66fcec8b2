--------------------------- MODULE ArrayListProofs ---------------------------
(***************************************************************************)
(* Proofs about ArrayList, for every set of keys and every capacity: as a  *)
(* symbol table uses it the list stays in order in its block and is the    *)
(* set that LookupSet describes; any other list stays in its block.        *)
(***************************************************************************)
EXTENDS ArrayList, TLAPS

\* What a symbol table adds to TypeOK: the list is never freed, a step of a
\* function belongs to a call of that function, and only an extended list is
\* searched for a place.
CallsMatch ==
    /\ live
    /\ capacity > 0
    /\ pc = "extend" => op = "insert"
    /\ pc \in {"bsearch", "store"} => op = "insert" /\ len < capacity
    /\ pc = "search" => op = "search"

\* The invariant that is inductive: Sorted alone is not, since it is the window
\* of the search that puts the new element in its place.
IInv == TypeOK /\ CallsMatch /\ UsedCellsWritten /\ Sorted /\ WindowSound /\ StoreSound

\* The middle of a window lies in it, and below its right end when the window is
\* half-open: `(left + right) / 2' of the two dichotomies.
LEMMA MiddleInWindow ==
    ASSUME NEW l \in Int, NEW r \in Int
    PROVE  /\ Middle(l, r) \in Int
           /\ l <= r => l <= Middle(l, r) /\ Middle(l, r) <= r
           /\ l < r => l <= Middle(l, r) /\ Middle(l, r) < r
  BY DEF Middle

\* Multiplying the capacity makes room for one more element.
LEMMA ExtendedIsLarger ==
    ASSUME NEW c \in Nat, c > 0
    PROVE  c * Multiplier \in Nat /\ c < c * Multiplier
<1>1. c * 2 <= c * Multiplier
  <2>1. \A m \in Nat : m >= 2 => c * 2 <= c * m
    BY SMT
  <2> QED  BY <2>1, MultiplierAssumption
<1>2. c * Multiplier \in Nat
  BY MultiplierAssumption
<1> QED  BY <1>1, <1>2

\* The list as ArrayList_init makes it satisfies the invariant.
LEMMA InitIInv == Init => IInv
<1> SUFFICES ASSUME Init PROVE IInv
  OBVIOUS
<1> USE CapacityAssumption DEF Init, Block, Slots
<1>1. TypeOK
  BY DEF TypeOK
<1>2. CallsMatch /\ UsedCellsWritten /\ Sorted /\ WindowSound /\ StoreSound
  BY DEF CallsMatch, UsedCellsWritten, Sorted, Ordered, WindowSound, StoreSound
<1> QED  BY <1>1, <1>2 DEF IInv

\* Every step of a symbol table keeps the invariant.
LEMMA NextIInv == IInv /\ [SortedNext]_vars => IInv'
<1> SUFFICES ASSUME IInv, [SortedNext]_vars PROVE IInv'
  OBVIOUS
<1> USE DEF IInv
<1>1. ASSUME NEW k \in Key, CallInsert(k) PROVE IInv'
  BY <1>1 DEF CallInsert, Call, list, TypeOK, CallsMatch, UsedCellsWritten, Sorted,
              Ordered, WindowSound, StoreSound, Slots
<1>2. ASSUME NEW k \in Key, CallSearch(k) PROVE IInv'
  BY <1>2 DEF CallSearch, Call, list, TypeOK, CallsMatch, UsedCellsWritten, Sorted,
              Ordered, WindowSound, StoreSound, Slots
<1>3. CASE Extend
  <2>1. CASE MustExtend
    <3>1. Extended \in Nat /\ capacity < Extended
      BY ExtendedIsLarger DEF Extended, TypeOK, CallsMatch
    <3>2. /\ arr' = [i \in Slots(Extended) |-> IF i < capacity THEN arr[i] ELSE Junk]
          /\ capacity' = Extended
      BY <1>3, <2>1 DEF Extend, Realloc
    <3>3. /\ pc' = "bsearch" /\ left' = 0 /\ right' = len - 1 /\ op = "insert"
          /\ UNCHANGED <<len, live, op, elem, ret>>
      BY <1>3 DEF Extend, AfterExtend, CallsMatch
    <3>4. len < Extended /\ len <= capacity
      BY <3>1 DEF UsedCellsWritten, CallsMatch, TypeOK
    <3>5. TypeOK'
      BY <3>1, <3>2, <3>3 DEF TypeOK, Slots
    <3>6. \A i \in Slots(len) : arr'[i] = arr[i]
      BY <3>1, <3>2, <3>4 DEF TypeOK, Slots
    <3>7. CallsMatch'
      BY <3>1, <3>2, <3>3, <3>4 DEF CallsMatch, TypeOK
    <3>8. UsedCellsWritten' /\ Sorted' /\ WindowSound' /\ StoreSound'
      BY <3>1, <3>2, <3>3, <3>4, <3>6
         DEF UsedCellsWritten, Sorted, Ordered, WindowSound, StoreSound, TypeOK, CallsMatch, Slots
    <3> QED  BY <3>5, <3>7, <3>8
  <2>2. CASE ~MustExtend
    BY <1>3, <2>2 DEF Extend, AfterExtend, MustExtend, TypeOK, CallsMatch, UsedCellsWritten,
                      Sorted, Ordered, WindowSound, StoreSound, Slots
  <2> QED  BY <2>1, <2>2
<1>4. CASE ExtendFails
  BY <1>4 DEF ExtendFails, Return, TypeOK, CallsMatch, UsedCellsWritten, Sorted, Ordered,
              WindowSound, StoreSound, Slots
<1>5. CASE BsearchStep
  <2> DEFINE mid == Middle(left, right)
  <2>1. /\ pc = "bsearch" /\ left <= right
        /\ UNCHANGED <<arr, len, capacity, live, op, elem, ret>>
        /\ \/ elem = arr[mid] /\ left' = mid /\ pc' = "store" /\ right' = right
           \/ elem < arr[mid] /\ right' = mid - 1 /\ left' = left /\ pc' = pc
           \/ elem > arr[mid] /\ left' = mid + 1 /\ right' = right /\ pc' = pc
    BY <1>5 DEF BsearchStep
  <2>2. mid \in Int /\ left <= mid /\ mid <= right
    BY <2>1, MiddleInWindow DEF TypeOK
  <2>3. mid \in Slots(len) /\ op = "insert" /\ len < capacity
    BY <2>1, <2>2 DEF WindowSound, TypeOK, Slots, CallsMatch
  <2>4. \A i \in Slots(len) : arr[i] \in Int
    BY KeyAssumption DEF UsedCellsWritten, CallsMatch
  <2>5. elem \in Int
    BY KeyAssumption DEF TypeOK
  <2> HIDE DEF mid
  <2>6. TypeOK' /\ CallsMatch' /\ UsedCellsWritten' /\ Sorted'
    BY <2>1, <2>2, <2>3 DEF TypeOK, CallsMatch, UsedCellsWritten, Sorted, Ordered, Slots
  <2>7. /\ \A i \in Slots(len) : i < mid => arr[i] <= arr[mid]
        /\ \A i \in Slots(len) : mid < i => arr[mid] <= arr[i]
    BY <2>3 DEF Sorted, Ordered
  <2>8. WindowSound' /\ StoreSound'
    <3>1. CASE elem = arr[mid]
      BY <2>1, <2>2, <2>3, <2>4, <2>5, <2>7, <3>1 DEF WindowSound, StoreSound, TypeOK, Slots
    <3>2. CASE elem < arr[mid]
      BY <2>1, <2>2, <2>3, <2>4, <2>5, <2>7, <3>2 DEF WindowSound, StoreSound, TypeOK, Slots
    <3>3. CASE elem > arr[mid]
      BY <2>1, <2>2, <2>3, <2>4, <2>5, <2>7, <3>3 DEF WindowSound, StoreSound, TypeOK, Slots
    <3> QED  BY <2>1, <3>1, <3>2, <3>3
  <2> QED  BY <2>6, <2>8
<1>6. CASE BsearchExit
  <2>1. \A i \in Slots(len) : arr[i] \in Int
    BY KeyAssumption DEF UsedCellsWritten, CallsMatch
  <2>2. elem \in Int
    BY KeyAssumption DEF TypeOK
  <2> QED
    BY <1>6, <2>1, <2>2 DEF BsearchExit, TypeOK, CallsMatch, UsedCellsWritten, Sorted, Ordered,
              WindowSound, StoreSound, Slots
<1>7. CASE Store
  <2>1. /\ pc = "store" /\ pc' = "idle" /\ ret' = "ok"
        /\ arr' = Inserted(left, elem) /\ len' = len + 1
        /\ UNCHANGED <<capacity, live, op, elem, left, right>>
    BY <1>7 DEF Store, Return
  <2>2. /\ len < capacity /\ left \in 0 .. len /\ len \in Nat /\ capacity \in Nat
        /\ \A i \in Slots(len) : (i < left => arr[i] <= elem) /\ (left <= i => elem <= arr[i])
    BY <2>1 DEF StoreSound, CallsMatch, TypeOK
  <2>3. \A i \in Slots(len) : arr[i] \in Key /\ arr[i] \in Int
    BY KeyAssumption DEF UsedCellsWritten, CallsMatch
  <2>4. elem \in Key /\ elem \in Int
    BY KeyAssumption DEF TypeOK
  <2>5. \A i \in Slots(capacity) :
          arr'[i] = IF i = left THEN elem
                    ELSE IF left < i /\ i <= len THEN arr[i - 1] ELSE arr[i]
    BY <2>1 DEF Inserted
  <2>6. TypeOK'
    <3>1. \A i \in Slots(capacity) : left < i => i - 1 \in Slots(capacity)
      BY <2>2 DEF Slots
    <3>2. Inserted(left, elem) \in [Slots(capacity) -> Key \cup {Junk}]
      BY <3>1 DEF Inserted, TypeOK
    <3> QED  BY <2>1, <3>2 DEF TypeOK
  <2>7. \A i \in Slots(len + 1) :
          /\ arr'[i] \in Key
          /\ i = left \/ (i < left /\ arr'[i] = arr[i] /\ i \in Slots(len))
                      \/ (left < i /\ arr'[i] = arr[i - 1] /\ i - 1 \in Slots(len))
    BY <2>2, <2>3, <2>4, <2>5 DEF Slots
  <2>8. CallsMatch' /\ UsedCellsWritten' /\ WindowSound' /\ StoreSound'
    BY <2>1, <2>2, <2>7 DEF CallsMatch, UsedCellsWritten, WindowSound, StoreSound
  <2>9. Sorted'
    <3> SUFFICES ASSUME NEW i \in Slots(len + 1), NEW j \in Slots(len + 1), i < j
                 PROVE  arr'[i] <= arr'[j]
      BY <2>1 DEF Sorted, Ordered
    <3>1. arr'[left] = elem
      BY <2>2, <2>5 DEF Slots
    <3>2. \A m, n \in Slots(len) : m < n => arr[m] <= arr[n]
      BY DEF Sorted, Ordered
    <3>3. i \in Int /\ j \in Int /\ left \in Int
      BY <2>2 DEF Slots
    <3>4. CASE i < left /\ j < left
      BY <2>7, <3>2, <3>3, <3>4
    <3>5. CASE i < left /\ j = left
      BY <2>2, <2>7, <3>1, <3>3, <3>5
    <3>6. CASE i < left /\ left < j
      <4>1. arr'[i] = arr[i] /\ i \in Slots(len) /\ arr'[j] = arr[j - 1] /\ j - 1 \in Slots(len)
        BY <2>7, <3>3, <3>6
      <4>2. i < j - 1 \/ i = j - 1
        BY <3>3, <3>6
      <4> QED  BY <2>3, <3>2, <4>1, <4>2
    <3>7. CASE i = left
      <4>1. arr'[j] = arr[j - 1] /\ j - 1 \in Slots(len) /\ left <= j - 1
        BY <2>7, <3>3, <3>7
      <4> QED  BY <2>2, <3>1, <3>7, <4>1
    <3>8. CASE left < i
      <4>1. /\ arr'[i] = arr[i - 1] /\ i - 1 \in Slots(len)
            /\ arr'[j] = arr[j - 1] /\ j - 1 \in Slots(len) /\ i - 1 < j - 1
        BY <2>7, <3>3, <3>8
      <4> QED  BY <3>2, <4>1
    <3> QED  BY <3>3, <3>4, <3>5, <3>6, <3>7, <3>8
  <2> QED  BY <2>6, <2>8, <2>9
<1>8. CASE SearchStep
  <2> DEFINE mid == Middle(left, right)
  <2>1. /\ pc = "search" /\ left < right
        /\ UNCHANGED <<arr, len, capacity, live, op, elem>>
        /\ \/ elem = arr[mid] /\ pc' = "idle" /\ ret' = "found" /\ UNCHANGED <<left, right>>
           \/ elem < arr[mid] /\ right' = mid /\ UNCHANGED <<left, pc, ret>>
           \/ elem > arr[mid] /\ left' = mid + 1 /\ UNCHANGED <<right, pc, ret>>
    BY <1>8 DEF SearchStep, Return
  <2>2. mid \in Int /\ left <= mid /\ mid < right
    BY <2>1, MiddleInWindow DEF TypeOK
  <2>3. mid \in Slots(len)
    BY <2>1, <2>2 DEF WindowSound, TypeOK, Slots
  <2>4. \A i \in Slots(len) : arr[i] \in Int
    BY KeyAssumption DEF UsedCellsWritten, CallsMatch
  <2>5. elem \in Int
    BY KeyAssumption DEF TypeOK
  <2> HIDE DEF mid
  <2>6. TypeOK' /\ CallsMatch' /\ UsedCellsWritten' /\ Sorted' /\ StoreSound'
    BY <2>1, <2>2 DEF TypeOK, CallsMatch, UsedCellsWritten, Sorted, Ordered, StoreSound, Slots
  <2>7. /\ \A i \in Slots(len) : i < mid => arr[i] <= arr[mid]
        /\ \A i \in Slots(len) : mid < i => arr[mid] <= arr[i]
    BY <2>3 DEF Sorted, Ordered
  <2>8. WindowSound'
    BY <2>1, <2>2, <2>3, <2>4, <2>5, <2>7 DEF WindowSound, TypeOK, Slots
  <2> QED  BY <2>6, <2>8
<1>9. CASE SearchMiss
  BY <1>9 DEF SearchMiss, Return, TypeOK, CallsMatch, UsedCellsWritten, Sorted, Ordered,
              WindowSound, StoreSound, Slots
<1>10. CASE UNCHANGED vars
  BY <1>10 DEF vars, TypeOK, CallsMatch, UsedCellsWritten, Sorted, Ordered, WindowSound,
               StoreSound, Slots
<1> QED
  BY <1>1, <1>2, <1>3, <1>4, <1>5, <1>6, <1>7, <1>8, <1>9, <1>10 DEF SortedNext, Step

\* The invariant holds of every behaviour of a symbol table.
THEOREM SortedInvariant == SortedSpec => []IInv
  BY InitIInv, NextIInv, PTL DEF SortedSpec

\* The state keeps its types, in particular the block its extent: every call of
\* realloc records the capacity it asked for.
THEOREM TypeCorrect == SortedSpec => []TypeOK
  BY SortedInvariant, PTL DEF IInv

\* Every list of symbols is in order whenever bsearch may be called on it.
THEOREM AlwaysSorted == SortedSpec => []Sorted
  BY SortedInvariant, PTL DEF IInv
\* No search ever loses what it looks for from its window, and none reads beyond
\* the used cells.
THEOREM WindowsAreSound == SortedSpec => []WindowSound
  BY SortedInvariant, PTL DEF IInv

\* A new element has a cell in the block, at a place that keeps the order.
THEOREM StoresAreSound == SortedSpec => []StoreSound
  BY SortedInvariant, PTL DEF IInv
-----------------------------------------------------------------------------
(* The list is a set of keys                                               *)

\* Storing an element adds it to the set of those stored, and only it.
LEMMA StoreAddsKey ==
    ASSUME IInv, Store
    PROVE  Stored' = Stored \cup {elem}
<1>1. /\ arr' = Inserted(left, elem) /\ len' = len + 1
      /\ len \in Nat /\ capacity \in Nat /\ len < capacity /\ left \in 0 .. len
  BY DEF Store, IInv, StoreSound, TypeOK
<1>2. \A i \in Slots(len + 1) :
        arr'[i] = IF i = left THEN elem
                  ELSE IF left < i /\ i <= len THEN arr[i - 1] ELSE arr[i]
  BY <1>1 DEF Inserted, Slots
<1>3. ASSUME NEW i \in Slots(len + 1) PROVE arr'[i] \in Stored \cup {elem}
  <2>1. CASE i = left
    BY <1>1, <1>2, <2>1
  <2>2. CASE i < left
    BY <1>1, <1>2, <2>2 DEF Stored, Slots
  <2>3. CASE left < i
    <3>1. arr'[i] = arr[i - 1] /\ i - 1 \in Slots(len)
      BY <1>1, <1>2, <2>3 DEF Slots
    <3> QED  BY <3>1 DEF Stored
  <2> QED  BY <1>1, <2>1, <2>2, <2>3 DEF Slots
<1>4. elem \in Stored'
  <2>1. arr'[left] = elem /\ left \in Slots(len + 1)
    BY <1>1, <1>2 DEF Slots
  <2> QED  BY <1>1, <2>1 DEF Stored
<1>5. ASSUME NEW i \in Slots(len) PROVE arr[i] \in Stored'
  <2>1. CASE i < left
    <3>1. arr'[i] = arr[i] /\ i \in Slots(len + 1)
      BY <1>1, <1>2, <2>1 DEF Slots
    <3> QED  BY <1>1, <3>1 DEF Stored
  <2>2. CASE left <= i
    <3>1. arr'[i + 1] = arr[i] /\ i + 1 \in Slots(len + 1)
      BY <1>1, <1>2, <2>2 DEF Slots
    <3> QED  BY <1>1, <3>1 DEF Stored
  <2> QED  BY <1>1, <2>1, <2>2 DEF Slots
<1>6. Stored' \subseteq Stored \cup {elem}
  BY <1>1, <1>3 DEF Stored
<1>7. Stored \subseteq Stored'
  BY <1>5 DEF Stored
<1> QED  BY <1>4, <1>6, <1>7

\* A step that changes no used cell changes no stored key.
LEMMA SameCellsSameKeys ==
    ASSUME len' = len, \A i \in Slots(len) : arr'[i] = arr[i]
    PROVE  Stored' = Stored
  BY DEF Stored

\* A search answers what the set answers: a hit is an element of the list, and
\* when the window is empty every element is smaller or greater.
LEMMA SearchAnswers ==
    ASSUME IInv
    PROVE  /\ SearchMiss => elem \notin Stored
           /\ SearchStep /\ pc' = "idle" => elem \in Stored /\ ret' = "found"
<1>1. ASSUME SearchMiss PROVE elem \notin Stored
  <2>1. \A i \in Slots(len) : arr[i] < elem \/ elem < arr[i]
    BY <1>1 DEF SearchMiss, IInv, WindowSound, TypeOK, Slots
  <2>2. elem \in Int /\ \A i \in Slots(len) : arr[i] \in Int
    BY KeyAssumption DEF IInv, TypeOK, UsedCellsWritten, CallsMatch
  <2> QED  BY <2>1, <2>2 DEF Stored
<1>2. ASSUME SearchStep, pc' = "idle" PROVE elem \in Stored /\ ret' = "found"
  <2>1. elem = arr[Middle(left, right)] /\ ret' = "found" /\ left < right /\ pc = "search"
    BY <1>2 DEF SearchStep, Return
  <2>2. Middle(left, right) \in Int /\ left <= Middle(left, right) /\ Middle(left, right) < right
    BY <2>1, MiddleInWindow DEF IInv, TypeOK
  <2>3. Middle(left, right) \in Slots(len)
    BY <2>1, <2>2 DEF IInv, WindowSound, TypeOK, Slots
  <2> QED  BY <2>1, <2>3 DEF Stored
<1> QED  BY <1>1, <1>2

\* The empty list is the empty set.
LEMMA InitLookups == Init => Lookups!Init
  BY DEF Init, Lookups!Init, Stored, Slots

\* Every step of the list is a step of the set, or leaves the set and the call
\* in progress as they were.
LEMMA NextLookups == IInv /\ [SortedNext]_vars => [Lookups!Next]_(Lookups!vars)
<1> SUFFICES ASSUME IInv, [SortedNext]_vars PROVE [Lookups!Next]_(Lookups!vars)
  OBVIOUS
<1> USE DEF Lookups!Next, Lookups!vars
<1>1. ASSUME NEW k \in Key, CallInsert(k) PROVE Lookups!Next
  <2>1. Lookups!Ask("insert", k)
    BY <1>1 DEF CallInsert, Call, list, Lookups!Ask, Stored
  <2> QED  BY <2>1
<1>2. ASSUME NEW k \in Key, CallSearch(k) PROVE Lookups!Next
  <2>1. Lookups!Ask("search", k)
    BY <1>2 DEF CallSearch, Call, list, Lookups!Ask, Stored
  <2> QED  BY <2>1
<1>3. CASE Extend
  <2>1. /\ pc = "extend" /\ op = "insert" /\ pc' = "bsearch"
        /\ UNCHANGED <<len, op, elem, ret>>
    BY <1>3 DEF Extend, AfterExtend, IInv, CallsMatch
  <2>2. \A i \in Slots(len) : arr'[i] = arr[i]
    <3>1. CASE MustExtend
      <4>1. Extended \in Nat /\ capacity < Extended
        BY ExtendedIsLarger DEF Extended, IInv, TypeOK, CallsMatch
      <4>2. arr' = [i \in Slots(Extended) |-> IF i < capacity THEN arr[i] ELSE Junk]
        BY <1>3, <3>1 DEF Extend, Realloc
      <4> QED  BY <4>1, <4>2 DEF IInv, UsedCellsWritten, CallsMatch, TypeOK, Slots
    <3>2. CASE ~MustExtend
      BY <1>3, <3>2 DEF Extend
    <3> QED  BY <3>1, <3>2
  <2>3. Stored' = Stored
    BY <2>1, <2>2, SameCellsSameKeys
  <2> QED  BY <2>1, <2>3
<1>4. CASE ExtendFails
  <2>1. Lookups!Fail
    BY <1>4 DEF ExtendFails, Return, Lookups!Fail, Stored, IInv, CallsMatch
  <2> QED  BY <2>1
<1>5. CASE BsearchStep \/ BsearchExit
  BY <1>5 DEF BsearchStep, BsearchExit, Stored
<1>6. CASE Store
  <2>1. Lookups!Add
    BY <1>6, StoreAddsKey DEF Store, Return, Lookups!Add, IInv, CallsMatch
  <2> QED  BY <2>1
<1>7. CASE SearchStep
  <2>1. Stored' = Stored /\ op' = op /\ elem' = elem /\ pc = "search" /\ op = "search"
    BY <1>7 DEF SearchStep, Stored, IInv, CallsMatch
  <2>2. CASE pc' = "idle"
    <3>1. Lookups!Lookup
      BY <1>7, <2>1, <2>2, SearchAnswers DEF Lookups!Lookup
    <3> QED  BY <3>1
  <2>3. CASE pc' # "idle"
    BY <1>7, <2>1, <2>3 DEF SearchStep, Return
  <2> QED  BY <2>2, <2>3
<1>8. CASE SearchMiss
  <2>1. Lookups!Lookup
    BY <1>8, SearchAnswers DEF SearchMiss, Return, Lookups!Lookup, Stored, IInv, CallsMatch
  <2> QED  BY <2>1
<1>9. CASE UNCHANGED vars
  BY <1>9 DEF vars, Stored
<1> QED
  BY <1>1, <1>2, <1>3, <1>4, <1>5, <1>6, <1>7, <1>8, <1>9 DEF SortedNext, Step

\* ArrayList implements the set that its header describes: ArrayList_contains is
\* true of a name exactly when the name was inserted, for lists of any length.
THEOREM ImplementsLookupSet == SortedSpec => Implements
  BY SortedInvariant, InitLookups, NextLookups, PTL DEF SortedSpec, Implements, Lookups!Spec
-----------------------------------------------------------------------------
(* Any list: its cells and the places of its elements                      *)


\* An append runs in a block that is there, and stores behind the last element,
\* where it found or made room.
Appends ==
    /\ pc \in {"idle", "extend", "store"}
    /\ pc # "idle" => live
    /\ pc = "extend" => op = "append"
    /\ pc = "store" => len < capacity /\ left = len

\* A block that may be used has a cell: twice nothing would be no room.
ListInv == TypeOK /\ Appends /\ UsedCellsWritten /\ (live => capacity > 0)

LEMMA InitListInv == Init => ListInv
<1> SUFFICES ASSUME Init PROVE ListInv
  OBVIOUS
<1> USE CapacityAssumption DEF Init, Block, Slots
<1> QED  BY DEF ListInv, TypeOK, Appends, UsedCellsWritten

\* A block of n cells that keeps those in use.
LEMMA ReallocKeeps ==
    ASSUME ListInv, live, NEW n \in Nat, len <= n, Realloc(n)
    PROVE  /\ arr' \in [Slots(capacity') -> Key \cup {Junk}] /\ capacity' = n
           /\ \A i \in Slots(len) : arr'[i] = arr[i] /\ arr[i] \in Key
<1>1. /\ arr' = [i \in Slots(n) |-> IF i < capacity THEN arr[i] ELSE Junk] /\ capacity' = n
      /\ arr \in [Slots(capacity) -> Key \cup {Junk}] /\ capacity \in Nat /\ len \in Nat
      /\ len <= capacity /\ \A i \in Slots(len) : arr[i] \in Key
  BY DEF Realloc, ListInv, TypeOK, UsedCellsWritten
<1>2. \A i \in Slots(n) : i < capacity => i \in Slots(capacity)
  BY <1>1 DEF Slots
<1>3. \A i \in Slots(len) : i \in Slots(n) /\ i < capacity
  BY <1>1 DEF Slots
<1> QED  BY <1>1, <1>2, <1>3

\* An extension, and the place of the element behind the others.
LEMMA ExtendStep ==
    ASSUME ListInv, Extend
    PROVE  ListInv' /\ \A i \in Slots(len) : arr'[i] = arr[i]
<1>1. /\ pc = "extend" /\ op = "append" /\ live /\ capacity \in Nat /\ capacity > 0
      /\ len \in Nat /\ len <= capacity
  BY DEF Extend, ListInv, Appends, TypeOK, UsedCellsWritten
<1>2. /\ pc' = "store" /\ left' = len /\ right' = len - 1
      /\ UNCHANGED <<len, live, op, elem, ret>>
  BY <1>1 DEF Extend, AfterExtend
<1>3. CASE MustExtend
  <2>1. Extended \in Nat /\ capacity < Extended
    BY <1>1, ExtendedIsLarger DEF Extended
  <2>2. Realloc(Extended)
    BY <1>3 DEF Extend
  <2>3. /\ arr' \in [Slots(capacity') -> Key \cup {Junk}] /\ capacity' = Extended
        /\ \A i \in Slots(len) : arr'[i] = arr[i] /\ arr[i] \in Key
    BY <1>1, <2>1, <2>2, ReallocKeeps
  <2> QED
    BY <1>1, <1>2, <2>1, <2>3 DEF ListInv, TypeOK, Appends, UsedCellsWritten
<1>4. CASE ~MustExtend
  BY <1>1, <1>2, <1>4 DEF Extend, MustExtend, ListInv, TypeOK, Appends, UsedCellsWritten
<1> QED  BY <1>3, <1>4

\* The copy of the element behind the others.
LEMMA StoreStep ==
    ASSUME ListInv, Store
    PROVE  ListInv' /\ \A i \in Slots(len) : arr'[i] = arr[i]
<1>1. /\ pc = "store" /\ live /\ left = len /\ len < capacity /\ len \in Nat /\ capacity \in Nat
      /\ elem \in Key /\ arr \in [Slots(capacity) -> Key \cup {Junk}]
      /\ \A i \in Slots(len) : arr[i] \in Key
  BY DEF Store, ListInv, Appends, TypeOK, UsedCellsWritten
<1>2. /\ arr' = Inserted(len, elem) /\ len' = len + 1 /\ pc' = "idle" /\ ret' = "ok"
      /\ UNCHANGED <<capacity, live, op, elem, left, right>>
  BY <1>1 DEF Store, Return
<1>3. \A i \in Slots(capacity) : ~(len < i /\ i <= len)
  BY <1>1 DEF Slots
<1>4. arr' = [i \in Slots(capacity) |-> IF i = len THEN elem ELSE arr[i]]
  BY <1>2, <1>3 DEF Inserted
<1>5. /\ \A i \in Slots(len) : i \in Slots(capacity) /\ i # len
      /\ \A i \in Slots(len + 1) : i \in Slots(capacity) /\ (i = len \/ i \in Slots(len))
  BY <1>1 DEF Slots
<1>6. /\ \A i \in Slots(len) : arr'[i] = arr[i]
      /\ \A i \in Slots(len + 1) : arr'[i] \in Key
      /\ arr' \in [Slots(capacity) -> Key \cup {Junk}]
  BY <1>1, <1>4, <1>5
<1> QED  BY <1>1, <1>2, <1>6 DEF ListInv, TypeOK, Appends, UsedCellsWritten

\* A block that loses the cells nothing was written into, or is lost itself.
LEMMA ShrinkStep ==
    ASSUME ListInv, ShrinkToFit
    PROVE  ListInv' /\ \A i \in Slots(len) : arr'[i] = arr[i]
<1>1. /\ pc = "idle" /\ live /\ len \in Nat /\ capacity \in Nat
      /\ op' = "shrink" /\ UNCHANGED <<pc, elem, left, right, len>>
      /\ \A i \in Slots(len) : arr[i] \in Key
  BY DEF ShrinkToFit, Direct, ListInv, TypeOK, UsedCellsWritten
<1>2. CASE len > 0 /\ Realloc(len) /\ Direct("shrink", "ok") /\ UNCHANGED live
  <2>1. /\ arr' \in [Slots(capacity') -> Key \cup {Junk}] /\ capacity' = len
        /\ \A i \in Slots(len) : arr'[i] = arr[i] /\ arr[i] \in Key
    BY <1>1, <1>2, ReallocKeeps
  <2> QED
    BY <1>1, <1>2, <2>1 DEF Direct, ListInv, TypeOK, Appends, UsedCellsWritten
<1>3. CASE len > 0 /\ Direct("shrink", "alloc") /\ UNCHANGED <<arr, capacity, live>>
  BY <1>1, <1>3 DEF Direct, ListInv, TypeOK, Appends, UsedCellsWritten
<1>4. CASE len = 0 /\ Direct("shrink", "alloc") /\ live' = FALSE /\ UNCHANGED <<arr, capacity>>
  BY <1>1, <1>4 DEF Direct, ListInv, TypeOK, Appends, UsedCellsWritten
<1> QED  BY <1>2, <1>3, <1>4 DEF ShrinkToFit

\* Sorting permutes the used cells.
LEMMA SortStep ==
    ASSUME ListInv, Sort
    PROVE  ListInv' /\ op' = "sort"
<1>1. PICK p \in [Slots(len) -> Slots(len)] : arr' = SortedBy(p)
  BY DEF Sort
<1>2. /\ pc = "idle" /\ live /\ len \in Nat /\ capacity \in Nat /\ len <= capacity
      /\ arr \in [Slots(capacity) -> Key \cup {Junk}]
      /\ \A i \in Slots(len) : arr[i] \in Key
      /\ op' = "sort" /\ ret' = "ok" /\ UNCHANGED <<pc, elem, left, right, len, capacity, live>>
  BY DEF Sort, Direct, ListInv, TypeOK, UsedCellsWritten
<1>3. /\ \A i \in Slots(capacity) : i < len => i \in Slots(len)
      /\ \A i \in Slots(len) : i \in Slots(capacity) /\ i < len
  BY <1>2 DEF Slots
<1>4. \A i \in Slots(len) : arr[p[i]] \in Key
  BY <1>2
<1>5. arr' \in [Slots(capacity) -> Key \cup {Junk}] /\ \A i \in Slots(len) : arr'[i] \in Key
  BY <1>1, <1>2, <1>3, <1>4 DEF SortedBy
<1> QED  BY <1>2, <1>5 DEF ListInv, TypeOK, Appends, UsedCellsWritten

\* What a step does to the cells in use before it and after it.
CellsKept == op' # "sort" /\ live /\ live' => \A i \in Slots(len) : i < len' => arr'[i] = arr[i]

LEMMA NextListInv == ListInv /\ [ListNext]_vars => ListInv' /\ CellsKept
<1> SUFFICES ASSUME ListInv, [ListNext]_vars PROVE ListInv' /\ CellsKept
  OBVIOUS
<1> USE DEF ListInv, CellsKept
<1>1. ASSUME NEW k \in Key, CallAppend(k) PROVE ListInv' /\ CellsKept
  BY <1>1 DEF CallAppend, Call, list, TypeOK, Appends, UsedCellsWritten
<1>2. CASE Extend
  BY <1>2, ExtendStep
<1>3. CASE ExtendFails
  BY <1>3 DEF ExtendFails, Return, TypeOK, Appends, UsedCellsWritten
<1>4. CASE Store
  BY <1>4, StoreStep
<1>5. CASE Pop
  BY <1>5 DEF Pop, Direct, TypeOK, Appends, UsedCellsWritten, Slots
<1>6. CASE Clear
  BY <1>6 DEF Clear, Direct, TypeOK, Appends, UsedCellsWritten, Slots
<1>7. CASE Sort
  BY <1>7, SortStep
<1>8. CASE ShrinkToFit
  BY <1>8, ShrinkStep
<1>9. CASE Free
  BY <1>9 DEF Free, Direct, Block, TypeOK, Appends, UsedCellsWritten, Slots
<1>10. CASE Reinit
  BY <1>10, CapacityAssumption DEF Reinit, Direct, Block, TypeOK, Appends, UsedCellsWritten, Slots
<1>11. ASSUME NEW n \in 0 .. len, Resize(n) PROVE ListInv' /\ CellsKept
  BY <1>11 DEF Resize, Direct, TypeOK, Appends, UsedCellsWritten, Slots
<1>12. CASE UNCHANGED vars
  BY <1>12 DEF vars, TypeOK, Appends, UsedCellsWritten
<1> QED
  BY <1>1, <1>2, <1>3, <1>4, <1>5, <1>6, <1>7, <1>8, <1>9, <1>10, <1>11, <1>12 DEF ListNext

\* No cell is used that nothing was copied into, and none outside the block,
\* whatever was called before.
THEOREM OnlyWrittenCellsUsed == ListSpec => []UsedCellsWritten
<1>1. ListInv => UsedCellsWritten
  BY DEF ListInv
<1> QED  BY <1>1, InitListInv, NextListInv, PTL DEF ListSpec

\* The elements keep their places until the list is sorted or freed, through
\* every extension, failed or not: FunctionST_is_defined_before_use relies on it.
THEOREM PlacesKept == ListSpec => InsertionOrderKept
<1>1. CellsKept => [op' # "sort" /\ live /\ live' =>
                      \A i \in Slots(len) : i < len' => arr'[i] = arr[i]]_vars
  BY DEF CellsKept
<1> QED  BY <1>1, InitListInv, NextListInv, PTL DEF ListSpec, InsertionOrderKept
=============================================================================
