------------------------------ MODULE LookupSet ------------------------------
(***************************************************************************)
(* What arraylist.h promises of a list that is only used through           *)
(* ArrayList_sorted_insert, ArrayList_search and ArrayList_contains: a set *)
(* of keys.  The caller asks one question at a time; the answer comes in   *)
(* one step, and an insertion may fail for want of memory without losing   *)
(* anything.                                                               *)
(***************************************************************************)
CONSTANT Key

VARIABLES keys,     \* the keys inserted so far
          pending,  \* the call in progress, or "idle"
          asked,    \* its argument
          answer    \* the result of the last call

vars == <<keys, pending, asked, answer>>

Init == /\ keys = {}
        /\ pending = "idle"
        /\ asked \in Key
        /\ answer = "none"

\* The caller calls ArrayList_sorted_insert or ArrayList_search.
Ask(op, k) ==
    /\ pending = "idle"
    /\ pending' = op
    /\ asked' = k
    /\ answer' = "none"
    /\ UNCHANGED keys

\* ARRAYLIST_ERR_NONE
Add ==
    /\ pending = "insert"
    /\ pending' = "idle"
    /\ keys' = keys \cup {asked}
    /\ answer' = "ok"
    /\ UNCHANGED asked

\* ARRAYLIST_ERR_ALLOC
Fail ==
    /\ pending = "insert"
    /\ pending' = "idle"
    /\ answer' = "alloc"
    /\ UNCHANGED <<keys, asked>>

Lookup ==
    /\ pending = "search"
    /\ pending' = "idle"
    /\ answer' = IF asked \in keys THEN "found" ELSE "absent"
    /\ UNCHANGED <<keys, asked>>

Next == \/ \E op \in {"insert", "search"}, k \in Key : Ask(op, k)
        \/ Add
        \/ Fail
        \/ Lookup

Spec == Init /\ [][Next]_vars
=============================================================================
