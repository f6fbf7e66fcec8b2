-------------------------------- MODULE Scopes --------------------------------
(***************************************************************************)
(* What the symbol tables promise of names: a program declares names in    *)
(* scopes, and it is faulty as soon as one scope declares a name twice.    *)
(* The functions and the global variables share one scope; the parameters  *)
(* and the local variables of a function share another.                    *)
(***************************************************************************)
EXTENDS Naturals, Sequences

CONSTANTS Name,     \* the names a program may declare
          Builtins  \* the sequence of names declared beforehand

VARIABLES global,   \* names of the outer scope
          inner,    \* names of the scope of the function being read
          defined,  \* the functions, in the order of their definitions
          faulty    \* some scope declared a name twice

vars == <<global, inner, defined, faulty>>

Init == /\ global = {}
        /\ inner = {}
        /\ defined = <<>>
        /\ faulty = FALSE

DeclareBuiltin ==
    /\ Len(defined) < Len(Builtins)
    /\ global' = global \cup {Builtins[Len(defined) + 1]}
    /\ defined' = Append(defined, Builtins[Len(defined) + 1])
    /\ UNCHANGED <<inner, faulty>>

DeclareGlobal(x) ==
    /\ global' = global \cup {x}
    /\ faulty' = (faulty \/ x \in global)
    /\ UNCHANGED <<inner, defined>>

\* A function definition opens a scope of its own.
DeclareFunction(x) ==
    /\ global' = global \cup {x}
    /\ faulty' = (faulty \/ x \in global)
    /\ inner' = {}
    /\ UNCHANGED defined

\* A parameter or a local variable.
DeclareInner(x) ==
    /\ inner' = inner \cup {x}
    /\ faulty' = (faulty \/ x \in inner)
    /\ UNCHANGED <<global, defined>>

\* The end of a definition.
CloseFunction(x) ==
    /\ defined' = Append(defined, x)
    /\ UNCHANGED <<global, inner, faulty>>

Next == \/ DeclareBuiltin
        \/ \E x \in Name :
             DeclareGlobal(x) \/ DeclareFunction(x) \/ DeclareInner(x) \/ CloseFunction(x)

Spec == Init /\ [][Next]_vars
===============================================================================
