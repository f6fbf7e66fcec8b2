-------------------------------- MODULE Typing --------------------------------
(***************************************************************************)
(* The rules of the language about names, types and calls, one set of      *)
(* places for each rule: the abstract specification of semantic.c.         *)
(*                                                                         *)
(* A place is the path from the body of a function to a node.  Here        *)
(* s = [prog, d] is the definition d of a function in the program prog of  *)
(* module Program, with prog.types[f][x] the type "byte" or "num" of the   *)
(* name x declared in f, or in "" for the global variables.                *)
(***************************************************************************)
EXTENDS Naturals, Sequences
LOCAL INSTANCE SequencesExt

RECURSIVE Places(_), NodeAt(_, _)
Places(n) ==
    {<<>>} \cup UNION {{<<i>> \o p : p \in Places(n.child[i])} : i \in DOMAIN n.child}
NodeAt(n, p) == IF p = <<>> THEN n ELSE NodeAt(n.child[Head(p)], Tail(p))

At(s, p) == NodeAt(s.d.body, p)
Above(s, p) == At(s, Front(p))
PlacesIn(s) == Places(s.d.body)
-----------------------------------------------------------------------------
(* Names                                                                   *)

Standard == [putchar |-> "void", putint |-> "void", getchar |-> "byte", getint |-> "num"]
StandardParams == [putchar |-> <<[kind |-> "value", type |-> "byte"]>>,
                   putint |-> <<[kind |-> "value", type |-> "num"]>>,
                   getchar |-> <<>>, getint |-> <<>>]

Declares(symbols, x) == \E i \in DOMAIN symbols : symbols[i].ident = x
KindIn(symbols, x) == symbols[CHOOSE i \in DOMAIN symbols : symbols[i].ident = x].kind
Defines(prog, x) == Declares(prog.functions, x)
Definition(prog, x) == prog.functions[CHOOSE i \in DOMAIN prog.functions : prog.functions[i].ident = x]

Inner(s) == s.d.params \o s.d.locals
Known(s, x) == \/ Declares(Inner(s), x) \/ Declares(s.prog.globals, x)
               \/ Defines(s.prog, x) \/ x \in DOMAIN Standard

\* What a name stands for: the innermost declaration hides the others.
Kind(s, x) == IF Declares(Inner(s), x) THEN KindIn(Inner(s), x)
              ELSE IF Declares(s.prog.globals, x) THEN KindIn(s.prog.globals, x)
              ELSE "function"
Type(s, x) == IF Declares(Inner(s), x) THEN s.prog.types[s.d.ident][x]
              ELSE IF Declares(s.prog.globals, x) THEN s.prog.types[""][x]
              ELSE IF Defines(s.prog, x) THEN Definition(s.prog, x).type
              ELSE Standard[x]

\* The parameters of a function, and the functions defined when f calls.
Signature(s, f) ==
    IF ~Defines(s.prog, f) THEN StandardParams[f]
    ELSE [i \in DOMAIN Definition(s.prog, f).params |->
             LET param == Definition(s.prog, f).params[i]
             IN [kind |-> param.kind, type |-> s.prog.types[f][param.ident]]]
DefinedBefore(s, f) ==
    Defines(s.prog, f) =>
        \E i, j \in DOMAIN s.prog.functions :
           i <= j /\ s.prog.functions[i].ident = f /\ s.prog.functions[j].ident = s.d.ident
-----------------------------------------------------------------------------
(* What a node is for                                                      *)

Operators == {"AddsubU", "Not", "Addsub", "Divstar", "Eq", "Order", "And", "Or"}

IsName(n) == n.label = "Ident" /\ n.child = <<>>
IsCall(n) == n.label = "Ident" /\ n.child # <<>>

IsArgument(s, p) == p # <<>> /\ Above(s, p).label = "ListExp"
IsTarget(s, p) == p # <<>> /\ Above(s, p).label = "Assignation" /\ Last(p) = 1
IsOperand(s, p) ==
    /\ p # <<>>
    /\ \/ Above(s, p).label \in Operators \cup {"ListExp", "Return", "ArrayLR"}
       \/ Above(s, p).label \in {"If", "While"} /\ Last(p) = 1
       \/ Above(s, p).label = "Assignation" /\ Last(p) = 2

\* The calls of a function, and the arguments that a parameter receives.
Calls(s) == {p \in PlacesIn(s) : /\ IsCall(At(s, p)) /\ Known(s, At(s, p).ident)
                                 /\ Kind(s, At(s, p).ident) = "function"}
Callee(s, p) == Signature(s, At(s, p).ident)
ArgumentsOf(s, p) == At(s, p).child[1].child
Received(s) == UNION {{p \o <<1, i>> : i \in DOMAIN ArgumentsOf(s, p) \cap DOMAIN Callee(s, p)}
                      : p \in Calls(s)}
Parameter(s, p) == Callee(s, Front(Front(p)))[Last(p)]

Arrays(s) == {p \in PlacesIn(s) : /\ IsName(At(s, p)) /\ Known(s, At(s, p).ident)
                                  /\ Kind(s, At(s, p).ident) = "array"}
ToArray(s) == {p \in Received(s) : Parameter(s, p).kind = "array"}
ToValue(s) == Received(s) \ ToArray(s)
-----------------------------------------------------------------------------
(* Types                                                                   *)

\* The places of the operands that an expression at p is made of.
RECURSIVE Operands(_, _)
Operands(s, p) == IF At(s, p).label \notin Operators THEN {p}
                  ELSE UNION {Operands(s, Append(p, i)) : i \in DOMAIN At(s, p).child}

OperandType(s, p) == CASE At(s, p).label = "Num" -> "num"
                       [] At(s, p).label = "Character" -> "byte"
                       [] OTHER -> Type(s, At(s, p).ident)
\* char is an operand of its own only; void spreads to all that it is part of.
ExpType(s, p) ==
    IF At(s, p).label \notin Operators THEN OperandType(s, p)
    ELSE IF \E q \in Operands(s, p) : OperandType(s, q) = "void" THEN "void" ELSE "num"

NamesKnown(s, p) == \A q \in Operands(s, p) :
                       At(s, q).label \in {"Ident", "ArrayLR"} => Known(s, At(s, q).ident)
Narrows(s, p, type) == NamesKnown(s, p) /\ type = "byte" /\ ExpType(s, p) = "num"
-----------------------------------------------------------------------------
(* The rules                                                               *)

Undeclared(s) == {p \in PlacesIn(s) : /\ At(s, p).label \in {"Ident", "ArrayLR"}
                                      /\ ~Known(s, At(s, p).ident)}

\* Only functions are called, and only after they were defined (a warning).
CalledValues(s) == {p \in PlacesIn(s) \ ToArray(s) : /\ IsCall(At(s, p)) /\ Known(s, At(s, p).ident)
                                                     /\ Kind(s, At(s, p).ident) # "function"}
\* A void function gives no value; where one is asked for, nothing more is said.
VoidOperands(s) == {p \in Calls(s) \ ToArray(s) :
                      IsOperand(s, p) /\ Type(s, At(s, p).ident) = "void"}
Called(s) == Calls(s) \ (VoidOperands(s) \cup ToArray(s))
Implicit(s) == {p \in Called(s) : ~DefinedBefore(s, At(s, p).ident)}

\* The first argument too many, or the call that has too few.
TooMany(s) == {p \o <<1, Len(Callee(s, p)) + 1>> :
                 p \in {q \in Called(s) : Len(ArgumentsOf(s, q)) > Len(Callee(s, q))}}
TooFew(s) == {p \in Called(s) : Len(ArgumentsOf(s, p)) < Len(Callee(s, p))}

\* Arrays are passed to arrays of the same type.
Mismatched(s) == {p \in ToArray(s) : /\ At(s, p).label \in {"Ident", "ArrayLR"}
                                     /\ Known(s, At(s, p).ident)
                                     /\ Kind(s, At(s, p).ident) # "array"}
                 \cup (ToValue(s) \cap Arrays(s))
OtherArray(s) == {p \in ToArray(s) : /\ At(s, p).label \in {"Ident", "ArrayLR"}
                                     /\ Known(s, At(s, p).ident)
                                     /\ Kind(s, At(s, p).ident) = "array"
                                     /\ Type(s, At(s, p).ident) # Parameter(s, p).type}
NotNames(s) == {p \in ToArray(s) : ~IsName(At(s, p))}

NotIndexed(s) == {p \in PlacesIn(s) \ ToArray(s) :
                    /\ At(s, p).label = "ArrayLR" /\ Known(s, At(s, p).ident)
                    /\ Kind(s, At(s, p).ident) # "array"}
NotRValues(s) ==
    VoidOperands(s) \cup
    {p \in PlacesIn(s) : /\ IsOperand(s, p) /\ IsName(At(s, p)) /\ Known(s, At(s, p).ident)
                         /\ Kind(s, At(s, p).ident) # "value"
                         /\ p \notin Mismatched(s) \cup ToArray(s)}
NotLValues(s) == {p \in PlacesIn(s) : /\ IsTarget(s, p) /\ IsName(At(s, p)) /\ Known(s, At(s, p).ident)
                                      /\ Kind(s, At(s, p).ident) # "value"}

Assigned(s) == {p \in PlacesIn(s) : /\ At(s, p).label = "Assignation"
                                    /\ Known(s, At(s, p).child[1].ident)
                                    /\ Append(p, 1) \notin NotLValues(s)
                                    /\ NamesKnown(s, Append(p, 2))}
VoidAssigned(s) == {p \in Assigned(s) : ExpType(s, Append(p, 2)) = "void"}

Returns(s) == {p \in PlacesIn(s) : At(s, p).label = "Return"}
Bare(s) == {p \in Returns(s) : At(s, p).child = <<>>}
NothingReturned(s) == IF s.d.type = "void" THEN {} ELSE Bare(s)
Returned(s) == {p \in Returns(s) \ Bare(s) : s.d.type = "void" /\ NamesKnown(s, Append(p, 1))}
VoidReturned(s) == {p \in Returned(s) : ExpType(s, Append(p, 1)) = "void"}

Narrowed(s) ==
    {p \in ToValue(s) \ Arrays(s) : Narrows(s, p, Parameter(s, p).type)}
    \cup {p \in Assigned(s) : Narrows(s, Append(p, 2), Type(s, At(s, p).child[1].ident))}
    \cup {p \in Returns(s) \ Bare(s) : Narrows(s, Append(p, 1), s.d.type)}

\* Of the body as a whole.
ReturnMissing(s) == {p \in {<<>>} : /\ s.d.type # "void"
                                    /\ \A i \in DOMAIN s.d.body.child : s.d.body.child[i].label # "Return"}

Tagged(s, kind, places) == {<<kind, s.d.ident, p>> : p \in places}
Problems(s) ==
    Tagged(s, "ERR_UNDECLARED_SYMBOL", Undeclared(s))
    \cup Tagged(s, "ERR_SEM_IS_NOT_CALLABLE", CalledValues(s))
    \cup Tagged(s, "WARN_USE_UNDEFINED_FUNCTION", Implicit(s))
    \cup Tagged(s, "ERR_INVALID_PARAM_COUNT", TooMany(s) \cup TooFew(s))
    \cup Tagged(s, "ERR_MISMATCH_ARRAY_TYPE", Mismatched(s))
    \cup Tagged(s, "ERR_INVALID_ARRAY_TYPE", OtherArray(s))
    \cup Tagged(s, "ERR_SUBSCRIPT_NOT_ARRAY", NotIndexed(s))
    \cup Tagged(s, "ERR_NOT_AN_RVALUE", NotRValues(s))
    \cup Tagged(s, "ERR_NOT_AN_LVALUE", NotLValues(s))
    \cup Tagged(s, "ERR_NO_VOID_EXPRESSION", VoidAssigned(s))
    \cup Tagged(s, "ERR_MUST_RETURN_VALUE", NothingReturned(s))
    \cup Tagged(s, "ERR_RETURN_VOID_EXPR", VoidReturned(s))
    \cup Tagged(s, "ERR_RETURN_TYPE_NON_VOID", Returned(s) \ VoidReturned(s))
    \cup Tagged(s, "WARN_IMPLICIT_INT_TO_CHAR", Narrowed(s))
    \cup Tagged(s, "WARN_MISSING_RETURN", ReturnMissing(s))

\* The parts that a problem leaves without meaning: what is given to something
\* that is called without being a function or for a value it has not, the
\* arguments too many, what goes to no variable, the index into no array, and
\* what is given for an array without being a name.
Meaningless(s) ==
    {Append(p, 1) : p \in CalledValues(s) \cup VoidOperands(s) \cup NotIndexed(s)}
    \cup UNION {{Front(p) \o <<i>> : i \in Last(p) .. Len(Above(s, p).child)} : p \in TooMany(s)}
    \cup {Front(p) \o <<2>> : p \in NotLValues(s)}
    \cup UNION {{Append(p, i) : i \in DOMAIN At(s, p).child} : p \in NotNames(s)}
Beyond(s, p) == \E i \in 0 .. Len(p) : SubSeq(p, 1, i) \in Meaningless(s)

\* main is a function that answers an int and takes nothing.
MainProblems(prog) ==
    IF ~Defines(prog, "main") THEN {"ERR_MAIN_UNAVAILABLE"}
    ELSE {kind \in {"ERR_MAIN_RETURN_TYPE"} : Definition(prog, "main").type # "num"}
         \cup {kind \in {"ERR_MAIN_PARAM"} : Definition(prog, "main").params # <<>>}

\* What is to be said of a definition.
Expected(s) ==
    {r \in Problems(s) : ~Beyond(s, r[3])}
    \cup Tagged(s, "ERR_INVALID_PARAM_COUNT", {p \in TooMany(s) : ~Beyond(s, Front(Front(p)))})
=============================================================================
