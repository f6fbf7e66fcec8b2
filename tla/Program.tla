------------------------------- MODULE Program -------------------------------
(***************************************************************************)
(* A TPC program as the parser leaves it, and the tables symbolTable.c     *)
(* makes of one that declares no name twice: what the semantic checks and  *)
(* the code generator both read.                                           *)
(*                                                                         *)
(* Declarations are the symbols they make (Value, Array, ArrayParam of     *)
(* Tables): a program is [globals, functions], a function                  *)
(* [ident, type, params, locals, body], with a body of module Trees.       *)
(*                                                                         *)
(* The tables are read through f = [globals, functions, func], func the    *)
(* FunctionST of the function at hand.                                     *)
(***************************************************************************)
EXTENDS Tables, Trees

\* Declarations and definitions of the names of a program, as tpc.y has them.
Declarations == [ident : STRING, kind : {"value", "array"}, length : Nat, size : Int,
                 addr : {0}, index : {0}]
Definitions == [ident : STRING, type : {"void", "byte", "num"},
                params : Seq(Declarations), locals : Seq(Declarations), body : Bodies(AnyScope)]

AddAll(table, symbols) ==
    LET added[i \in 0 .. Len(symbols)] ==
            IF i = 0 THEN table ELSE CHOOSE u \in Add(added[i - 1], symbols[i]) : TRUE
    IN added[Len(symbols)]

\* A FunctionST, with the type of what the function returns.
BuiltinTables(b) ==
    [ident |-> b.ident, type |-> b.type,
     parameters |-> CHOOSE t \in IF b.params = {} THEN {Table("param")}
                                 ELSE UNION {Add(Table("param"), Value(x)) : x \in b.params} : TRUE,
     locals |-> Table("local")]

FunctionTables(d) ==
    LET params == AddAll(Table("param"), d.params)
        offset == ToInt(params.next_addr)
    IN [ident |-> d.ident, type |-> d.type, parameters |-> params,
        locals |-> AddAll([Table("local") EXCEPT !.next_addr = offset], d.locals)]

ProgramTables(prog) ==
    LET builtins == [i \in DOMAIN Builtins |-> Function(Builtins[i].ident, Builtins[i].size)]
        variables == AddAll([AddAll(Table("global"), builtins) EXCEPT !.next_addr = 0],
                            prog.globals)
        tables == {BuiltinTables(Builtins[i]) : i \in DOMAIN Builtins}
                    \cup {FunctionTables(prog.functions[i]) : i \in DOMAIN prog.functions}
    IN [globals |-> AddAll(variables, [i \in DOMAIN prog.functions |->
                                           Function(prog.functions[i].ident, 0)]),
        functions |-> [x \in {t.ident : t \in tables} |-> CHOOSE t \in tables : t.ident = x]]

Home(f, x) == ScopeIn(f.globals, f.func, x)
Symbol(f, x) == Get(Home(f, x), x)
Resolves(f, x) == Declared(Home(f, x), x)

ParamCount(fst) == fst.parameters.len
Param(fst, i) == CHOOSE s \in fst.parameters.symbols : s.index = i
-----------------------------------------------------------------------------
(* What the code generator may be given                                    *)

\* The tables as they are read in the function d.
Within(tables, d) == [globals |-> tables.globals, functions |-> tables.functions,
                      func |-> tables.functions[d.ident]]

\* What codeWriter.c takes for granted of the names in f (:281, :284, :338, :492,
\* :516, :622, :654), and treeReader.c of its returns (:224).
Scope(f) ==
    [values |-> {x \in STRING : Resolves(f, x) /\ Symbol(f, x).kind = "value"},
     arrays |-> {x \in STRING : Resolves(f, x) /\ Symbol(f, x).kind = "array"},
     calls |-> {c \in STRING \X Nat : /\ Resolves(f, c[1]) /\ Symbol(f, c[1]).kind = "function"
                                     /\ ParamCount(f.functions[c[1]]) = c[2]},
     answers |-> {x \in STRING : x \in DOMAIN f.functions /\ f.functions[x].type # "void"},
     named |-> {},
     returns |-> IF f.func.type = "void" THEN {0} ELSE {1}]
Translatable(prog) ==
    \A i \in DOMAIN prog.functions :
      prog.functions[i].body \in Bodies(Scope(Within(ProgramTables(prog), prog.functions[i])))

\* All names, and a name for every parameter that is an array: for any other
\* argument semantic.c:81 looks up what is no name.
NamingScope(f) ==
    [AnyScope EXCEPT
       !.named = {c \in STRING \X Nat : /\ c[1] \in DOMAIN f.functions
                                       /\ c[2] \in 1 .. ParamCount(f.functions[c[1]])
                                       /\ Param(f.functions[c[1]], c[2] - 1).kind = "array"}]
NamesArrays(prog) ==
    \A i \in DOMAIN prog.functions :
      prog.functions[i].body \in Bodies(NamingScope(Within(ProgramTables(prog), prog.functions[i])))
=============================================================================
