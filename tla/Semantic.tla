------------------------------ MODULE Semantic ------------------------------
(***************************************************************************)
(* src/semantic.c: the checks between the symbol tables and the code, one  *)
(* function definition after the other, then main.                         *)
(*                                                                         *)
(* Each check returns [log, err, type]: log is the sequence of what it     *)
(* prints, <<kind, function, path of the node whose line is shown>>, err   *)
(* the ErrorType it returns, as the set of the kinds whose bits are set,   *)
(* and type the type_t of an ExprReturn.  ST_resolve_from_node leaves the  *)
(* program at the first name it does not find: a check goes on behind such *)
(* a report, and the action that runs it cuts the log there.               *)
(*                                                                         *)
(* A program has, besides the fields of module Program, types: types[f][x] *)
(* is the type of the name x declared in f ("" for the global variables).  *)
(*                                                                         *)
(* E[n, p] is the check of the expression n at path p and I[n, p] that of  *)
(* an instruction, both for trees that are lower than the one at hand.     *)
(***************************************************************************)
EXTENDS Program, Functions

CONSTANTS Sources,  \* the programs
          Letter    \* the names of one letter, by the code of the letter

ASSUME SourcesAssumption ==
    \A q \in Sources :
      /\ q.functions \in Seq(Definitions) /\ q.functions # <<>>
      /\ q.globals \in Seq(Declarations)

VARIABLES prog,    \* the program
          tables,  \* its symbol tables
          next,    \* the function definition to check
          log,     \* what was printed
          err,     \* the errors accumulated
          phase    \* "start", "functions", "main", "done" or "exited"

vars == <<prog, tables, next, log, err, phase>>
-----------------------------------------------------------------------------
(* Results                                                                 *)

Warnings == {"WARN_IMPLICIT_INT_TO_CHAR", "WARN_USE_UNDEFINED_FUNCTION", "WARN_MISSING_RETURN"}
Errors == {"ERR_UNDECLARED_SYMBOL", "ERR_SEM_IS_NOT_CALLABLE", "ERR_INVALID_PARAM_COUNT",
           "ERR_MISMATCH_ARRAY_TYPE", "ERR_INVALID_ARRAY_TYPE", "ERR_SUBSCRIPT_NOT_ARRAY",
           "ERR_NOT_AN_RVALUE", "ERR_NOT_AN_LVALUE", "ERR_NO_VOID_EXPRESSION",
           "ERR_MUST_RETURN_VALUE", "ERR_RETURN_VOID_EXPR", "ERR_RETURN_TYPE_NON_VOID",
           "ERR_MAIN_UNAVAILABLE", "ERR_MAIN_RETURN_TYPE", "ERR_MAIN_PARAM"}
\* Of the functions of the program q, and of none of them.
Reports(q) == (Errors \cup Warnings) \X ({q.functions[i].ident : i \in DOMAIN q.functions} \cup {""}) \X Paths

Fine(type) == [log |-> <<>>, err |-> {}, type |-> type]
Silent == Fine("void")
Report(f, kind, p) == [log |-> <<<<kind, f.func.ident, p>>>>, err |-> {kind}, type |-> "void"]

\* r, then s; the type is that of s.
Then(r, s) == [log |-> r.log \o s.log, err |-> r.err \cup s.err, type |-> s.type]
ThenAll(rs) ==
    LET after[i \in 0 .. Len(rs)] == IF i = 0 THEN Silent ELSE Then(after[i - 1], rs[i])
    IN after[Len(rs)]
WithType(r, type) == [r EXCEPT !.type = type]
If(cond, r) == IF cond THEN r ELSE Silent
-----------------------------------------------------------------------------
(* Names: f = [globals, functions, func, known, types], known the functions *)
(* that come no later than func in the list of functions.                   *)

TypeOf(f, x) ==
    LET home == Home(f, x).type
    IN IF Symbol(f, x).kind = "function" THEN f.functions[x].type
       ELSE f.types[IF home = "global" THEN "" ELSE f.func.ident][x]

\* att.ident of any node: the attribute is a union, and a number or a character
\* that is the code of a letter reads as a name of one letter.
Spelling(n) == IF n.label \notin {"Num", "Character"} THEN n.ident
               ELSE IF n.num \in DOMAIN Letter THEN Letter[n.num] ELSE ""

ParamType(f, callee, x) ==
    IF callee.ident \in DOMAIN f.types THEN f.types[callee.ident][x]
    ELSE [character |-> "byte", number |-> "num"][x]
IsDefinedBeforeUse(f, callee) == callee.ident \in f.known

IsFunctionCallNode(n) == n.child # <<>> /\ n.child[1].label \in {"EmptyArgs", "ListExp"}
-----------------------------------------------------------------------------
(* Expressions                                                             *)

\* An array is checked against an array, anything else as an expression.
Argument(f, E, callee, i, n, p) ==
    LET param == Param(callee, i - 1)
        x == Spelling(n)
        named == IsOnlyIdentifier(n) \/ param.kind = "array"
        arrays == named /\ Resolves(f, x) /\ "array" \in {Symbol(f, x).kind, param.kind}
        value == E[n, p]
        narrows == /\ param.kind = "value" /\ value.type = "num"
                   /\ ParamType(f, callee, param.ident) = "byte"
    IN IF named /\ ~Resolves(f, x) THEN Report(f, "ERR_UNDECLARED_SYMBOL", p)
       ELSE IF ~arrays THEN Then(value, If(narrows, Report(f, "WARN_IMPLICIT_INT_TO_CHAR", p)))
       ELSE IF param.kind # Symbol(f, x).kind THEN Report(f, "ERR_MISMATCH_ARRAY_TYPE", p)
       ELSE If(TypeOf(f, x) # ParamType(f, callee, param.ident),
               Report(f, "ERR_INVALID_ARRAY_TYPE", p))

\* Mistake: what the check of an argument returns is dropped.
ArgumentsErrLost(f, E, callee, args, p) ==
    LET checked == IF Len(args) < ParamCount(callee) THEN Len(args) ELSE ParamCount(callee)
    IN [ThenAll([i \in 1 .. checked |-> Argument(f, E, callee, i, args[i], Append(p, i))])
          EXCEPT !.err = {}]
\* Those that have a parameter.
Arguments(f, E, callee, args, p) ==
    LET checked == IF Len(args) < ParamCount(callee) THEN Len(args) ELSE ParamCount(callee)
    IN ThenAll([i \in 1 .. checked |-> Argument(f, E, callee, i, args[i], Append(p, i))])

\* Mistake: the last argument is one too many.
FunctionCallOneLess(f, E, n, p) ==
    LET callee == f.functions[n.ident]
        args == n.child[1].child
        count == ParamCount(callee)
    IN IF ~Resolves(f, n.ident) THEN Report(f, "ERR_UNDECLARED_SYMBOL", p)
       ELSE IF Symbol(f, n.ident).kind # "function" THEN Report(f, "ERR_SEM_IS_NOT_CALLABLE", p)
       ELSE ThenAll(<<If(~IsDefinedBeforeUse(f, callee), Report(f, "WARN_USE_UNDEFINED_FUNCTION", p)),
                      Arguments(f, E, callee, args, Append(p, 1)),
                      If(Len(args) >= count, Report(f, "ERR_INVALID_PARAM_COUNT", p \o <<1, count + 1>>)),
                      If(Len(args) < count, Report(f, "ERR_INVALID_PARAM_COUNT", p))>>)
FunctionCall(f, E, n, p) ==
    LET callee == f.functions[n.ident]
        args == n.child[1].child
        count == ParamCount(callee)
    IN IF ~Resolves(f, n.ident) THEN Report(f, "ERR_UNDECLARED_SYMBOL", p)
       ELSE IF Symbol(f, n.ident).kind # "function" THEN Report(f, "ERR_SEM_IS_NOT_CALLABLE", p)
       ELSE ThenAll(<<If(~IsDefinedBeforeUse(f, callee), Report(f, "WARN_USE_UNDEFINED_FUNCTION", p)),
                      Arguments(f, E, callee, args, Append(p, 1)),
                      If(Len(args) > count, Report(f, "ERR_INVALID_PARAM_COUNT", p \o <<1, count + 1>>)),
                      If(Len(args) < count, Report(f, "ERR_INVALID_PARAM_COUNT", p))>>)

ArrayLR(f, E, n, p) ==
    IF ~Resolves(f, n.ident) THEN Report(f, "ERR_UNDECLARED_SYMBOL", p)
    ELSE WithType(IF Symbol(f, n.ident).kind = "array" THEN E[n.child[1], Append(p, 1)]
                  ELSE Report(f, "ERR_SUBSCRIPT_NOT_ARRAY", p),
                  TypeOf(f, n.ident))

IdentRValue(f, E, n, p) ==
    LET called == IsFunctionCallNode(n)
        type == TypeOf(f, n.ident)
    IN IF ~Resolves(f, n.ident) THEN Report(f, "ERR_UNDECLARED_SYMBOL", p)
       ELSE WithType(IF called /\ type # "void" THEN FunctionCall(f, E, n, p)
                     ELSE If(called \/ Symbol(f, n.ident).kind # "value",
                             Report(f, "ERR_NOT_AN_RVALUE", p)),
                     type)

\* _cast_types: void absorbs, anything else is an int.
\* Mistake: the type of the last operand is kept.
CastTypesLast(types) == types[Len(types)]
CastTypes(types) == IF \E i \in DOMAIN types : types[i] = "void" THEN "void" ELSE "num"

\* _Semantic_Expr
ExprOver(f, E, n, p) ==
    CASE n.label \in {"AddsubU", "Not", "Addsub", "Divstar", "Eq", "Or", "And", "Order"} ->
             LET operands == [i \in DOMAIN n.child |-> E[n.child[i], Append(p, i)]]
             IN WithType(ThenAll(operands), CastTypes([i \in DOMAIN operands |-> operands[i].type]))
      [] n.label = "Ident" -> IdentRValue(f, E, n, p)
      [] n.label = "ArrayLR" -> ArrayLR(f, E, n, p)
      [] n.label = "Num" -> Fine("num")
      [] n.label = "Character" -> Fine("byte")

ExprUpTo(f) ==
    LET exps == ExpsUpTo(AnyScope)
        upTo[h \in 0 .. Height] == [x \in exps[h] \X Paths |-> ExprOver(f, upTo[h - 1], x[1], x[2])]
    IN upTo
Expr(f) == ExprUpTo(f)[Height]
-----------------------------------------------------------------------------
(* Instructions                                                            *)

\* Mistake: a return without a value is right in any function.
ReturnUnchecked(f, n, p) ==
    LET type == f.func.type
        value == Expr(f)[n.child[1], Append(p, 1)]
    IN IF n.child = <<>> THEN Silent
       ELSE Then(value,
                 IF type = "byte" /\ value.type = "num" THEN Report(f, "WARN_IMPLICIT_INT_TO_CHAR", p)
                 ELSE If(type = "void",
                         Report(f, IF value.type = "void" THEN "ERR_RETURN_VOID_EXPR"
                                   ELSE "ERR_RETURN_TYPE_NON_VOID", p)))
Return(f, n, p) ==
    LET type == f.func.type
        value == Expr(f)[n.child[1], Append(p, 1)]
    IN IF n.child = <<>> THEN If(type # "void", Report(f, "ERR_MUST_RETURN_VALUE", p))
       ELSE Then(value,
                 IF type = "byte" /\ value.type = "num" THEN Report(f, "WARN_IMPLICIT_INT_TO_CHAR", p)
                 ELSE If(type = "void",
                         Report(f, IF value.type = "void" THEN "ERR_RETURN_VOID_EXPR"
                                   ELSE "ERR_RETURN_TYPE_NON_VOID", p)))

Assignation(f, n, p) ==
    LET target == n.child[1]
        indexed == target.label = "ArrayLR"
        place == If(indexed, ArrayLR(f, Expr(f), target, Append(p, 1)))
        value == Expr(f)[n.child[2], Append(p, 2)]
    IN IF ~Resolves(f, target.ident) THEN Report(f, "ERR_UNDECLARED_SYMBOL", Append(p, 1))
       ELSE IF ~indexed /\ Symbol(f, target.ident).kind # "value"
            THEN Report(f, "ERR_NOT_AN_LVALUE", Append(p, 1))
       ELSE ThenAll(<<place, value,
                      IF TypeOf(f, target.ident) = "byte" /\ value.type = "num"
                      THEN Report(f, "WARN_IMPLICIT_INT_TO_CHAR", p)
                      ELSE If(value.type = "void", Report(f, "ERR_NO_VOID_EXPRESSION", p))>>)

Sequence(I, n, first, p) ==
    ThenAll([i \in 1 .. Len(n.child) - first + 1 |->
               I[n.child[first + i - 1], Append(p, first + i - 1)]])

\* The instructions under n at child k.  One without a block is the first of the
\* list of its siblings: the loop goes on with them.
SuiteInstr(I, n, k, p) ==
    IF n.child[k].label = "SuiteInstr" THEN Sequence(I, n.child[k], 1, Append(p, k))
    ELSE Sequence(I, n, k, p)

\* Mistake: the else branch is left to the loop over the siblings.
IfThen(f, I, n, p) ==
    Then(Expr(f)[n.child[1], Append(p, 1)], SuiteInstr(I, n, 2, p))
IfInstr(f, I, n, p) ==
    ThenAll(<<Expr(f)[n.child[1], Append(p, 1)], SuiteInstr(I, n, 2, p),
              IF Len(n.child) = 3 THEN SuiteInstr(I, n, 3, p) ELSE Silent>>)
While(f, I, n, p) == Then(Expr(f)[n.child[1], Append(p, 1)], SuiteInstr(I, n, 2, p))

InstrOver(f, I, n, p) ==
    CASE n.label = "Return" -> Return(f, n, p)
      [] n.label = "Assignation" -> Assignation(f, n, p)
      [] n.label = "Ident" -> FunctionCall(f, Expr(f), n, p)
      [] n.label = "SuiteInstr" -> Sequence(I, n, 1, p)
      [] n.label = "EmptyInstr" -> Silent
      [] n.label = "If" -> IfInstr(f, I, n, p)
      [] n.label = "While" -> While(f, I, n, p)

InstrUpTo(f) ==
    LET instrs == InstrsUpTo(AnyScope)
        upTo[h \in 0 .. Height] == [x \in instrs[h] \X Paths |-> InstrOver(f, upTo[h - 1], x[1], x[2])]
    IN upTo
Instr(f) == InstrUpTo(f)[Height]

\* The body of a function, which is to say `return' outside any other instruction.
Root(f, body) ==
    Then(Sequence(Instr(f), body, 1, <<>>),
         If(/\ f.func.type # "void"
            /\ \A i \in DOMAIN body.child : body.child[i].label # "Return",
            Report(f, "WARN_MISSING_RETURN", <<>>)))
-----------------------------------------------------------------------------
(* Semantic_check                                                          *)

Load == /\ phase = "start"
        /\ \E q \in Sources : prog' = q /\ tables' = ProgramTables(q)
        /\ phase' = "functions"
        /\ UNCHANGED <<next, log, err>>

In(q, t, i) ==
    [globals |-> t.globals, functions |-> t.functions, types |-> q.types,
     func |-> t.functions[q.functions[i].ident],
     known |-> {Builtins[j].ident : j \in DOMAIN Builtins} \cup {q.functions[j].ident : j \in 1 .. i}]

Stops(r) == {i \in DOMAIN r.log : r.log[i][1] = "ERR_UNDECLARED_SYMBOL"}
\* Mistake: the exit is left to the end of the checks.
UpToEnd(r) == r.log
UpToExit(r) == SubSeq(r.log, 1, CHOOSE i \in Stops(r) : \A j \in Stops(r) : i <= j)

\* Mistake: the last definition is not reached.
DeclFonctShort ==
    /\ phase = "functions"
    /\ LET r == Root(In(prog, tables, next), prog.functions[next].body)
       IN IF Stops(r) # {}
          THEN /\ log' = log \o UpToExit(r)
               /\ phase' = "exited"
               /\ UNCHANGED <<next, err>>
          ELSE /\ log' = log \o r.log
               /\ err' = err \cup r.err
               /\ next' = next + 1
               /\ phase' = IF next + 1 >= Len(prog.functions) THEN "main" ELSE phase
    /\ UNCHANGED <<prog, tables>>
\* The next definition; the program is left at a name that is not declared.
DeclFonct ==
    /\ phase = "functions"
    /\ LET r == Root(In(prog, tables, next), prog.functions[next].body)
       IN IF Stops(r) # {}
          THEN /\ log' = log \o UpToExit(r)
               /\ phase' = "exited"
               /\ UNCHANGED <<next, err>>
          ELSE /\ log' = log \o r.log
               /\ err' = err \cup r.err
               /\ next' = next + 1
               /\ phase' = IF next = Len(prog.functions) THEN "main" ELSE phase
    /\ UNCHANGED <<prog, tables>>

MainErrors(t) ==
    IF "main" \notin DOMAIN t.functions THEN <<"ERR_MAIN_UNAVAILABLE">>
    ELSE (IF t.functions["main"].type # "num" THEN <<"ERR_MAIN_RETURN_TYPE">> ELSE <<>>) \o
         (IF ParamCount(t.functions["main"]) > 0 THEN <<"ERR_MAIN_PARAM">> ELSE <<>>)

\* Reported at line 0 or at the heading of main.
CheckMain ==
    /\ phase = "main"
    /\ LET errors == MainErrors(tables)
       IN /\ log' = log \o [i \in DOMAIN errors |-> <<errors[i], "", <<>>>>]
          /\ err' = err \cup Range(errors)
    /\ phase' = "done"
    /\ UNCHANGED <<prog, tables, next>>

Init == /\ prog = [globals |-> <<>>, functions |-> <<>>]
        /\ tables = [globals |-> Table("global"), functions |-> <<>>]
        /\ next = 1
        /\ log = <<>>
        /\ err = {}
        /\ phase = "start"

Next == Load \/ DeclFonct \/ CheckMain

Spec == Init /\ [][Next]_vars
-----------------------------------------------------------------------------
(* Properties                                                              *)

KindsOf(reports) == {reports[i][1] : i \in DOMAIN reports}

\* The fields have their types, the definitions are read in their order to the
\* last one, and an error is only returned for what was printed.
TypeOK ==
    /\ phase \in {"start", "functions", "main", "done", "exited"}
    /\ next \in 1 .. Len(prog.functions) + 1
    /\ log \in Seq(Reports(prog))
    /\ err \subseteq KindsOf(log)
    /\ phase \in {"main", "done"} <=> (phase # "start" /\ next = Len(prog.functions) + 1)

\* Every report counts for the exit code: the error accumulated over calls,
\* operators and branches has the bit of each report, so a program is accepted
\* only if nothing but warnings was printed.
EveryReportCounts == phase = "done" => err = KindsOf(log)

\* Only warnings: the assembly file is opened.
Accepted == phase = "done" /\ err \subseteq Warnings

\* A program that is accepted, with a name for every array it passes on, is one
\* that the generator can be given: in the definitions, as deep as they go, every
\* name has the kind that codeWriter.c asserts it has, every call the arguments
\* its callee takes off and a value where one is expected, every return a value
\* just where the caller takes one, and there is a main for the entry point.
AcceptedIsTranslatable ==
    Accepted /\ NamesArrays(prog) =>
       /\ Translatable(prog)
       /\ \E i \in DOMAIN prog.functions : prog.functions[i].ident = "main"

\* The exit in the middle of an expression (symbolTable.c:182) is taken at the
\* first name that is not declared and at no other time: it is what is printed
\* last, and a program that is checked to the end has no such name.
LeftAtFirstUndeclared ==
    /\ phase = "exited" => log # <<>> /\ log[Len(log)][1] = "ERR_UNDECLARED_SYMBOL"
    /\ \A i \in DOMAIN log : log[i][1] = "ERR_UNDECLARED_SYMBOL" => phase = "exited" /\ i = Len(log)
=============================================================================
