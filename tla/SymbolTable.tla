----------------------------- MODULE SymbolTable -----------------------------
(***************************************************************************)
(* src/symbolTable.c: the symbol tables of a program, built in one pass    *)
(* over its tree.  ProgramST_from_Prog declares the built-in functions,    *)
(* the global variables, then for each function its name, its parameters   *)
(* and its local variables; each declaration goes through _ST_add (Add, of *)
(* module Tables).                                                         *)
(***************************************************************************)
EXTENDS Tables

CONSTANTS Ident,        \* the identifiers of the program
          Lengths,      \* the lengths of its arrays
          MaxFrame,     \* bound: bytes declared in one table
          MaxGlobals,   \* bounds: symbols of each table
          MaxParams,
          MaxLocals,
          MaxFunctions  \* bound: functions, the built-in ones included

ASSUME LengthsAssumption == Lengths \subseteq Nat
ASSUME MaxFrameAssumption == MaxFrame \in Nat

VARIABLES globals,    \* the table of the program
          functions,  \* the sequence of its FunctionST
          func,       \* the FunctionST being filled
          pc,         \* the part of the program being read
          err         \* the errors reported, as the bits of an ErrorType

vars == <<globals, functions, func, pc, err>>

Name == Ident \cup {"putchar", "putint", "getchar", "getint", "character", "number"}
-----------------------------------------------------------------------------
(* ProgramST_from_Prog                                                     *)

Init ==
    /\ globals = Table("global")
    /\ functions = <<>>
    /\ func = NewFunction("putchar")
    /\ pc = "builtins"
    /\ err = {}

\* ProgramST_add_default_function: no built-in has more than one parameter, and
\* what _ST_add returns is dropped.
AddDefaultFunction ==
    /\ pc = "builtins" /\ Len(functions) < Len(Builtins)
    /\ LET b == Builtins[Len(functions) + 1] IN
         /\ globals' \in Add(globals, Function(b.ident, b.size))
         /\ \E t \in IF b.params = {} THEN {Table("param")}
                     ELSE UNION {Add(Table("param"), Value(x)) : x \in b.params} :
              functions' = Append(functions, [NewFunction(b.ident) EXCEPT !.parameters = t])
    /\ UNCHANGED <<func, pc, err>>

\* Mistake: the first variable goes behind the sizes of the built-in functions.
BeginGlobalsKept ==
    /\ pc = "builtins" /\ Len(functions) = Len(Builtins)
    /\ pc' = "globals"
    /\ UNCHANGED <<globals, functions, func, err>>
\* ST_create_from_DeclVars sets the offset of the first variable.
BeginGlobals ==
    /\ pc = "builtins" /\ Len(functions) = Len(Builtins)
    /\ globals' = [globals EXCEPT !.next_addr = 0]
    /\ pc' = "globals"
    /\ UNCHANGED <<functions, func, err>>

\* An array of length zero is reported, and declared all the same.
SizeError(s) == IF s.length = 0 THEN {"zero size"} ELSE {}

\* The variables a declaration list may hold.
Variables == {Value(x) : x \in Ident} \cup {Array(x, n) : x \in Ident, n \in Lengths}
Parameters == {Value(x) : x \in Ident} \cup {ArrayParam(x) : x \in Ident}

\* Bounds of the model.
Fits(t, s, max) == t.len < max /\ t.next_addr + s.length * WordSize <= MaxFrame
                               /\ t.next_addr_param + WordSize <= MaxFrame

DeclareGlobal(s) ==
    /\ pc = "globals" /\ Fits(globals, s, MaxGlobals)
    /\ globals' \in Add(globals, s)
    /\ err' = err \cup AddError(globals, s) \cup SizeError(s)
    /\ UNCHANGED <<functions, func, pc>>

\* The header of a function: its name is a symbol of the globals, of size 0.
BeginFunction(x) ==
    /\ pc \in {"globals", "functions"} /\ Len(functions) < MaxFunctions
    /\ func' = NewFunction(x)
    /\ globals' \in Add(globals, Function(x, 0))
    /\ err' = err \cup AddError(globals, Function(x, 0))
    /\ pc' = "params"
    /\ UNCHANGED functions

DeclareParam(s) ==
    /\ pc = "params" /\ Fits(func.parameters, s, MaxParams)
    /\ \E t \in Add(func.parameters, s) : func' = [func EXCEPT !.parameters = t]
    /\ err' = err \cup AddError(func.parameters, s)
    /\ UNCHANGED <<globals, functions, pc>>

\* The local variables start below the parameters copied from registers.
\* Mistake: the local variables start at rbp.
LocalsOffsetZero(f) == 0
LocalsOffset(f) == ToInt(f.parameters.next_addr)

BeginLocals ==
    /\ pc = "params"
    /\ func' = [func EXCEPT !.locals.next_addr = LocalsOffset(func)]
    /\ pc' = "locals"
    /\ UNCHANGED <<globals, functions, err>>

DeclareLocal(s) ==
    /\ pc = "locals" /\ Fits(func.locals, s, MaxLocals)
    /\ \E t \in Add(func.locals, s) : func' = [func EXCEPT !.locals = t]
    /\ err' = err \cup AddError(func.locals, s) \cup SizeError(s)
    /\ UNCHANGED <<globals, functions, pc>>

\* Mistake: a local variable may hide a parameter.
RedeclaredParamsHidden(f) == {}
\* _ST_check_redeclared_params_in_locals
RedeclaredParams(f) ==
    IF Names(f.locals) \cap Names(f.parameters) = {} THEN {} ELSE {"redeclared"}

\* The end of _ST_create_from_DeclFonct, and the append of its caller.
EndFunction ==
    /\ pc = "locals"
    /\ err' = err \cup RedeclaredParams(func)
    /\ functions' = Append(functions, func)
    /\ pc' = "functions"
    /\ UNCHANGED <<globals, func>>

EndProgram ==
    /\ pc = "functions"
    /\ pc' = "done"
    /\ UNCHANGED <<globals, functions, func, err>>

Next ==
    \/ AddDefaultFunction
    \/ BeginGlobals
    \/ \E s \in Variables : DeclareGlobal(s) \/ DeclareLocal(s)
    \/ \E x \in Ident : BeginFunction(x)
    \/ \E s \in Parameters : DeclareParam(s)
    \/ BeginLocals
    \/ EndFunction
    \/ EndProgram

Spec == Init /\ [][Next]_vars
-----------------------------------------------------------------------------
(* Properties                                                              *)

\* What a function sees of a name once the tables are built.
Scope(f, x) == ScopeIn(globals, f, x)
Resolve(f, x) == Get(Scope(f, x), x)

\* The section of memory that the symbols of a table are in.
Section(t) == IF t.type = "global" THEN "bss" ELSE "stack"

Symbol == [ident : Name, kind : Kinds, length : Nat, size : Int, addr : Int, index : Nat]
SymbolTables(type) == [type : {type}, symbols : SUBSET Symbol, len : Nat,
                       next_addr : Int, next_addr_param : Int]
FunctionST == [ident : Name, parameters : SymbolTables("param"),
               locals : SymbolTables("local")]

TypeOK ==
    /\ globals \in SymbolTables("global")
    /\ functions \in Seq(FunctionST)
    /\ func \in FunctionST
    /\ pc \in {"builtins", "globals", "functions", "params", "locals", "done"}
    /\ err \subseteq {"redeclared", "zero size"}

AllFunctions == {func} \cup {functions[i] : i \in DOMAIN functions}

Disjoint(s, u) == s.addr + s.size <= u.addr \/ u.addr + u.size <= s.addr
Apart(symbols) == \A s, u \in symbols : s # u => Disjoint(s, u)

GlobalVariables == {s \in globals.symbols : s.kind # "function"}

\* The list of the globals never fails to grow.
GlobalsGrow == {place \in FullAt : place[1] = "global"} = {}

\* The global variables lie side by side in the block the assembly file
\* reserves (codeWriter.c:44, `global_vars: resb' next_addr), and unless one
\* was lost no byte of it is left over, although the built-in functions moved
\* next_addr before the first of them and every function is a symbol among them.
GlobalLayout ==
    /\ \A s \in GlobalVariables : 0 <= s.addr /\ s.addr + s.size <= globals.next_addr
    /\ Apart(GlobalVariables)
    /\ pc # "builtins" /\ GlobalsGrow =>
         \A byte \in 0 .. globals.next_addr - 1 :
            \E s \in GlobalVariables : s.addr <= byte /\ byte < s.addr + s.size

\* The parameters copied from registers and the local variables lie side by
\* side in the locals.next_addr bytes that the function takes below rbp; the
\* other parameters lie above the return address.
FrameLayoutOf(f) ==
    /\ \A s \in f.parameters.symbols :
         IF s.index < NbRegs
         THEN -f.parameters.next_addr <= s.addr /\ s.addr + s.size <= 0
         ELSE FirstStackParam <= s.addr
    /\ \A s \in f.locals.symbols :
         -f.locals.next_addr <= s.addr /\ s.addr + s.size <= -f.parameters.next_addr
    /\ Apart(f.parameters.symbols)
    /\ Apart(f.locals.symbols)

FrameLayout == \A f \in AllFunctions : FrameLayoutOf(f)

\* Two names that a function may use never share a byte.
StorageDisjoint ==
    \A f \in AllFunctions : \A x, y \in Ident :
        LET tx == Scope(f, x)
            ty == Scope(f, y)
        IN /\ x # y /\ Declared(tx, x) /\ Declared(ty, y) /\ Section(tx) = Section(ty)
           /\ Resolve(f, x).kind # "function" /\ Resolve(f, y).kind # "function"
           => Disjoint(Resolve(f, x), Resolve(f, y))

\* The callee finds every parameter where the caller put it: parameter k is
\* unique, and when it is not in a register it is the (k - NbRegs)-th word above
\* the return address, since the caller pushes the last argument first.  An
\* insertion that failed for want of memory took an address for no symbol.
ParametersInPlace ==
    \A f \in AllFunctions :
        LET p == f.parameters IN
        p.next_addr + p.next_addr_param - FirstStackParam = p.len * WordSize =>
        /\ \A k \in 0 .. p.len - 1 : \E s \in p.symbols : s.index = k
        /\ \A s, u \in p.symbols : s.index = u.index => s = u
        /\ \A s \in p.symbols :
             s.index >= NbRegs =>
                 s.addr = FirstStackParam + WordSize * (s.index - NbRegs)

\* When nothing was reported, FunctionST_get_from_name and the globals agree on
\* which functions there are, and the first match is the only one.
FunctionTableAgrees ==
    (pc \in {"functions", "done"} /\ "redeclared" \notin err) =>
        /\ \A i, j \in DOMAIN functions :
             functions[i].ident = functions[j].ident => i = j
        /\ {functions[i].ident : i \in DOMAIN functions} =
               {s.ident : s \in {u \in globals.symbols : u.kind = "function"}}

\* The redeclarations reported are those of the scopes of the language.  A local
\* variable named like a parameter is a fault from its declaration on, and must
\* have been reported when its function ends.
HidesParameter == Names(func.locals) \cap Names(func.parameters) # {}
InnerScopes == INSTANCE Scopes WITH
    Name <- Ident,
    Builtins <- [i \in DOMAIN Builtins |-> Builtins[i].ident],
    global <- Names(globals),
    inner <- Names(func.parameters) \cup Names(func.locals),
    defined <- [i \in DOMAIN functions |-> functions[i].ident],
    faulty <- "redeclared" \in err \/ (pc = "locals" /\ HidesParameter)
ImplementsScopes == InnerScopes!Spec

\* symbol.h:31: total_size is the size of the whole variable or array.
TotalSizeIsExact ==
    \A f \in AllFunctions : \A t \in {globals, f.locals} :
        \A s \in t.symbols : s.kind = "array" => s.size = s.length * WordSize
=============================================================================
