-------------------------- MODULE SymbolTableProofs --------------------------
(***************************************************************************)
(* Proofs about SymbolTable: as long as the bytes declared in one table    *)
(* can be counted in an int, no two variables of a program share a byte,   *)
(* whatever the number of functions, parameters, registers and variables.  *)
(* Every parameter is where the caller leaves it, and a program without    *)
(* redeclarations has one FunctionST for each function of its globals; the *)
(* tables are the scopes of module Scopes.                                 *)
(***************************************************************************)
EXTENDS SymbolTable, TLAPS

\* The parameters that have no register lie between the return address and the
\* next free place; the others, as FrameLayout says, below rbp.
ParamLayout(t) ==
    /\ 0 <= t.next_addr /\ t.next_addr <= IntMax
    /\ FirstStackParam <= t.next_addr_param
    /\ \A s \in t.symbols :
         IF s.index < NbRegs
         THEN -t.next_addr <= s.addr /\ s.addr + s.size <= 0
         ELSE FirstStackParam <= s.addr /\ s.addr + s.size <= t.next_addr_param
    /\ Apart(t.symbols)

\* The local variables lie below the `base' bytes of the parameters.
LocalLayout(t, base) ==
    /\ \A s \in t.symbols : -t.next_addr <= s.addr /\ s.addr + s.size <= -base
    /\ Apart(t.symbols)

\* FrameLayout is not inductive: what a declaration needs is the place of the
\* counters, that the locals are empty until their offset is set, and that no
\* variable is global until the built-in functions are declared.
IInv ==
    /\ TypeOK
    /\ 0 <= globals.next_addr
    /\ GlobalLayout
    /\ pc = "builtins" => GlobalVariables = {}
    /\ \A f \in AllFunctions :
         ParamLayout(f.parameters) /\ LocalLayout(f.locals, f.parameters.next_addr)
    /\ pc = "params" => func.locals.symbols = {}
    /\ pc = "locals" => func.parameters.next_addr <= func.locals.next_addr

\* An integer that an int can hold is converted to itself.
LEMMA ToIntIsIdentity ==
    ASSUME NEW n \in Int, -IntMax <= n, n <= IntMax
    PROVE  ToInt(n) = n
  BY IntMaxAssumption DEF ToInt

\* What a declaration list may hold, and its size when an int can hold it.
LEMMA VariableSize ==
    ASSUME NEW s \in Variables, s.length * WordSize <= IntMax
    PROVE  s \in Symbol /\ s.size = s.length * WordSize /\ s.kind # "function" /\ 0 <= s.size
<1>1. CASE \E x \in Ident : s = Value(x)
  BY <1>1 DEF Value, WordSize, Symbol, Name, Kinds
<1>2. CASE \E x \in Ident, n \in Lengths : s = Array(x, n)
  <2>1. PICK x \in Ident, n \in Lengths : s = Array(x, n)
    BY <1>2
  <2>2. n \in Nat /\ s.length = n /\ s.size = ToInt(n * WordSize)
    BY <2>1, LengthsAssumption DEF Array
  <2>3. n * WordSize \in Int /\ 0 <= n * WordSize /\ n * WordSize <= IntMax
    BY <2>2 DEF WordSize
  <2>4. ToInt(n * WordSize) = n * WordSize
    BY <2>3, ToIntIsIdentity, IntMaxAssumption
  <2> QED  BY <2>1, <2>2, <2>3, <2>4 DEF Array, Symbol, Name, Kinds
<1> QED  BY <1>1, <1>2 DEF Variables

LEMMA VariableLength ==
    ASSUME NEW s \in Variables
    PROVE  s.length \in Nat
<1>1. CASE \E x \in Ident : s = Value(x)
  BY <1>1 DEF Value
<1>2. CASE \E x \in Ident, n \in Lengths : s = Array(x, n)
  BY <1>2, LengthsAssumption DEF Array
<1> QED  BY <1>1, <1>2 DEF Variables

LEMMA ParameterSize ==
    ASSUME NEW s \in Parameters
    PROVE  s \in Symbol /\ s.size = WordSize /\ s.length = 1
  BY DEF Parameters, Value, ArrayParam, WordSize, Symbol, Name, Kinds

\* A symbol is placed in a table: the table keeps its type.
LEMMA AddKeepsType ==
    ASSUME NEW type \in {"global", "local", "param"}, NEW t \in SymbolTables(type),
           NEW s \in Symbol, NEW u \in Add(t, s), IntMax \in Nat
    PROVE  u \in SymbolTables(type)
<1>1. ASSUME NEW n \in Int PROVE ToInt(n) \in Int
  BY <1>1 DEF ToInt
<1>2. /\ t.next_addr \in Int /\ t.next_addr_param \in Int /\ t.len \in Nat /\ s.size \in Int
      /\ t.symbols \subseteq Symbol /\ t.type = type
  BY DEF SymbolTables, Symbol
<1>3. Address(t, s.size) \in Int /\ NextAddr(t, s.size) \in Int /\ NextAddrParam(t, s.size) \in Int
  BY <1>1, <1>2 DEF Address, NextAddr, NextAddrParam
<1>4. Place(t, s) \in Symbol
  BY <1>2, <1>3 DEF Place, Symbol
<1>5. \A symbols \in Stored(t, s) : symbols \subseteq Symbol
  BY <1>2, <1>4 DEF Stored
<1>6. \A symbols \in Stored(t, s) : Moved(t, s, symbols) \in SymbolTables(type)
  BY <1>2, <1>3, <1>5 DEF Moved, SymbolTables
<1> QED  BY <1>6 DEF Add

\* The three shapes a table may take when a symbol is added to it.
LEMMA AddCases ==
    ASSUME NEW t, NEW s, NEW u \in Add(t, s)
    PROVE  \/ u = t
           \/ /\ u.symbols \subseteq t.symbols \cup {Place(t, s)}
              /\ u.next_addr = NextAddr(t, s.size)
              /\ u.next_addr_param = NextAddrParam(t, s.size)
  BY DEF Add, Moved, Stored

\* Two sets of symbols, each apart, that no byte joins.
LEMMA ApartWithOneMore ==
    ASSUME NEW symbols, NEW more, NEW new, more \subseteq symbols \cup {new}, Apart(symbols),
           \A s \in symbols : Disjoint(s, new) \/ s = new
    PROVE  Apart(more)
  BY DEF Apart, Disjoint

\* A new parameter takes the next place of its kind.
LEMMA AddParam ==
    ASSUME NEW t \in SymbolTables("param"), ParamLayout(t),
           NEW s \in Symbol, s.size = WordSize, NEW u \in Add(t, s),
           t.next_addr + WordSize <= IntMax, t.next_addr_param + WordSize <= IntMax
    PROVE  ParamLayout(u)
<1>1. CASE u = t
  BY <1>1
<1>2. CASE u # t
  <2> DEFINE new == Place(t, s)
  <2>1. /\ u.symbols \subseteq t.symbols \cup {new}
        /\ u.next_addr = NextAddr(t, s.size)
        /\ u.next_addr_param = NextAddrParam(t, s.size)
    BY <1>2, AddCases
  <2>2. /\ t.type = "param" /\ t.len \in Nat /\ t.next_addr \in Int /\ t.next_addr_param \in Int
        /\ \A x \in t.symbols : x.addr \in Int /\ x.size \in Int /\ x.index \in Nat
    BY DEF SymbolTables, Symbol
  <2>3. new.addr = Address(t, WordSize) /\ new.size = WordSize /\ new.index = t.len
    BY DEF Place
  <2>4. CASE t.len < NbRegs
    <3>1. ToInt(-t.next_addr - WordSize) = -t.next_addr - WordSize
      BY <2>2, ToIntIsIdentity, IntMaxAssumption DEF WordSize, ParamLayout
    <3>2. /\ new.addr = -t.next_addr - WordSize
          /\ u.next_addr = t.next_addr + WordSize /\ u.next_addr_param = t.next_addr_param
      BY <2>1, <2>2, <2>3, <2>4, <3>1 DEF Address, NextAddr, NextAddrParam, OnCallerStack
    <3> HIDE DEF new
    <3>3. \A x \in t.symbols : Disjoint(x, new)
      BY <2>2, <2>3, <3>2 DEF Disjoint, ParamLayout, WordSize, FirstStackParam
    <3>4. Apart(u.symbols)
      BY <2>1, <3>3, ApartWithOneMore DEF ParamLayout
    <3> QED
      BY <2>1, <2>2, <2>3, <2>4, <3>2, <3>4 DEF ParamLayout, WordSize
  <2>5. CASE ~(t.len < NbRegs)
    <3>1. ToInt(t.next_addr_param + WordSize) = t.next_addr_param + WordSize
      BY <2>2, ToIntIsIdentity, IntMaxAssumption DEF WordSize, FirstStackParam, ParamLayout
    <3>2. /\ new.addr = t.next_addr_param
          /\ u.next_addr = t.next_addr /\ u.next_addr_param = t.next_addr_param + WordSize
      BY <2>1, <2>2, <2>3, <2>5, <3>1 DEF Address, NextAddr, NextAddrParam, OnCallerStack
    <3> HIDE DEF new
    <3>3. \A x \in t.symbols : Disjoint(x, new)
      BY <2>2, <2>3, <3>2 DEF Disjoint, ParamLayout, WordSize, FirstStackParam
    <3>4. Apart(u.symbols)
      BY <2>1, <3>3, ApartWithOneMore DEF ParamLayout
    <3> QED
      BY <2>1, <2>2, <2>3, <2>5, <3>2, <3>4 DEF ParamLayout, WordSize, FirstStackParam
  <2> QED  BY <2>4, <2>5
<1> QED  BY <1>1, <1>2

\* A new local variable goes below those declared before it.
LEMMA AddLocal ==
    ASSUME NEW t \in SymbolTables("local"), NEW base \in Nat, LocalLayout(t, base),
           base <= t.next_addr, NEW s \in Symbol, 0 <= s.size, NEW u \in Add(t, s),
           t.next_addr + s.size <= IntMax
    PROVE  LocalLayout(u, base) /\ base <= u.next_addr
<1>1. CASE u = t
  BY <1>1
<1>2. CASE u # t
  <2> DEFINE new == Place(t, s)
  <2>1. /\ u.symbols \subseteq t.symbols \cup {new}
        /\ u.next_addr = NextAddr(t, s.size)
    BY <1>2, AddCases
  <2>2. /\ t.type = "local" /\ t.next_addr \in Int /\ s.size \in Int
        /\ \A x \in t.symbols : x.addr \in Int /\ x.size \in Int
    BY DEF SymbolTables, Symbol
  <2>3. ToInt(-t.next_addr - s.size) = -t.next_addr - s.size
    BY <2>2, ToIntIsIdentity, IntMaxAssumption
  <2>4. /\ new.addr = -t.next_addr - s.size /\ new.size = s.size
        /\ u.next_addr = t.next_addr + s.size
    BY <2>1, <2>2, <2>3 DEF Place, Address, NextAddr, OnCallerStack
  <2> HIDE DEF new
  <2>5. \A x \in t.symbols : Disjoint(x, new)
    BY <2>2, <2>4 DEF Disjoint, LocalLayout
  <2>6. Apart(u.symbols)
    BY <2>1, <2>5, ApartWithOneMore DEF LocalLayout
  <2> QED  BY <2>1, <2>2, <2>4, <2>6 DEF LocalLayout
<1> QED  BY <1>1, <1>2

\* The variables of a table of globals, inside the bytes counted so far.
LayoutOfGlobals(t) ==
    /\ 0 <= t.next_addr
    /\ \A s \in t.symbols :
         s.kind # "function" => 0 <= s.addr /\ s.addr + s.size <= t.next_addr
    /\ Apart({s \in t.symbols : s.kind # "function"})

\* A new global symbol, variable or function, goes above those before it.
LEMMA AddGlobal ==
    ASSUME NEW t \in SymbolTables("global"), LayoutOfGlobals(t),
           NEW s \in Symbol, 0 <= s.size, NEW u \in Add(t, s),
           s.kind # "function" => t.next_addr + s.size <= IntMax
    PROVE  LayoutOfGlobals(u)
<1>1. CASE u = t
  BY <1>1
<1>2. CASE u # t
  <2> DEFINE new == Place(t, s)
             Variable(x) == x.kind # "function"
  <2>1. /\ u.symbols \subseteq t.symbols \cup {new}
        /\ u.next_addr = NextAddr(t, s.size)
    BY <1>2, AddCases
  <2>2. /\ t.type = "global" /\ t.next_addr \in Int /\ s.size \in Int
        /\ \A x \in t.symbols : x.addr \in Int /\ x.size \in Int
    BY DEF SymbolTables, Symbol
  <2>3. new.size = s.size /\ new.kind = s.kind /\ u.next_addr = t.next_addr + s.size
    BY <2>1, <2>2 DEF Place, NextAddr, OnCallerStack
  <2>4. Variable(new) => new.addr = t.next_addr
    <3> SUFFICES ASSUME s.kind # "function" PROVE new.addr = t.next_addr
      BY <2>3
    <3>1. ToInt(t.next_addr) = t.next_addr
      BY <2>2, ToIntIsIdentity, IntMaxAssumption DEF LayoutOfGlobals
    <3> QED  BY <2>2, <3>1 DEF Place, Address, OnCallerStack
  <2> HIDE DEF new
  <2>5. Variable(new) => \A x \in t.symbols : Variable(x) => Disjoint(x, new)
    BY <2>2, <2>3, <2>4 DEF Disjoint, LayoutOfGlobals
  <2>6. Apart({x \in u.symbols : Variable(x)})
    BY <2>1, <2>5 DEF LayoutOfGlobals, Apart, Disjoint
  <2> QED  BY <2>1, <2>2, <2>3, <2>4, <2>6 DEF LayoutOfGlobals
<1> QED  BY <1>1, <1>2
\* A name that the globals do not hold is added to them.
LEMMA AddToGlobals ==
    ASSUME GlobalsGrow, NEW t \in SymbolTables("global"), NEW s, NEW u \in Add(t, s)
    PROVE  IF Declared(t, s.ident) THEN u = t /\ AddError(t, s) = {"redeclared"}
           ELSE /\ u.symbols = t.symbols \cup {Place(t, s)} /\ AddError(t, s) = {}
                /\ Place(t, s).ident = s.ident /\ Place(t, s).kind = s.kind
<1>1. t.type = "global" /\ t.len \in Nat
  BY DEF SymbolTables
<1>2. <<t.type, t.len>> \notin FullAt
  <2>1. <<t.type, t.len>>[1] = "global"
    BY <1>1
  <2> QED  BY <2>1 DEF GlobalsGrow
<1>3. Stored(t, s) = {t.symbols \cup {Place(t, s)}}
  BY <1>2 DEF Stored
<1> QED  BY <1>3 DEF Add, Moved, AddError, Place

\* Every byte counted so far belongs to a variable.
Filled(t) ==
    GlobalsGrow =>
      \A byte \in 0 .. t.next_addr - 1 :
         \E s \in t.symbols : s.kind # "function" /\ s.addr <= byte /\ byte < s.addr + s.size

\* A new variable takes the bytes it adds, and a function adds none.
LEMMA AddFilled ==
    ASSUME NEW t \in SymbolTables("global"), 0 <= t.next_addr, Filled(t),
           NEW s \in Symbol, 0 <= s.size, NEW u \in Add(t, s),
           s.kind = "function" => s.size = 0,
           s.kind # "function" => t.next_addr + s.size <= IntMax
    PROVE  Filled(u)
<1> SUFFICES ASSUME GlobalsGrow, NEW byte \in 0 .. u.next_addr - 1
             PROVE  \E x \in u.symbols : x.kind # "function" /\ x.addr <= byte /\ byte < x.addr + x.size
  BY DEF Filled
<1>1. CASE Declared(t, s.ident)
  BY <1>1, AddToGlobals DEF Filled
<1>2. CASE ~Declared(t, s.ident)
  <2> DEFINE new == Place(t, s)
  <2>1. u.symbols = t.symbols \cup {new} /\ new.kind = s.kind /\ new.size = s.size
    BY <1>2, AddToGlobals DEF Place
  <2>2. t.type = "global" /\ t.next_addr \in Int /\ s.size \in Int
    BY DEF SymbolTables, Symbol
  <2>3. u.next_addr = t.next_addr + s.size
    BY <1>2, <2>2 DEF Add, Moved, NextAddr, OnCallerStack
  <2>4. new.addr = ToInt(t.next_addr)
    BY <2>2 DEF Place, Address, OnCallerStack
  <2> HIDE DEF new
  <2>5. CASE byte < t.next_addr
    <3>1. byte \in 0 .. t.next_addr - 1
      BY <2>2, <2>3, <2>5
    <3> QED  BY <2>1, <3>1 DEF Filled
  <2>6. CASE ~(byte < t.next_addr)
    <3>1. s.kind # "function"
      BY <2>2, <2>3, <2>6
    <3>2. new.addr = t.next_addr
      BY <2>2, <2>4, <3>1, ToIntIsIdentity, IntMaxAssumption
    <3>3. new.addr <= byte /\ byte < new.addr + new.size
      BY <2>1, <2>2, <2>3, <2>6, <3>2
    <3> QED  BY <2>1, <3>1, <3>3
  <2> QED  BY <2>5, <2>6
<1> QED  BY <1>1, <1>2
-----------------------------------------------------------------------------
(* The invariant                                                           *)

\* A function as _FunctionST_init makes it satisfies both layouts.
LEMMA NewFunctionLayout ==
    ASSUME NEW x \in Name
    PROVE  /\ NewFunction(x) \in FunctionST
           /\ ParamLayout(NewFunction(x).parameters)
           /\ LocalLayout(NewFunction(x).locals, 0)
           /\ NewFunction(x).locals.symbols = {}
           /\ NewFunction(x).parameters.next_addr = 0
  BY IntMaxAssumption DEF NewFunction, Table, FunctionST, SymbolTables, ParamLayout,
                          LocalLayout, Apart, FirstStackParam

LEMMA LayoutOfGlobalsIsGlobalLayout ==
    LayoutOfGlobals(globals) /\ (pc # "builtins" => Filled(globals))
      <=> 0 <= globals.next_addr /\ GlobalLayout
<1>1. (\A s \in GlobalVariables : 0 <= s.addr /\ s.addr + s.size <= globals.next_addr)
         <=> \A s \in globals.symbols :
               s.kind # "function" => 0 <= s.addr /\ s.addr + s.size <= globals.next_addr
  BY DEF GlobalVariables
<1>2. (GlobalsGrow => \A byte \in 0 .. globals.next_addr - 1 :
            \E s \in GlobalVariables : s.addr <= byte /\ byte < s.addr + s.size)
         <=> Filled(globals)
  BY DEF Filled, GlobalVariables
<1> QED  BY <1>1, <1>2 DEF LayoutOfGlobals, GlobalLayout, GlobalVariables

LEMMA GlobalLayoutNext ==
    ASSUME LayoutOfGlobals(globals'), Filled(globals')
    PROVE  0 <= globals'.next_addr /\ GlobalLayout'
<1>1. \A s \in GlobalVariables' : 0 <= s.addr /\ s.addr + s.size <= globals'.next_addr
  BY DEF LayoutOfGlobals, GlobalVariables
<1>2. GlobalsGrow => \A byte \in 0 .. globals'.next_addr - 1 :
         \E s \in GlobalVariables' : s.addr <= byte /\ byte < s.addr + s.size
  BY DEF Filled, GlobalVariables
<1>3. Apart(GlobalVariables')
  BY DEF LayoutOfGlobals, GlobalVariables
<1>4. GlobalsGrow' <=> GlobalsGrow
  BY DEF GlobalsGrow
<1> QED  BY <1>1, <1>2, <1>3, <1>4 DEF LayoutOfGlobals, GlobalLayout, Apart, Disjoint

\* The tables as ProgramST_from_Prog initializes them.
LEMMA InitIInv == Init => IInv
<1> SUFFICES ASSUME Init PROVE IInv
  OBVIOUS
<1>1. /\ globals = Table("global") /\ functions = <<>> /\ func = NewFunction("putchar")
      /\ pc = "builtins" /\ err = {}
  BY DEF Init
<1>2. /\ func \in FunctionST /\ ParamLayout(func.parameters)
      /\ LocalLayout(func.locals, func.parameters.next_addr)
  BY <1>1, NewFunctionLayout DEF Name
<1>3. AllFunctions = {func}
  BY <1>1 DEF AllFunctions
<1>4. /\ globals \in SymbolTables("global") /\ 0 <= globals.next_addr /\ GlobalLayout
      /\ GlobalVariables = {}
  BY <1>1 DEF Table, SymbolTables, GlobalLayout, GlobalVariables, Apart, FirstStackParam
<1>5. TypeOK
  BY <1>1, <1>2, <1>4 DEF TypeOK
<1> QED  BY <1>1, <1>2, <1>3, <1>4, <1>5 DEF IInv

\* What one step needs to know of the sequence of functions.
LEMMA AppendFunction ==
    ASSUME NEW f \in FunctionST, functions \in Seq(FunctionST)
    PROVE  /\ Append(functions, f) \in Seq(FunctionST)
           /\ {Append(functions, f)[i] : i \in DOMAIN Append(functions, f)}
                 \subseteq {functions[i] : i \in DOMAIN functions} \cup {f}
  OBVIOUS

\* The parts of the invariant that speak of the functions only.
FunctionsOK == \A f \in AllFunctions :
    ParamLayout(f.parameters) /\ LocalLayout(f.locals, f.parameters.next_addr)

\* A built-in function has a parameter or none.
LEMMA DefaultFunctionKeepsIInv == IInv /\ AddDefaultFunction => IInv'
<1> SUFFICES ASSUME IInv, AddDefaultFunction PROVE IInv'
  OBVIOUS
<1>1. PICK n \in 1 .. 4 : n = Len(functions) + 1
  <2>1. Len(functions) \in Nat
    <3>1. functions \in Seq(FunctionST)
      BY DEF IInv, TypeOK
    <3> QED  BY <3>1
  <2>2. Len(Builtins) = 4
    BY DEF Builtins
  <2> QED  BY <2>1, <2>2 DEF AddDefaultFunction
<1> DEFINE b == Builtins[n]
<1>2. /\ b.ident \in Name /\ b.size \in {0, WordSize} /\ b.params \subseteq {"character", "number"}
  BY <1>1 DEF Builtins, Name
<1> HIDE DEF b
<1>3. /\ pc = "builtins" /\ UNCHANGED <<func, pc, err>>
      /\ globals' \in Add(globals, Function(b.ident, b.size))
  BY <1>1 DEF AddDefaultFunction, b
<1>4. PICK t : /\ t \in IF b.params = {} THEN {Table("param")}
                         ELSE UNION {Add(Table("param"), Value(x)) : x \in b.params}
               /\ functions' = Append(functions, [NewFunction(b.ident) EXCEPT !.parameters = t])
  BY <1>1 DEF AddDefaultFunction, b
<1>5. Table("param") \in SymbolTables("param") /\ ParamLayout(Table("param"))
  BY IntMaxAssumption DEF Table, SymbolTables, ParamLayout, Apart, FirstStackParam
<1>6. t \in SymbolTables("param") /\ ParamLayout(t) /\ 0 <= t.next_addr
  <2>1. CASE b.params = {}
    BY <1>4, <1>5, <2>1 DEF ParamLayout
  <2>2. CASE b.params # {}
    <3>1. PICK x \in b.params : t \in Add(Table("param"), Value(x))
      BY <1>4, <2>2
    <3>2. Value(x) \in Symbol /\ Value(x).size = WordSize
      BY <1>2 DEF Value, Symbol, Name, Kinds, WordSize
    <3>3. t \in SymbolTables("param")
      BY <1>5, <3>1, <3>2, AddKeepsType, IntMaxAssumption
    <3>4. /\ Table("param").next_addr + WordSize <= IntMax
          /\ Table("param").next_addr_param + WordSize <= IntMax
      BY IntMaxAssumption DEF Table, WordSize, FirstStackParam
    <3>5. ParamLayout(t)
      BY <1>5, <3>1, <3>2, <3>4, AddParam
    <3> QED  BY <3>3, <3>5 DEF ParamLayout
  <2> QED  BY <2>1, <2>2
<1> DEFINE f == [NewFunction(b.ident) EXCEPT !.parameters = t]
<1>7. /\ f \in FunctionST /\ f.parameters = t
      /\ f.locals.symbols = {}
  BY <1>2, <1>6 DEF NewFunction, Table, FunctionST, SymbolTables, FirstStackParam
<1> HIDE DEF f
<1>8. ParamLayout(f.parameters) /\ LocalLayout(f.locals, f.parameters.next_addr)
  BY <1>6, <1>7 DEF LocalLayout, Apart
<1>9. functions' \in Seq(FunctionST) /\ AllFunctions' \subseteq AllFunctions \cup {f}
  <2>1. functions \in Seq(FunctionST) /\ functions' = Append(functions, f) /\ func' = func
    BY <1>3, <1>4 DEF IInv, TypeOK, f
  <2> QED  BY <1>7, <2>1, AppendFunction DEF AllFunctions
<1>10. Function(b.ident, b.size) \in Symbol /\ 0 <= Function(b.ident, b.size).size
  BY <1>2 DEF Function, Symbol, Kinds, WordSize
<1>11. globals' \in SymbolTables("global")
  BY <1>3, <1>10, AddKeepsType, IntMaxAssumption DEF IInv, TypeOK
<1>12. LayoutOfGlobals(globals')
  BY <1>3, <1>10, AddGlobal, LayoutOfGlobalsIsGlobalLayout DEF IInv, TypeOK, Function
<1>13. GlobalVariables' = {}
  <2>1. Place(globals, Function(b.ident, b.size)).kind = "function"
    BY DEF Place, Function
  <2>2. globals' = globals \/ globals'.symbols \subseteq
            globals.symbols \cup {Place(globals, Function(b.ident, b.size))}
    BY <1>3, AddCases
  <2> QED  BY <1>3, <2>1, <2>2 DEF GlobalVariables, IInv
<1>14. TypeOK'
  BY <1>3, <1>9, <1>11 DEF TypeOK, IInv
<1>15. 0 <= globals'.next_addr /\ GlobalLayout'
  BY <1>3, <1>12 DEF LayoutOfGlobals, GlobalLayout, GlobalVariables
<1> QED  BY <1>3, <1>8, <1>9, <1>13, <1>14, <1>15 DEF IInv

\* Steps that declare nothing: the offsets, the end of a function, the end.
LEMMA OtherStepsKeepIInv ==
    IInv /\ (BeginGlobals \/ BeginLocals \/ EndFunction \/ EndProgram \/ UNCHANGED vars) => IInv'
<1> SUFFICES ASSUME IInv,
                    BeginGlobals \/ BeginLocals \/ EndFunction \/ EndProgram \/ UNCHANGED vars
             PROVE  IInv'
  OBVIOUS
<1>1. CASE BeginGlobals
  <2>1. /\ globals' = [globals EXCEPT !.next_addr = 0] /\ pc' = "globals" /\ pc = "builtins"
        /\ UNCHANGED <<functions, func, err>>
    BY <1>1 DEF BeginGlobals
  <2>2. globals' \in SymbolTables("global") /\ globals'.symbols = globals.symbols
        /\ globals'.next_addr = 0
    <3>1. globals \in SymbolTables("global")
      BY DEF IInv, TypeOK
    <3> QED  BY <2>1, <3>1 DEF SymbolTables
  <2>3. GlobalVariables' = {}
    BY <2>1, <2>2 DEF GlobalVariables, IInv
  <2>4. GlobalLayout'
    BY <2>2, <2>3 DEF GlobalLayout, Apart
  <2>5. TypeOK'
    BY <2>1, <2>2 DEF IInv, TypeOK
  <2>6. AllFunctions' = AllFunctions
    BY <2>1 DEF AllFunctions
  <2> QED  BY <2>1, <2>2, <2>4, <2>5, <2>6 DEF IInv
<1>2. CASE BeginLocals
  <2>1. /\ func' = [func EXCEPT !.locals.next_addr = LocalsOffset(func)]
        /\ pc' = "locals" /\ pc = "params" /\ UNCHANGED <<globals, functions, err>>
    BY <1>2 DEF BeginLocals
  <2>2. /\ func \in FunctionST /\ ParamLayout(func.parameters) /\ func.locals.symbols = {}
        /\ func.parameters.next_addr \in Int
    BY <2>1 DEF IInv, TypeOK, AllFunctions, FunctionST, SymbolTables
  <2>3. LocalsOffset(func) = func.parameters.next_addr
    BY <2>2, ToIntIsIdentity, IntMaxAssumption DEF LocalsOffset, ParamLayout
  <2>4. /\ func' \in FunctionST /\ func'.parameters = func.parameters
        /\ func'.locals.symbols = {} /\ func'.locals.next_addr = func.parameters.next_addr
    BY <2>1, <2>2, <2>3 DEF FunctionST, SymbolTables
  <2>5. ParamLayout(func'.parameters) /\ LocalLayout(func'.locals, func'.parameters.next_addr)
    BY <2>2, <2>4 DEF LocalLayout, Apart
  <2>6. AllFunctions' \subseteq AllFunctions \cup {func'}
    BY <2>1 DEF AllFunctions
  <2>7. TypeOK'
    BY <2>1, <2>4 DEF IInv, TypeOK
  <2>8. 0 <= globals'.next_addr /\ GlobalLayout' /\ pc' = "locals"
    BY <2>1 DEF IInv, GlobalLayout, GlobalVariables
  <2>9. func'.parameters.next_addr <= func'.locals.next_addr
    BY <2>2, <2>4
  <2> QED  BY <2>5, <2>6, <2>7, <2>8, <2>9 DEF IInv
<1>3. CASE EndFunction
  <2>1. /\ functions' = Append(functions, func) /\ pc' = "functions" /\ UNCHANGED <<globals, func>>
        /\ err' = err \cup RedeclaredParams(func)
    BY <1>3 DEF EndFunction
  <2>2. functions \in Seq(FunctionST) /\ func \in FunctionST
    BY DEF IInv, TypeOK
  <2>3. functions' \in Seq(FunctionST) /\ AllFunctions' \subseteq AllFunctions
    BY <2>1, <2>2, AppendFunction DEF AllFunctions
  <2>4. err' \subseteq {"redeclared", "zero size"}
    BY <2>1 DEF RedeclaredParams, IInv, TypeOK
  <2>5. 0 <= globals'.next_addr /\ GlobalLayout'
    <3>1. pc = "locals" /\ pc' # "builtins"
      BY <1>3 DEF EndFunction
    <3> QED  BY <2>1, <3>1 DEF IInv, GlobalLayout, GlobalVariables
  <2>6. TypeOK'
    BY <2>1, <2>2, <2>3, <2>4 DEF IInv, TypeOK
  <2> QED  BY <2>1, <2>3, <2>5, <2>6 DEF IInv
<1>4. CASE EndProgram
  BY <1>4 DEF EndProgram, IInv, TypeOK, GlobalLayout, GlobalVariables, AllFunctions
<1>5. CASE UNCHANGED vars
  BY <1>5 DEF vars, IInv, TypeOK, GlobalLayout, GlobalVariables, AllFunctions
<1> QED  BY <1>1, <1>2, <1>3, <1>4, <1>5

LEMMA ErrorsAreErrors ==
    ASSUME NEW t, NEW s
    PROVE  AddError(t, s) \cup SizeError(s) \subseteq {"redeclared", "zero size"}
  BY DEF AddError, SizeError

\* The declaration of a global variable, of a parameter or of a local variable
\* keeps the invariant as long as the table fits in an int.
LEMMA DeclarationsKeepIInv ==
    ASSUME MaxFrame <= IntMax, IInv
    PROVE  /\ \A s \in Variables : DeclareGlobal(s) => IInv'
           /\ \A s \in Parameters : DeclareParam(s) => IInv'
           /\ \A s \in Variables : DeclareLocal(s) => IInv'
<1> USE MaxFrameAssumption, IntMaxAssumption
<1>1. ASSUME NEW s \in Variables, DeclareGlobal(s) PROVE IInv'
  <2>1. /\ pc = "globals" /\ globals.next_addr + s.length * WordSize <= MaxFrame
        /\ globals' \in Add(globals, s)
        /\ err' = err \cup AddError(globals, s) \cup SizeError(s)
        /\ UNCHANGED <<functions, func, pc>>
    BY <1>1 DEF DeclareGlobal, Fits
  <2>2. globals \in SymbolTables("global") /\ globals.next_addr \in Int /\ s.length \in Int
    <3>1. globals \in SymbolTables("global")
      BY DEF IInv, TypeOK
    <3>2. s.length \in Nat
      BY VariableLength
    <3> QED  BY <3>1, <3>2 DEF SymbolTables
  <2>3. s.length * WordSize \in Int /\ s.length * WordSize <= IntMax
    BY <2>1, <2>2 DEF IInv, WordSize
  <2>4. s \in Symbol /\ 0 <= s.size /\ s.size = s.length * WordSize
    BY <2>3, VariableSize
  <2>5. globals.next_addr + s.size <= IntMax
    BY <2>1, <2>2, <2>3, <2>4
  <2>6. globals' \in SymbolTables("global")
    BY <2>1, <2>2, <2>4, AddKeepsType
  <2>7. LayoutOfGlobals(globals')
    BY <2>1, <2>2, <2>4, <2>5, AddGlobal, LayoutOfGlobalsIsGlobalLayout DEF IInv
  <2>8. Filled(globals')
    <3>1. Filled(globals) /\ 0 <= globals.next_addr
      BY <2>1, LayoutOfGlobalsIsGlobalLayout DEF IInv
    <3>2. s.kind # "function"
      BY <2>3, VariableSize
    <3> QED  BY <2>1, <2>2, <2>4, <2>5, <3>1, <3>2, AddFilled
  <2>9. 0 <= globals'.next_addr /\ GlobalLayout'
    BY <2>7, <2>8, GlobalLayoutNext
  <2> QED  BY <2>1, <2>6, <2>9, ErrorsAreErrors DEF IInv, TypeOK, AllFunctions
<1>2. ASSUME NEW s \in Parameters, DeclareParam(s) PROVE IInv'
  <2> DEFINE p == func.parameters
  <2>1. /\ pc = "params" /\ p.next_addr + s.length * WordSize <= MaxFrame
        /\ p.next_addr_param + WordSize <= MaxFrame
        /\ err' = err \cup AddError(p, s)
        /\ UNCHANGED <<globals, functions, pc>>
    BY <1>2 DEF DeclareParam, Fits
  <2>2. PICK t \in Add(p, s) : func' = [func EXCEPT !.parameters = t]
    BY <1>2 DEF DeclareParam
  <2>3. /\ func \in FunctionST /\ p \in SymbolTables("param") /\ ParamLayout(p)
        /\ p.next_addr \in Int /\ p.next_addr_param \in Int /\ func.locals.symbols = {}
    BY <2>1 DEF IInv, TypeOK, FunctionST, SymbolTables, AllFunctions
  <2>4. s \in Symbol /\ s.size = WordSize /\ s.length = 1
    BY ParameterSize
  <2> HIDE DEF p
  <2>5. p.next_addr + WordSize <= IntMax /\ p.next_addr_param + WordSize <= IntMax
    BY <2>1, <2>3, <2>4 DEF WordSize
  <2>6. t \in SymbolTables("param") /\ ParamLayout(t)
    BY <2>3, <2>4, <2>5, AddKeepsType, AddParam
  <2>7. func' \in FunctionST /\ func'.parameters = t /\ func'.locals = func.locals
    BY <2>2, <2>3, <2>6 DEF FunctionST
  <2>8. ParamLayout(func'.parameters) /\ LocalLayout(func'.locals, func'.parameters.next_addr)
    BY <2>3, <2>6, <2>7 DEF LocalLayout, Apart
  <2>9. AllFunctions' \subseteq AllFunctions \cup {func'}
    BY <2>1 DEF AllFunctions
  <2>10. TypeOK'
    BY <2>1, <2>7, ErrorsAreErrors DEF IInv, TypeOK
  <2> QED
    BY <2>1, <2>3, <2>7, <2>8, <2>9, <2>10 DEF IInv, GlobalLayout, GlobalVariables
<1>3. ASSUME NEW s \in Variables, DeclareLocal(s) PROVE IInv'
  <2> DEFINE l == func.locals
             base == func.parameters.next_addr
  <2>1. /\ pc = "locals" /\ l.next_addr + s.length * WordSize <= MaxFrame
        /\ err' = err \cup AddError(l, s) \cup SizeError(s)
        /\ UNCHANGED <<globals, functions, pc>>
    BY <1>3 DEF DeclareLocal, Fits
  <2>2. PICK t \in Add(l, s) : func' = [func EXCEPT !.locals = t]
    BY <1>3 DEF DeclareLocal
  <2>3. /\ func \in FunctionST /\ l \in SymbolTables("local") /\ l.next_addr \in Int
        /\ ParamLayout(func.parameters) /\ LocalLayout(l, base) /\ base <= l.next_addr
        /\ base \in Nat /\ s.length \in Int
    <3>1. func \in FunctionST /\ func \in AllFunctions
      BY DEF IInv, TypeOK, AllFunctions
    <3>2. /\ l \in SymbolTables("local") /\ l.next_addr \in Int /\ base \in Int
      BY <3>1 DEF FunctionST, SymbolTables
    <3>3. ParamLayout(func.parameters) /\ LocalLayout(l, base) /\ base <= l.next_addr
      BY <2>1, <3>1 DEF IInv
    <3>4. 0 <= base
      BY <3>3 DEF ParamLayout
    <3> QED  BY <3>1, <3>2, <3>3, <3>4, VariableLength
  <2> HIDE DEF l, base
  <2>4. s.length * WordSize \in Int /\ s.length * WordSize <= IntMax
    BY <2>1, <2>3 DEF WordSize
  <2>5. s \in Symbol /\ 0 <= s.size /\ s.size = s.length * WordSize
    BY <2>4, VariableSize
  <2>6. l.next_addr + s.size <= IntMax
    BY <2>1, <2>3, <2>4, <2>5
  <2>7. t \in SymbolTables("local") /\ LocalLayout(t, base) /\ base <= t.next_addr
    BY <2>3, <2>5, <2>6, AddKeepsType, AddLocal
  <2>8. /\ func' \in FunctionST /\ func'.locals = t /\ func'.parameters = func.parameters
        /\ func'.parameters.next_addr = base
    BY <2>2, <2>3, <2>7 DEF FunctionST, base
  <2>9. AllFunctions' \subseteq AllFunctions \cup {func'}
    BY <2>1 DEF AllFunctions
  <2>10. TypeOK'
    BY <2>1, <2>8, ErrorsAreErrors DEF IInv, TypeOK
  <2> QED
    BY <2>1, <2>3, <2>7, <2>8, <2>9, <2>10 DEF IInv, GlobalLayout, GlobalVariables
<1> QED  BY <1>1, <1>2, <1>3

\* The header of a function adds its name to the globals and opens empty tables.
LEMMA BeginFunctionKeepsIInv ==
    ASSUME IInv, NEW x \in Ident, BeginFunction(x)
    PROVE  IInv'
<1>1. /\ pc \in {"globals", "functions"} /\ pc' = "params" /\ func' = NewFunction(x)
      /\ globals' \in Add(globals, Function(x, 0))
      /\ err' = err \cup AddError(globals, Function(x, 0))
      /\ functions' = functions
  BY DEF BeginFunction
<1>2. /\ func' \in FunctionST /\ ParamLayout(func'.parameters)
      /\ LocalLayout(func'.locals, func'.parameters.next_addr) /\ func'.locals.symbols = {}
  BY <1>1, NewFunctionLayout DEF Name
<1>3. Function(x, 0) \in Symbol /\ 0 <= Function(x, 0).size /\ Function(x, 0).kind = "function"
  BY DEF Function, Symbol, Kinds, Name
<1>4. globals \in SymbolTables("global")
  BY DEF IInv, TypeOK
<1>5. globals' \in SymbolTables("global")
  BY <1>1, <1>3, <1>4, AddKeepsType, IntMaxAssumption
<1>6. LayoutOfGlobals(globals')
  BY <1>1, <1>3, <1>4, AddGlobal, LayoutOfGlobalsIsGlobalLayout DEF IInv
<1>7. 0 <= globals'.next_addr /\ GlobalLayout'
  <2>1. Filled(globals) /\ 0 <= globals.next_addr
    BY <1>1, LayoutOfGlobalsIsGlobalLayout DEF IInv
  <2>2. Function(x, 0).size = 0
    BY DEF Function
  <2>3. Filled(globals')
    BY <1>1, <1>3, <1>4, <2>1, <2>2, AddFilled
  <2> QED  BY <1>6, <2>3, GlobalLayoutNext
<1>8. AllFunctions' \subseteq AllFunctions \cup {func'}
  BY <1>1 DEF AllFunctions
<1>9. err' \subseteq {"redeclared", "zero size"}
  BY <1>1 DEF AddError, IInv, TypeOK
<1>10. TypeOK'
  BY <1>1, <1>2, <1>5, <1>9 DEF IInv, TypeOK
<1> QED  BY <1>1, <1>2, <1>7, <1>8, <1>10 DEF IInv

\* Every step keeps the invariant.
LEMMA NextIInv ==
    ASSUME MaxFrame <= IntMax
    PROVE  IInv /\ [Next]_vars => IInv'
<1> SUFFICES ASSUME IInv, [Next]_vars PROVE IInv'
  OBVIOUS
<1>1. CASE AddDefaultFunction
  BY <1>1, DefaultFunctionKeepsIInv
<1>2. ASSUME NEW s \in Variables, DeclareGlobal(s) \/ DeclareLocal(s) PROVE IInv'
  BY <1>2, DeclarationsKeepIInv
<1>3. ASSUME NEW s \in Parameters, DeclareParam(s) PROVE IInv'
  BY <1>3, DeclarationsKeepIInv
<1>4. ASSUME NEW x \in Ident, BeginFunction(x) PROVE IInv'
  BY <1>4, BeginFunctionKeepsIInv
<1>5. CASE BeginGlobals \/ BeginLocals \/ EndFunction \/ EndProgram \/ UNCHANGED vars
  BY <1>5, OtherStepsKeepIInv
<1> QED  BY <1>1, <1>2, <1>3, <1>4, <1>5 DEF Next

\* The invariant holds of every program whose tables fit in an int.
THEOREM LayoutInvariant ==
    ASSUME MaxFrame <= IntMax
    PROVE  Spec => []IInv
  BY InitIInv, NextIInv, PTL DEF Spec

\* The tables keep their types.
THEOREM TypeCorrect ==
    ASSUME MaxFrame <= IntMax
    PROVE  Spec => []TypeOK
<1>1. IInv => TypeOK
  BY DEF IInv
<1> QED  BY <1>1, LayoutInvariant, PTL

\* The global variables lie side by side in the block the assembly reserves, and
\* fill it when the list of the globals grows (symbolTable.c:313-332, codeWriter.c:44).
THEOREM GlobalsSideBySide ==
    ASSUME MaxFrame <= IntMax
    PROVE  Spec => []GlobalLayout
<1>1. IInv => GlobalLayout
  BY DEF IInv
<1> QED  BY <1>1, LayoutInvariant, PTL

\* The parameters and the local variables of a function lie side by side in its
\* frame, whatever the number of registers.
THEOREM FramesSideBySide ==
    ASSUME MaxFrame <= IntMax
    PROVE  Spec => []FrameLayout
<1>1. IInv => FrameLayout
  BY DEF IInv, FrameLayout, FrameLayoutOf, ParamLayout, LocalLayout
<1> QED  BY <1>1, LayoutInvariant, PTL

\* ST_get returns a symbol of its table that has the name it was asked for.
LEMMA GetReturnsTheName ==
    ASSUME NEW t, NEW x, Declared(t, x)
    PROVE  Get(t, x) \in t.symbols /\ Get(t, x).ident = x
  BY DEF Get, Declared

\* A parameter and a local variable of one function do not meet.
LEMMA ParameterAndLocalApart ==
    ASSUME NEW f \in FunctionST, ParamLayout(f.parameters),
           LocalLayout(f.locals, f.parameters.next_addr),
           NEW s \in f.parameters.symbols, NEW u \in f.locals.symbols
    PROVE  Disjoint(s, u)
<1>1. /\ s \in Symbol /\ u \in Symbol /\ f.parameters.next_addr \in Int
  BY DEF FunctionST, SymbolTables
<1>2. s.addr \in Int /\ s.size \in Int /\ u.addr \in Int /\ u.size \in Int
  BY <1>1 DEF Symbol
<1>3. u.addr + u.size <= -f.parameters.next_addr /\ 0 <= f.parameters.next_addr
  BY DEF LocalLayout, ParamLayout
<1>4. -f.parameters.next_addr <= s.addr \/ FirstStackParam <= s.addr
  BY DEF ParamLayout
<1> QED  BY <1>1, <1>2, <1>3, <1>4 DEF Disjoint, FirstStackParam

\* The layouts leave no byte to two names of one function, which is what the
\* code that is generated for an assignment relies on.
LEMMA LayoutSeparates == IInv => StorageDisjoint
<1> SUFFICES ASSUME IInv, NEW f \in AllFunctions, NEW x \in Ident, NEW y \in Ident, x # y,
                    Declared(Scope(f, x), x), Declared(Scope(f, y), y),
                    Section(Scope(f, x)) = Section(Scope(f, y)),
                    Resolve(f, x).kind # "function", Resolve(f, y).kind # "function"
             PROVE  Disjoint(Resolve(f, x), Resolve(f, y))
  BY DEF StorageDisjoint
<1> DEFINE s == Resolve(f, x)
           u == Resolve(f, y)
<1>1. s \in Scope(f, x).symbols /\ s.ident = x /\ u \in Scope(f, y).symbols /\ u.ident = y
  BY GetReturnsTheName DEF Resolve
<1>2. s # u
  BY <1>1
<1>3. /\ f \in FunctionST /\ ParamLayout(f.parameters)
      /\ LocalLayout(f.locals, f.parameters.next_addr)
  <2>1. f \in FunctionST
    <3>1. functions \in Seq(FunctionST) /\ func \in FunctionST
      BY DEF IInv, TypeOK
    <3> QED  BY <3>1 DEF AllFunctions
  <2> QED  BY <2>1 DEF IInv
<1>4. /\ f.locals.type = "local" /\ f.parameters.type = "param" /\ globals.type = "global"
  BY <1>3 DEF FunctionST, SymbolTables, IInv, TypeOK
<1>5. /\ Scope(f, x) \in {f.locals, f.parameters, globals}
      /\ Scope(f, y) \in {f.locals, f.parameters, globals}
  BY DEF Scope, ScopeIn
<1> HIDE DEF s, u
<1>6. CASE Scope(f, x) = globals \/ Scope(f, y) = globals
  <2>1. Scope(f, x) = globals /\ Scope(f, y) = globals
    BY <1>4, <1>5, <1>6 DEF Section
  <2>2. s \in GlobalVariables /\ u \in GlobalVariables
    BY <1>1, <2>1 DEF GlobalVariables, s, u
  <2> QED  BY <1>2, <2>2 DEF IInv, GlobalLayout, Apart, s, u
<1>7. CASE Scope(f, x) # globals /\ Scope(f, y) # globals
  <2>1. CASE Scope(f, x) = Scope(f, y)
    BY <1>1, <1>2, <1>3, <1>5, <1>7, <2>1 DEF ParamLayout, LocalLayout, Apart, s, u
  <2>2. CASE Scope(f, x) # Scope(f, y)
    <3>1. \/ s \in f.parameters.symbols /\ u \in f.locals.symbols
          \/ u \in f.parameters.symbols /\ s \in f.locals.symbols
      BY <1>1, <1>5, <1>7, <2>2
    <3>2. Disjoint(s, u) \/ Disjoint(u, s)
      BY <1>3, <3>1, ParameterAndLocalApart
    <3> QED  BY <3>2 DEF Disjoint, s, u
  <2> QED  BY <2>1, <2>2
<1> QED  BY <1>6, <1>7

\* No two variables that a function may name share a byte.
THEOREM VariablesDisjoint ==
    ASSUME MaxFrame <= IntMax
    PROVE  Spec => []StorageDisjoint
  BY LayoutInvariant, LayoutSeparates, PTL
-----------------------------------------------------------------------------
(* What the code of a call relies on                                       *)

\* The indices of the parameters are those of an array, and once there is no
\* register left every parameter takes the next word above the return address,
\* unless an insertion failed: then the two counters are ahead of the length.
Ahead(t) == t.next_addr + t.next_addr_param - FirstStackParam - (t.len * WordSize)
ParamsInPlace(t) ==
    /\ \A s \in t.symbols : s.index < t.len
    /\ \A k \in 0 .. t.len - 1 : \E s \in t.symbols : s.index = k
    /\ \A s, u \in t.symbols : s.index = u.index => s = u
    /\ 0 <= Ahead(t)
    /\ Ahead(t) = 0 =>
         /\ t.len <= NbRegs => t.next_addr_param = FirstStackParam
         /\ NbRegs <= t.len => t.next_addr = NbRegs * WordSize
         /\ \A s \in t.symbols :
              s.index >= NbRegs => s.addr = FirstStackParam + WordSize * (s.index - NbRegs)

LEMMA EmptyInPlace == ParamsInPlace(Table("param"))
  BY NbRegsAssumption DEF ParamsInPlace, Ahead, Table, FirstStackParam, WordSize

\* A symbol that is stored counts for one, and one that is not for none.
LEMMA AddCounts ==
    ASSUME NEW t, NEW s, NEW u \in Add(t, s), u # t, t.len \in Nat
    PROVE  /\ u.next_addr = NextAddr(t, s.size) /\ u.next_addr_param = NextAddrParam(t, s.size)
           /\ \/ u.symbols = t.symbols \cup {Place(t, s)} /\ u.len = t.len + 1
              \/ u.symbols = t.symbols /\ u.len = t.len
<1>1. ~Declared(t, s.ident) /\ u \in {Moved(t, s, symbols) : symbols \in Stored(t, s)}
  BY DEF Add
<1>2. Place(t, s).ident = s.ident
  BY DEF Place
<1>3. t.symbols \cup {Place(t, s)} # t.symbols
  BY <1>1, <1>2 DEF Declared
<1> QED  BY <1>1, <1>3 DEF Moved, Stored

\* A new parameter takes the next place, in a register or above the others.
LEMMA AddInPlace ==
    ASSUME NEW t \in SymbolTables("param"), ParamsInPlace(t),
           NEW s \in Symbol, s.size = WordSize, NEW u \in Add(t, s),
           FirstStackParam <= t.next_addr_param, t.next_addr_param + WordSize <= IntMax
    PROVE  ParamsInPlace(u)
<1>1. CASE u = t
  BY <1>1
<1>2. CASE u # t
  <2> DEFINE new == Place(t, s)
  <2>1. /\ t.type = "param" /\ t.len \in Nat /\ t.next_addr \in Int /\ t.next_addr_param \in Int
        /\ \A x \in t.symbols : x.addr \in Int /\ x.index \in Nat
        /\ NbRegs \in Nat
    BY NbRegsAssumption DEF SymbolTables, Symbol
  <2>2. /\ u.next_addr = NextAddr(t, WordSize) /\ u.next_addr_param = NextAddrParam(t, WordSize)
        /\ \/ u.symbols = t.symbols \cup {new} /\ u.len = t.len + 1
           \/ u.symbols = t.symbols /\ u.len = t.len
    BY <1>2, <2>1, AddCounts
  <2>3. new.index = t.len /\ new.addr = Address(t, WordSize)
    BY DEF Place
  <2>4. IF t.len < NbRegs
        THEN u.next_addr = t.next_addr + WordSize /\ u.next_addr_param = t.next_addr_param
        ELSE /\ u.next_addr = t.next_addr /\ u.next_addr_param = t.next_addr_param + WordSize
             /\ new.addr = t.next_addr_param
    <3>1. ToInt(t.next_addr_param + WordSize) = t.next_addr_param + WordSize
      BY <2>1, ToIntIsIdentity, IntMaxAssumption DEF WordSize, FirstStackParam
    <3> QED  BY <2>1, <2>2, <2>3, <3>1 DEF NextAddr, NextAddrParam, Address, OnCallerStack
  <2> HIDE DEF new
  <2>5. CASE u.symbols = t.symbols /\ u.len = t.len
    <3>1. Ahead(u) = Ahead(t) + WordSize
      BY <2>1, <2>4, <2>5 DEF Ahead, WordSize, FirstStackParam
    <3>2. Ahead(t) \in Int
      BY <2>1 DEF Ahead, WordSize, FirstStackParam
    <3> QED  BY <2>5, <3>1, <3>2 DEF ParamsInPlace, WordSize
  <2>6. CASE u.symbols = t.symbols \cup {new} /\ u.len = t.len + 1
    <3>1. Ahead(u) = Ahead(t) /\ 0 <= Ahead(u)
      BY <2>1, <2>4, <2>6 DEF Ahead, WordSize, FirstStackParam, ParamsInPlace
    <3>2. \A x \in u.symbols : x.index < u.len
      BY <2>1, <2>3, <2>6 DEF ParamsInPlace
    <3>3. \A k \in 0 .. u.len - 1 : \E x \in u.symbols : x.index = k
      <4> TAKE k \in 0 .. u.len - 1
      <4>1. k = t.len \/ k \in 0 .. t.len - 1
        BY <2>1, <2>6
      <4> QED  BY <2>3, <2>6, <4>1 DEF ParamsInPlace
    <3>4. \A x, y \in u.symbols : x.index = y.index => x = y
      <4>1. \A x \in t.symbols : x.index # new.index
        BY <2>1, <2>3 DEF ParamsInPlace
      <4> QED  BY <2>6, <4>1 DEF ParamsInPlace
    <3>5. ASSUME Ahead(u) = 0
          PROVE  /\ u.len <= NbRegs => u.next_addr_param = FirstStackParam
                 /\ NbRegs <= u.len => u.next_addr = NbRegs * WordSize
                 /\ \A x \in u.symbols :
                      x.index >= NbRegs => x.addr = FirstStackParam + WordSize * (x.index - NbRegs)
      <4>1. /\ t.len <= NbRegs => t.next_addr_param = FirstStackParam
            /\ NbRegs <= t.len => t.next_addr = NbRegs * WordSize
            /\ \A x \in t.symbols :
                 x.index >= NbRegs => x.addr = FirstStackParam + WordSize * (x.index - NbRegs)
        BY <3>1, <3>5 DEF ParamsInPlace
      <4>2. t.next_addr + t.next_addr_param - FirstStackParam = t.len * WordSize
        BY <2>1, <3>1, <3>5 DEF Ahead, WordSize, FirstStackParam
      <4>3. CASE t.len < NbRegs
        BY <2>1, <2>3, <2>4, <2>6, <4>1, <4>2, <4>3 DEF WordSize, FirstStackParam
      <4>4. CASE ~(t.len < NbRegs)
        <5>1. new.addr = FirstStackParam + WordSize * (new.index - NbRegs)
          BY <2>1, <2>3, <2>4, <4>1, <4>2, <4>4 DEF WordSize, FirstStackParam
        <5> QED  BY <2>1, <2>4, <2>6, <4>1, <4>4, <5>1
      <4> QED  BY <4>3, <4>4
    <3> QED  BY <3>1, <3>2, <3>3, <3>4, <3>5 DEF ParamsInPlace
  <2> QED  BY <2>2, <2>5, <2>6
<1> QED  BY <1>1, <1>2
-----------------------------------------------------------------------------
(* The parameters of every function                                        *)

AllInPlace == \A f \in AllFunctions : ParamsInPlace(f.parameters)

LEMMA InitInPlace == Init => AllInPlace
<1> SUFFICES ASSUME Init PROVE AllInPlace
  OBVIOUS
<1>1. AllFunctions = {NewFunction("putchar")}
  BY DEF Init, AllFunctions
<1> QED  BY <1>1, EmptyInPlace DEF AllInPlace, NewFunction

\* The parameter of a built-in function, if it has one.
LEMMA DefaultInPlace == IInv /\ AllInPlace /\ AddDefaultFunction => AllInPlace'
<1> SUFFICES ASSUME IInv, AllInPlace, AddDefaultFunction PROVE AllInPlace'
  OBVIOUS
<1>1. functions \in Seq(FunctionST) /\ Len(functions) \in Nat /\ Len(Builtins) = 4
  <2>1. functions \in Seq(FunctionST)
    BY DEF IInv, TypeOK
  <2>2. Len(Builtins) = 4
    BY DEF Builtins
  <2> QED  BY <2>1, <2>2
<1>2. PICK n \in 1 .. 4 : n = Len(functions) + 1
  BY <1>1 DEF AddDefaultFunction
<1> DEFINE b == Builtins[n]
<1>3. b.params \subseteq {"character", "number"}
  BY <1>2 DEF Builtins
<1>4. PICK t : /\ t \in IF b.params = {} THEN {Table("param")}
                         ELSE UNION {Add(Table("param"), Value(x)) : x \in b.params}
               /\ functions' = Append(functions, [NewFunction(b.ident) EXCEPT !.parameters = t])
  BY <1>2 DEF AddDefaultFunction
<1> HIDE DEF b
<1>5. ParamsInPlace(t)
  <2>1. CASE b.params = {}
    BY <1>4, <2>1, EmptyInPlace
  <2>2. CASE b.params # {}
    <3>1. PICK x \in b.params : t \in Add(Table("param"), Value(x))
      BY <1>4, <2>2
    <3>2. Value(x) \in Symbol /\ Value(x).size = WordSize
      BY <1>3 DEF Value, Symbol, Name, Kinds, WordSize
    <3>3. /\ Table("param") \in SymbolTables("param")
          /\ FirstStackParam <= Table("param").next_addr_param
          /\ Table("param").next_addr_param + WordSize <= IntMax
      BY IntMaxAssumption DEF Table, SymbolTables, WordSize, FirstStackParam
    <3> QED  BY <3>1, <3>2, <3>3, EmptyInPlace, AddInPlace
  <2> QED  BY <2>1, <2>2
<1> DEFINE f == [NewFunction(b.ident) EXCEPT !.parameters = t]
<1>6. f.parameters = t
  BY DEF NewFunction
<1> HIDE DEF f
<1>7. AllFunctions' \subseteq AllFunctions \cup {f}
  BY <1>1, <1>4 DEF AddDefaultFunction, AllFunctions, f
<1> QED  BY <1>5, <1>6, <1>7 DEF AllInPlace

\* The declaration of a parameter.
LEMMA DeclareParamInPlace ==
    ASSUME MaxFrame <= IntMax, IInv, AllInPlace, NEW s \in Parameters, DeclareParam(s)
    PROVE  AllInPlace'
<1> DEFINE p == func.parameters
<1>1. p.next_addr_param + WordSize <= MaxFrame /\ UNCHANGED functions
  BY DEF DeclareParam, Fits
<1>2. PICK t \in Add(p, s) : func' = [func EXCEPT !.parameters = t]
  BY DEF DeclareParam
<1>3. /\ func \in FunctionST /\ p \in SymbolTables("param") /\ ParamLayout(p) /\ ParamsInPlace(p)
      /\ p.next_addr_param \in Int
  BY DEF IInv, AllInPlace, TypeOK, FunctionST, SymbolTables, AllFunctions
<1>4. s \in Symbol /\ s.size = WordSize
  BY ParameterSize
<1>5. FirstStackParam <= p.next_addr_param /\ p.next_addr_param + WordSize <= IntMax
  BY <1>1, <1>3, MaxFrameAssumption, IntMaxAssumption DEF ParamLayout, WordSize
<1> HIDE DEF p
<1>6. ParamsInPlace(t)
  BY <1>2, <1>3, <1>4, <1>5, AddInPlace
<1>7. func'.parameters = t
  BY <1>2, <1>3 DEF FunctionST
<1>8. AllFunctions' \subseteq AllFunctions \cup {func'}
  BY <1>1 DEF AllFunctions
<1> QED  BY <1>6, <1>7, <1>8 DEF AllInPlace

\* The other steps touch no table of parameters.
LEMMA OthersInPlace ==
    ASSUME IInv, AllInPlace,
           \/ BeginGlobals \/ BeginLocals \/ EndFunction \/ EndProgram \/ UNCHANGED vars
           \/ \E s \in Variables : DeclareGlobal(s) \/ DeclareLocal(s)
           \/ \E x \in Ident : BeginFunction(x)
    PROVE  AllInPlace'
<1>1. func \in FunctionST /\ functions \in Seq(FunctionST)
  BY DEF IInv, TypeOK
<1>2. \/ func'.parameters = func.parameters \/ func'.parameters = Table("param")
  <2>1. CASE BeginLocals
    BY <1>1, <2>1 DEF BeginLocals, FunctionST
  <2>2. ASSUME NEW s \in Variables, DeclareLocal(s) PROVE func'.parameters = func.parameters
    BY <1>1, <2>2 DEF DeclareLocal, FunctionST
  <2>3. ASSUME NEW x \in Ident, BeginFunction(x) PROVE func'.parameters = Table("param")
    BY <2>3 DEF BeginFunction, NewFunction
  <2>4. CASE BeginGlobals \/ EndFunction \/ EndProgram \/ UNCHANGED vars
    BY <2>4 DEF BeginGlobals, EndFunction, EndProgram, vars
  <2>5. ASSUME NEW s \in Variables, DeclareGlobal(s) PROVE func'.parameters = func.parameters
    BY <2>5 DEF DeclareGlobal
  <2> QED  BY <2>1, <2>2, <2>3, <2>4, <2>5
<1>3. functions' = functions \/ functions' = Append(functions, func)
  BY DEF BeginGlobals, BeginLocals, EndFunction, EndProgram, vars, DeclareGlobal, DeclareLocal, BeginFunction
<1>4. AllFunctions' \subseteq AllFunctions \cup {func'}
  BY <1>1, <1>3, AppendFunction DEF AllFunctions
<1>5. ParamsInPlace(func.parameters)
  BY DEF AllInPlace, AllFunctions
<1>6. ParamsInPlace(func'.parameters)
  BY <1>2, <1>5, EmptyInPlace
<1> QED  BY <1>4, <1>6 DEF AllInPlace

LEMMA NextInPlace ==
    ASSUME MaxFrame <= IntMax
    PROVE  IInv /\ AllInPlace /\ [Next]_vars => AllInPlace'
  BY DefaultInPlace, DeclareParamInPlace, OthersInPlace DEF Next

\* The callee reads every parameter where the caller left it, for any number of
\* parameters and registers, when no insertion failed before it.
THEOREM ParametersWhereCallersPut ==
    ASSUME MaxFrame <= IntMax
    PROVE  Spec => []ParametersInPlace
<1>1. IInv /\ AllInPlace => ParametersInPlace
  <2> SUFFICES ASSUME IInv, AllInPlace, NEW f \in AllFunctions,
                      f.parameters.next_addr + f.parameters.next_addr_param - FirstStackParam
                        = f.parameters.len * WordSize
               PROVE  /\ \A k \in 0 .. f.parameters.len - 1 : \E s \in f.parameters.symbols : s.index = k
                      /\ \A s, u \in f.parameters.symbols : s.index = u.index => s = u
                      /\ \A s \in f.parameters.symbols :
                           s.index >= NbRegs =>
                               s.addr = FirstStackParam + WordSize * (s.index - NbRegs)
    BY DEF ParametersInPlace
  <2>1. ParamsInPlace(f.parameters)
    BY DEF AllInPlace
  <2>2. f \in FunctionST
    <3>1. functions \in Seq(FunctionST) /\ func \in FunctionST
      BY DEF IInv, TypeOK
    <3> QED  BY <3>1 DEF AllFunctions
  <2>3. /\ f.parameters.len \in Nat
        /\ f.parameters.next_addr \in Int /\ f.parameters.next_addr_param \in Int
    BY <2>2 DEF FunctionST, SymbolTables
  <2>4. Ahead(f.parameters) = 0
    BY <2>3 DEF Ahead, WordSize, FirstStackParam
  <2> QED  BY <2>1, <2>4 DEF ParamsInPlace
<1> QED  BY <1>1, LayoutInvariant, InitInPlace, NextInPlace, PTL DEF Spec
-----------------------------------------------------------------------------
(* The functions of the list and of the globals                            *)

Listed == {functions[i].ident : i \in DOMAIN functions}
Declaring == IF pc \in {"params", "locals"} THEN {func.ident} ELSE {}
FunctionNames(t) == {s.ident : s \in {u \in t.symbols : u.kind = "function"}}

\* The built-in functions are listed in their order, each once and before any
\* other name; then the function being declared is the one that is not listed.
SameFunctions ==
    /\ pc = "builtins" =>
         /\ Len(functions) <= Len(Builtins)
         /\ \A i \in DOMAIN functions : functions[i].ident = Builtins[i].ident
         /\ Names(globals) = Listed
    /\ "redeclared" \notin err =>
         /\ \A i, j \in DOMAIN functions : functions[i].ident = functions[j].ident => i = j
         /\ FunctionNames(globals) = Listed \cup Declaring
         /\ Declaring \cap Listed = {}

LEMMA NamesAdded ==
    ASSUME GlobalsGrow, NEW t \in SymbolTables("global"), NEW s, NEW u \in Add(t, s),
           ~Declared(t, s.ident)
    PROVE  /\ Names(u) = Names(t) \cup {s.ident}
           /\ FunctionNames(u) = FunctionNames(t)
                                   \cup (IF s.kind = "function" THEN {s.ident} ELSE {})
<1>1. /\ u.symbols = t.symbols \cup {Place(t, s)}
      /\ Place(t, s).ident = s.ident /\ Place(t, s).kind = s.kind
  BY AddToGlobals
<1> QED  BY <1>1 DEF Names, FunctionNames

\* A function at the end of the list.
LEMMA ListedAdded ==
    ASSUME functions \in Seq(FunctionST), NEW f \in FunctionST, functions' = Append(functions, f)
    PROVE  /\ Listed' = Listed \cup {f.ident}
           /\ Len(functions') = Len(functions) + 1
           /\ \A i \in DOMAIN functions : i \in DOMAIN functions' /\ functions'[i] = functions[i]
           /\ functions'[Len(functions) + 1] = f
           /\ \A i \in DOMAIN functions' : i \in DOMAIN functions \/ i = Len(functions) + 1
<1>1. /\ Len(functions') = Len(functions) + 1
      /\ \A i \in DOMAIN functions : i \in DOMAIN functions' /\ functions'[i] = functions[i]
      /\ functions'[Len(functions) + 1] = f
      /\ \A i \in DOMAIN functions' : i \in DOMAIN functions \/ i = Len(functions) + 1
      /\ Len(functions) + 1 \in DOMAIN functions'
  OBVIOUS
<1>2. Listed' = {functions'[i].ident : i \in DOMAIN functions'}
  BY DEF Listed
<1> QED  BY <1>1, <1>2 DEF Listed

LEMMA InitSame == Init => SameFunctions
<1> SUFFICES ASSUME Init PROVE SameFunctions
  OBVIOUS
<1>1. Len(functions) = 0 /\ DOMAIN functions = {} /\ globals.symbols = {} /\ pc = "builtins"
  BY DEF Init, Table
<1>2. Listed = {} /\ Declaring = {} /\ Names(globals) = {} /\ FunctionNames(globals) = {}
  BY <1>1 DEF Listed, Declaring, Names, FunctionNames
<1>3. Len(Builtins) = 4
  BY DEF Builtins
<1> QED  BY <1>1, <1>2, <1>3 DEF SameFunctions

\* The built-in functions have names of their own.
LEMMA BuiltinNames ==
    /\ Len(Builtins) = 4
    /\ \A i, j \in 1 .. 4 : Builtins[i].ident = Builtins[j].ident => i = j
    /\ \A i \in 1 .. 4 : Builtins[i].ident \in Name
  BY DEF Builtins, Name

LEMMA DefaultSame ==
    ASSUME GlobalsGrow, IInv, SameFunctions, AddDefaultFunction
    PROVE  SameFunctions'
<1>1. /\ functions \in Seq(FunctionST) /\ Len(functions) \in Nat /\ DOMAIN functions = 1 .. Len(functions)
      /\ globals \in SymbolTables("global")
  <2>1. functions \in Seq(FunctionST) /\ globals \in SymbolTables("global")
    BY DEF IInv, TypeOK
  <2> QED  BY <2>1
<1>2. PICK n \in 1 .. 4 : n = Len(functions) + 1
  BY <1>1, BuiltinNames DEF AddDefaultFunction
<1> DEFINE b == Builtins[n]
<1>3. /\ pc = "builtins" /\ pc' = pc /\ err' = err
      /\ globals' \in Add(globals, Function(b.ident, b.size))
  BY <1>2 DEF AddDefaultFunction
<1>4. PICK t : functions' = Append(functions, [NewFunction(b.ident) EXCEPT !.parameters = t])
  BY <1>2 DEF AddDefaultFunction
<1>5. IInv'
  BY DefaultFunctionKeepsIInv
<1> DEFINE f == [NewFunction(b.ident) EXCEPT !.parameters = t]
<1>6. f.ident = b.ident /\ Len(functions') = n /\ functions'[n] = f
  BY <1>1, <1>2, <1>4 DEF NewFunction
<1>7. f \in FunctionST
  <2>1. functions' \in Seq(FunctionST)
    BY <1>5 DEF IInv, TypeOK
  <2> QED  BY <1>6, <2>1
<1> HIDE DEF f
<1>8. /\ Listed' = Listed \cup {b.ident}
      /\ \A i \in DOMAIN functions' : \/ i \in DOMAIN functions /\ functions'[i] = functions[i]
                                      \/ i = n
  BY <1>1, <1>2, <1>4, <1>6, <1>7, ListedAdded DEF f
<1>9. \A i \in DOMAIN functions : functions[i].ident = Builtins[i].ident /\ i \in 1 .. 4 /\ i # n
  BY <1>1, <1>2, <1>3 DEF SameFunctions
<1>10. b.ident \notin Listed
  BY <1>9, BuiltinNames DEF Listed
<1>11. Names(globals) = Listed /\ ~Declared(globals, b.ident)
  BY <1>3, <1>10 DEF SameFunctions, Names, Declared
<1>12. Function(b.ident, b.size).ident = b.ident /\ Function(b.ident, b.size).kind = "function"
  BY DEF Function
<1>13. /\ Names(globals') = Names(globals) \cup {b.ident}
       /\ FunctionNames(globals') = FunctionNames(globals) \cup {b.ident}
  BY <1>1, <1>3, <1>11, <1>12, NamesAdded
<1>14. \A i \in DOMAIN functions' : functions'[i].ident = Builtins[i].ident /\ i \in 1 .. 4
  BY <1>6, <1>8, <1>9
<1>15. Declaring = {} /\ Declaring' = {}
  BY <1>3 DEF Declaring
<1>16. /\ Names(globals)' = Names(globals') /\ FunctionNames(globals)' = FunctionNames(globals')
       /\ Len(functions') <= Len(Builtins)
  BY <1>6, BuiltinNames DEF Names, FunctionNames
<1> QED
  BY <1>3, <1>8, <1>11, <1>13, <1>14, <1>15, <1>16, BuiltinNames DEF SameFunctions

\* The header of a function: a new name, or a redeclaration that is reported.
LEMMA BeginFunctionSame ==
    ASSUME GlobalsGrow, IInv, SameFunctions, NEW x \in Ident, BeginFunction(x)
    PROVE  SameFunctions'
<1>1. /\ pc \in {"globals", "functions"} /\ pc' = "params" /\ functions' = functions
      /\ func'.ident = x
      /\ globals' \in Add(globals, Function(x, 0))
      /\ err' = err \cup AddError(globals, Function(x, 0))
      /\ globals \in SymbolTables("global")
  BY DEF BeginFunction, NewFunction, IInv, TypeOK
<1>2. Function(x, 0).ident = x /\ Function(x, 0).kind = "function"
  BY DEF Function
<1>3. CASE Declared(globals, x)
  <2>1. "redeclared" \in err'
    BY <1>1, <1>2, <1>3, AddToGlobals
  <2> QED  BY <1>1, <2>1 DEF SameFunctions
<1>4. CASE ~Declared(globals, x)
  <2>1. FunctionNames(globals') = FunctionNames(globals) \cup {x}
    BY <1>1, <1>2, <1>4, NamesAdded
  <2>2. x \notin FunctionNames(globals)
    BY <1>4 DEF FunctionNames, Declared
  <2>3. Listed' = Listed /\ Declaring = {} /\ Declaring' = {x}
        /\ FunctionNames(globals)' = FunctionNames(globals')
    BY <1>1 DEF Listed, Declaring, FunctionNames
  <2>4. "redeclared" \notin err' => "redeclared" \notin err
    BY <1>1
  <2> QED  BY <1>1, <2>1, <2>2, <2>3, <2>4 DEF SameFunctions
<1> QED  BY <1>3, <1>4

\* A variable of the program is not a function.
LEMMA DeclareGlobalSame ==
    ASSUME GlobalsGrow, IInv, SameFunctions, NEW s \in Variables, DeclareGlobal(s)
    PROVE  SameFunctions'
<1>1. /\ pc = "globals" /\ UNCHANGED <<functions, func, pc>>
      /\ globals' \in Add(globals, s)
      /\ err' = err \cup AddError(globals, s) \cup SizeError(s)
      /\ globals \in SymbolTables("global")
  BY DEF DeclareGlobal, IInv, TypeOK
<1>2. s.kind # "function"
  BY DEF Variables, Value, Array
<1>3. FunctionNames(globals') = FunctionNames(globals)
  <2>1. CASE Declared(globals, s.ident)
    <3>1. globals' = globals
      BY <1>1, <2>1, AddToGlobals
    <3> QED  BY <3>1
  <2>2. CASE ~Declared(globals, s.ident)
    <3>1. FunctionNames(globals') = FunctionNames(globals)
                                      \cup (IF s.kind = "function" THEN {s.ident} ELSE {})
      BY <1>1, <2>2, NamesAdded
    <3> QED  BY <1>2, <3>1
  <2> QED  BY <2>1, <2>2
<1>4. Listed' = Listed /\ Declaring' = Declaring /\ FunctionNames(globals)' = FunctionNames(globals')
  BY <1>1 DEF Listed, Declaring, FunctionNames
<1> QED  BY <1>1, <1>3, <1>4 DEF SameFunctions

\* The end of a function: the name that was declared is listed.
LEMMA EndFunctionSame ==
    ASSUME IInv, SameFunctions, EndFunction
    PROVE  SameFunctions'
<1>1. /\ pc = "locals" /\ pc' = "functions" /\ UNCHANGED <<globals, func>>
      /\ functions' = Append(functions, func) /\ err' = err \cup RedeclaredParams(func)
      /\ functions \in Seq(FunctionST) /\ func \in FunctionST
  BY DEF EndFunction, IInv, TypeOK
<1>2. Declaring = {func.ident} /\ Declaring' = {}
  BY <1>1 DEF Declaring
<1>3. /\ Listed' = Listed \cup {func.ident}
      /\ functions'[Len(functions) + 1] = func
      /\ \A i \in DOMAIN functions' : \/ i \in DOMAIN functions /\ functions'[i] = functions[i]
                                      \/ i = Len(functions) + 1
  BY <1>1, ListedAdded
<1>4. \A i \in DOMAIN functions : functions[i].ident \in Listed
  BY DEF Listed
<1>5. FunctionNames(globals)' = FunctionNames(globals)
  BY <1>1 DEF FunctionNames
<1>6. "redeclared" \notin err' =>
        \A i, j \in DOMAIN functions' : functions'[i].ident = functions'[j].ident => i = j
  <2> SUFFICES ASSUME "redeclared" \notin err', NEW i \in DOMAIN functions', NEW j \in DOMAIN functions',
                      functions'[i].ident = functions'[j].ident
               PROVE  i = j
    OBVIOUS
  <2>1. /\ func.ident \notin Listed
        /\ \A k, l \in DOMAIN functions : functions[k].ident = functions[l].ident => k = l
    BY <1>1, <1>2 DEF SameFunctions
  <2> QED  BY <1>3, <1>4, <2>1
<1> QED  BY <1>1, <1>2, <1>3, <1>5, <1>6 DEF SameFunctions

\* The other steps change no name of a function.
LEMMA OthersSame ==
    ASSUME IInv, SameFunctions,
           \/ BeginGlobals \/ BeginLocals \/ EndProgram \/ UNCHANGED vars
           \/ \E s \in Variables : DeclareLocal(s)
           \/ \E s \in Parameters : DeclareParam(s)
    PROVE  SameFunctions'
<1>1. func \in FunctionST /\ globals \in SymbolTables("global")
  BY DEF IInv, TypeOK
<1>2. functions' = functions /\ err \subseteq err' /\ globals'.symbols = globals.symbols
  <2>1. CASE BeginGlobals
    BY <1>1, <2>1 DEF BeginGlobals, SymbolTables
  <2>2. CASE BeginLocals \/ EndProgram \/ UNCHANGED vars
    BY <2>2 DEF BeginLocals, EndProgram, vars
  <2>3. ASSUME NEW s \in Variables, DeclareLocal(s)
        PROVE  functions' = functions /\ err \subseteq err' /\ globals' = globals
    BY <2>3 DEF DeclareLocal
  <2>4. ASSUME NEW s \in Parameters, DeclareParam(s)
        PROVE  functions' = functions /\ err \subseteq err' /\ globals' = globals
    BY <2>4 DEF DeclareParam
  <2> QED  BY <2>1, <2>2, <2>3, <2>4
<1>3. Declaring' = Declaring /\ (pc' = "builtins" => pc = "builtins")
  <2>1. CASE BeginGlobals \/ EndProgram \/ UNCHANGED vars
    BY <2>1 DEF BeginGlobals, EndProgram, vars, Declaring
  <2>2. CASE BeginLocals
    <3>1. func'.ident = func.ident /\ pc = "params" /\ pc' = "locals"
      BY <1>1, <2>2 DEF BeginLocals, FunctionST
    <3> QED  BY <3>1 DEF Declaring
  <2>3. ASSUME NEW s \in Variables, DeclareLocal(s)
        PROVE  Declaring' = Declaring /\ (pc' = "builtins" => pc = "builtins")
    <3>1. func'.ident = func.ident /\ pc' = pc
      BY <1>1, <2>3 DEF DeclareLocal, FunctionST
    <3> QED  BY <3>1 DEF Declaring
  <2>4. ASSUME NEW s \in Parameters, DeclareParam(s)
        PROVE  Declaring' = Declaring /\ (pc' = "builtins" => pc = "builtins")
    <3>1. func'.ident = func.ident /\ pc' = pc
      BY <1>1, <2>4 DEF DeclareParam, FunctionST
    <3> QED  BY <3>1 DEF Declaring
  <2> QED  BY <2>1, <2>2, <2>3, <2>4
<1>4. Listed' = Listed /\ Names(globals)' = Names(globals)
      /\ FunctionNames(globals)' = FunctionNames(globals)
  BY <1>2 DEF Listed, Names, FunctionNames
<1> QED  BY <1>2, <1>3, <1>4 DEF SameFunctions

LEMMA NextSame ==
    ASSUME GlobalsGrow
    PROVE  IInv /\ SameFunctions /\ [Next]_vars => SameFunctions'
  BY DefaultSame, BeginFunctionSame, DeclareGlobalSame, EndFunctionSame, OthersSame DEF Next

\* Without a redeclaration the list of functions and the globals have the same
\* functions, each once, for any number of them: FunctionST_get_from_name finds
\* the function that ST_resolve says there is.
THEOREM FunctionsFound ==
    ASSUME MaxFrame <= IntMax, GlobalsGrow
    PROVE  Spec => []FunctionTableAgrees
<1>1. SameFunctions => FunctionTableAgrees
  BY DEF SameFunctions, FunctionTableAgrees, Declaring, Listed, FunctionNames
<1> QED  BY <1>1, LayoutInvariant, InitSame, NextSame, PTL DEF Spec
-----------------------------------------------------------------------------
(* SymbolTable implements Scopes when no list fails to grow                *)


\* The variables of Scopes.
Inner == Names(func.parameters) \cup Names(func.locals)
Defined == [i \in DOMAIN functions |-> functions[i].ident]
Faulty == "redeclared" \in err \/ (pc = "locals" /\ HidesParameter)

\* The function being declared has a name of the program.
NamedByProgram == pc \in {"params", "locals"} => func.ident \in Ident

\* The step of Scopes that a step of the tables is.
ScopesStep == [InnerScopes!Next]_(InnerScopes!vars)

\* With lists that grow, a declaration adds the name, and reports it when it is
\* there already.
LEMMA AddNames ==
    ASSUME FullAt = {}, NEW t, NEW s, NEW u \in Add(t, s)
    PROVE  /\ Names(u) = Names(t) \cup {s.ident}
           /\ "redeclared" \in AddError(t, s) <=> s.ident \in Names(t)
<1>1. Place(t, s).ident = s.ident
  BY DEF Place
<1>2. Stored(t, s) = {t.symbols \cup {Place(t, s)}}
  BY DEF Stored
<1>3. CASE Declared(t, s.ident)
  BY <1>3 DEF Add, AddError, Declared, Names
<1>4. CASE ~Declared(t, s.ident)
  <2>1. u.symbols = t.symbols \cup {Place(t, s)}
    BY <1>2, <1>4 DEF Add, Moved
  <2> QED  BY <1>1, <1>4, <2>1 DEF AddError, Declared, Names
<1> QED  BY <1>3, <1>4

LEMMA SizeIsAnotherError == \A s : "redeclared" \notin SizeError(s)
  BY DEF SizeError

\* The names of the functions, when one is appended.
LEMMA DefinedAppended ==
    ASSUME functions \in Seq(FunctionST), NEW f, functions' = Append(functions, f)
    PROVE  Defined' = Append(Defined, f.ident) /\ Len(Defined) = Len(functions)
<1>1. /\ Len(functions) \in Nat /\ DOMAIN functions = 1 .. Len(functions)
      /\ DOMAIN functions' = 1 .. Len(functions) + 1
      /\ \A i \in 1 .. Len(functions) : functions'[i] = functions[i]
      /\ functions'[Len(functions) + 1] = f
  OBVIOUS
<1>2. /\ Defined = [i \in 1 .. Len(functions) |-> functions[i].ident]
      /\ Defined' = [i \in 1 .. Len(functions) + 1 |-> functions'[i].ident]
  BY <1>1 DEF Defined
<1>3. Len(Defined) = Len(functions)
  BY <1>1, <1>2
<1>4. Append(Defined, f.ident) = [i \in 1 .. Len(functions) + 1 |->
                                    IF i = Len(functions) + 1 THEN f.ident ELSE Defined[i]]
  BY <1>1, <1>2, <1>3
<1> QED  BY <1>1, <1>2, <1>3, <1>4

LEMMA InitScopes == Init => InnerScopes!Init /\ NamedByProgram
<1> SUFFICES ASSUME Init PROVE InnerScopes!Init /\ NamedByProgram
  OBVIOUS
<1>1. /\ Names(globals) = {} /\ Names(func.parameters) = {} /\ Names(func.locals) = {}
      /\ functions = <<>> /\ pc = "builtins" /\ err = {}
  BY DEF Init, Table, NewFunction, Names
<1> QED  BY <1>1 DEF InnerScopes!Init, NamedByProgram

LEMMA NextNamed == IInv /\ NamedByProgram /\ [Next]_vars => NamedByProgram'
<1> SUFFICES ASSUME IInv, NamedByProgram, [Next]_vars PROVE NamedByProgram'
  OBVIOUS
<1>1. func \in FunctionST
  BY DEF IInv, TypeOK
<1> USE DEF NamedByProgram
<1>2. ASSUME NEW s \in Parameters, DeclareParam(s) PROVE NamedByProgram'
  BY <1>1, <1>2 DEF DeclareParam, FunctionST
<1>3. ASSUME NEW s \in Variables, DeclareLocal(s) PROVE NamedByProgram'
  BY <1>1, <1>3 DEF DeclareLocal, FunctionST
<1>4. CASE BeginLocals
  BY <1>1, <1>4 DEF BeginLocals, FunctionST
<1>5. ASSUME NEW x \in Ident, BeginFunction(x) PROVE NamedByProgram'
  BY <1>5 DEF BeginFunction, NewFunction
<1>6. ASSUME NEW s \in Variables, DeclareGlobal(s) PROVE NamedByProgram'
  BY <1>6 DEF DeclareGlobal
<1>7. CASE AddDefaultFunction \/ BeginGlobals \/ EndFunction \/ EndProgram \/ UNCHANGED vars
  BY <1>7 DEF AddDefaultFunction, BeginGlobals, EndFunction, EndProgram, vars
<1> QED  BY <1>2, <1>3, <1>4, <1>5, <1>6, <1>7 DEF Next

\* A built-in function.
LEMMA DefaultScopes ==
    ASSUME FullAt = {}, IInv, AddDefaultFunction
    PROVE  ScopesStep
<1>1. functions \in Seq(FunctionST) /\ Len(functions) \in Nat
  <2>1. functions \in Seq(FunctionST)
    BY DEF IInv, TypeOK
  <2> QED  BY <2>1
<1>2. PICK n \in 1 .. 4 : n = Len(functions) + 1
  BY <1>1, BuiltinNames DEF AddDefaultFunction
<1> DEFINE b == Builtins[n]
<1>3. /\ pc = "builtins" /\ UNCHANGED <<func, pc, err>> /\ Len(functions) < Len(Builtins)
      /\ globals' \in Add(globals, Function(b.ident, b.size))
  BY <1>2 DEF AddDefaultFunction
<1>4. PICK t : functions' = Append(functions, [NewFunction(b.ident) EXCEPT !.parameters = t])
  BY <1>2 DEF AddDefaultFunction
<1>5. Function(b.ident, b.size).ident = b.ident
      /\ [NewFunction(b.ident) EXCEPT !.parameters = t].ident = b.ident
  BY DEF Function, NewFunction
<1>6. Names(globals') = Names(globals) \cup {b.ident}
  BY <1>3, <1>5, AddNames
<1>7. Defined' = Append(Defined, b.ident) /\ Len(Defined) = Len(functions)
  BY <1>1, <1>4, <1>5, DefinedAppended
<1> DEFINE given == [i \in DOMAIN Builtins |-> Builtins[i].ident]
<1>8. Len(given) = 4 /\ given[n] = b.ident /\ DOMAIN Builtins = 1 .. 4
  <2>1. DOMAIN Builtins = 1 .. 4
    BY DEF Builtins
  <2> QED  BY <2>1
<1> HIDE DEF b, given
<1>9. /\ Len(Defined) < Len(given)
      /\ given[Len(Defined) + 1] = b.ident
  BY <1>2, <1>7, <1>8
<1>10. InnerScopes!DeclareBuiltin
  <2>1. /\ Names(globals)' = Names(globals) \cup {given[Len(Defined) + 1]}
        /\ Defined' = Append(Defined, given[Len(Defined) + 1])
        /\ UNCHANGED <<Inner, Faulty>>
    BY <1>3, <1>6, <1>7, <1>9 DEF Names, Inner, Faulty, HidesParameter
  <2> QED
    BY <1>9, <2>1 DEF InnerScopes!DeclareBuiltin, Defined, Inner, Faulty, given
<1> QED  BY <1>10 DEF ScopesStep, InnerScopes!Next

\* A variable of the program.
LEMMA DeclareGlobalScopes ==
    ASSUME FullAt = {}, NEW s \in Variables, DeclareGlobal(s)
    PROVE  ScopesStep
<1>1. /\ pc = "globals" /\ UNCHANGED <<functions, func, pc>>
      /\ globals' \in Add(globals, s)
      /\ err' = err \cup AddError(globals, s) \cup SizeError(s)
  BY DEF DeclareGlobal
<1>2. s.ident \in Ident
  BY DEF Variables, Value, Array
<1>3. Names(globals)' = Names(globals) \cup {s.ident}
  <2>1. Names(globals') = Names(globals) \cup {s.ident}
    BY <1>1, AddNames
  <2> QED  BY <2>1 DEF Names
<1>4. Faulty' = (Faulty \/ s.ident \in Names(globals))
  BY <1>1, AddNames, SizeIsAnotherError DEF Faulty
<1>5. UNCHANGED <<Inner, Defined>>
  BY <1>1 DEF Inner, Defined, Names
<1>6. InnerScopes!DeclareGlobal(s.ident)
  BY <1>3, <1>4, <1>5 DEF InnerScopes!DeclareGlobal, Inner, Defined, Faulty
<1> QED  BY <1>2, <1>6 DEF ScopesStep, InnerScopes!Next

\* The header of a function opens a scope.
LEMMA BeginFunctionScopes ==
    ASSUME FullAt = {}, NEW x \in Ident, BeginFunction(x)
    PROVE  ScopesStep
<1>1. /\ pc \in {"globals", "functions"} /\ pc' = "params" /\ functions' = functions
      /\ func' = NewFunction(x)
      /\ globals' \in Add(globals, Function(x, 0))
      /\ err' = err \cup AddError(globals, Function(x, 0))
  BY DEF BeginFunction
<1>2. Function(x, 0).ident = x
  BY DEF Function
<1>3. Names(globals)' = Names(globals) \cup {x}
  <2>1. Names(globals') = Names(globals) \cup {x}
    BY <1>1, <1>2, AddNames
  <2> QED  BY <2>1 DEF Names
<1>4. Faulty' = (Faulty \/ x \in Names(globals))
  BY <1>1, <1>2, AddNames DEF Faulty
<1>5. Inner' = {} /\ UNCHANGED Defined
  BY <1>1 DEF Inner, Defined, Names, NewFunction, Table
<1>6. InnerScopes!DeclareFunction(x)
  BY <1>3, <1>4, <1>5 DEF InnerScopes!DeclareFunction, Inner, Defined, Faulty
<1> QED  BY <1>6 DEF ScopesStep, InnerScopes!Next

\* A parameter, while there is no local variable.
LEMMA DeclareParamScopes ==
    ASSUME FullAt = {}, IInv, NEW s \in Parameters, DeclareParam(s)
    PROVE  ScopesStep
<1>1. /\ pc = "params" /\ UNCHANGED <<globals, functions, pc>>
      /\ err' = err \cup AddError(func.parameters, s)
  BY DEF DeclareParam
<1>2. PICK t \in Add(func.parameters, s) : func' = [func EXCEPT !.parameters = t]
  BY DEF DeclareParam
<1>3. func \in FunctionST /\ func.locals.symbols = {}
  BY <1>1 DEF IInv, TypeOK
<1>4. func'.parameters = t /\ func'.locals = func.locals
  BY <1>2, <1>3 DEF FunctionST
<1>5. s.ident \in Ident
  BY DEF Parameters, Value, ArrayParam
<1>6. Names(func.locals) = {} /\ Names(t) = Names(func.parameters) \cup {s.ident}
  BY <1>3, AddNames DEF Names
<1>7. Inner' = Inner \cup {s.ident}
  <2>1. Inner' = Names(func'.parameters) \cup Names(func'.locals)
    BY DEF Inner, Names
  <2> QED  BY <1>4, <1>6, <2>1 DEF Inner
<1>8. Faulty' = (Faulty \/ s.ident \in Inner)
  BY <1>1, <1>6, AddNames DEF Faulty, Inner
<1>9. UNCHANGED <<Names(globals), Defined>>
  BY <1>1 DEF Names, Defined
<1>10. InnerScopes!DeclareInner(s.ident)
  BY <1>7, <1>8, <1>9 DEF InnerScopes!DeclareInner, Inner, Defined, Faulty
<1> QED  BY <1>5, <1>10 DEF ScopesStep, InnerScopes!Next

\* A local variable: one that is named like another is reported at once, and one
\* that hides a parameter is a fault that the end of the function reports.
LEMMA DeclareLocalScopes ==
    ASSUME FullAt = {}, IInv, NEW s \in Variables, DeclareLocal(s)
    PROVE  ScopesStep
<1>1. /\ pc = "locals" /\ UNCHANGED <<globals, functions, pc>>
      /\ err' = err \cup AddError(func.locals, s) \cup SizeError(s)
  BY DEF DeclareLocal
<1>2. PICK t \in Add(func.locals, s) : func' = [func EXCEPT !.locals = t]
  BY DEF DeclareLocal
<1>3. func \in FunctionST
  BY DEF IInv, TypeOK
<1>4. func'.parameters = func.parameters /\ func'.locals = t
  BY <1>2, <1>3 DEF FunctionST
<1>5. s.ident \in Ident
  BY DEF Variables, Value, Array
<1>6. Names(t) = Names(func.locals) \cup {s.ident}
  BY AddNames
<1>7. Inner' = Inner \cup {s.ident}
  <2>1. Inner' = Names(func'.parameters) \cup Names(func'.locals)
    BY DEF Inner, Names
  <2> QED  BY <1>4, <1>6, <2>1 DEF Inner
<1>8. Faulty' = (Faulty \/ s.ident \in Inner)
  <2>1. "redeclared" \in err' <=> "redeclared" \in err \/ s.ident \in Names(func.locals)
    BY <1>1, AddNames, SizeIsAnotherError
  <2>2. HidesParameter' <=> HidesParameter \/ s.ident \in Names(func.parameters)
    <3>1. HidesParameter' <=> Names(func'.locals) \cap Names(func'.parameters) # {}
      BY DEF HidesParameter, Names
    <3> QED  BY <1>4, <1>6, <3>1 DEF HidesParameter
  <2> QED  BY <1>1, <2>1, <2>2 DEF Faulty, Inner
<1>9. UNCHANGED <<Names(globals), Defined>>
  BY <1>1 DEF Names, Defined
<1>10. InnerScopes!DeclareInner(s.ident)
  BY <1>7, <1>8, <1>9 DEF InnerScopes!DeclareInner, Inner, Defined, Faulty
<1> QED  BY <1>5, <1>10 DEF ScopesStep, InnerScopes!Next

\* The end of a function closes its scope.
LEMMA EndFunctionScopes ==
    ASSUME IInv, NamedByProgram, EndFunction
    PROVE  ScopesStep
<1>1. /\ pc = "locals" /\ pc' = "functions" /\ UNCHANGED <<globals, func>>
      /\ functions' = Append(functions, func) /\ err' = err \cup RedeclaredParams(func)
      /\ functions \in Seq(FunctionST) /\ func.ident \in Ident
  BY DEF EndFunction, IInv, TypeOK, NamedByProgram
<1>2. PICK x \in Ident : x = func.ident
  BY <1>1
<1>3. Defined' = Append(Defined, x)
  BY <1>1, <1>2, DefinedAppended
<1>4. Faulty' = Faulty
  BY <1>1 DEF Faulty, RedeclaredParams, HidesParameter
<1>5. UNCHANGED <<Names(globals), Inner>>
  BY <1>1 DEF Names, Inner
<1>6. InnerScopes!CloseFunction(x)
  BY <1>3, <1>4, <1>5 DEF InnerScopes!CloseFunction, Inner, Defined, Faulty
<1> QED  BY <1>6 DEF ScopesStep, InnerScopes!Next

\* The steps between declarations change no scope.
LEMMA OtherScopes ==
    ASSUME IInv, BeginGlobals \/ BeginLocals \/ EndProgram \/ UNCHANGED vars
    PROVE  ScopesStep
<1>1. func \in FunctionST /\ globals \in SymbolTables("global")
  BY DEF IInv, TypeOK
<1>2. UNCHANGED <<Names(globals), Inner, Defined, Faulty>>
  <2>1. CASE BeginGlobals
    <3>1. /\ globals'.symbols = globals.symbols /\ UNCHANGED <<func, functions, err>>
          /\ pc = "builtins" /\ pc' = "globals"
      BY <1>1, <2>1 DEF BeginGlobals, SymbolTables
    <3> QED  BY <3>1 DEF Names, Inner, Defined, Faulty
  <2>2. CASE BeginLocals
    <3>1. /\ func'.parameters = func.parameters /\ func'.locals.symbols = func.locals.symbols
          /\ func.locals.symbols = {} /\ UNCHANGED <<globals, functions, err>>
          /\ pc = "params" /\ pc' = "locals"
      BY <1>1, <2>2 DEF BeginLocals, FunctionST, SymbolTables, IInv
    <3>2. Names(func.locals)' = {} /\ Names(func.locals) = {}
      BY <3>1 DEF Names
    <3>3. ~HidesParameter'
      BY <3>2 DEF HidesParameter
    <3>4. Names(func.parameters)' = Names(func.parameters)
      BY <3>1 DEF Names
    <3> QED  BY <3>1, <3>2, <3>3, <3>4 DEF Names, Inner, Defined, Faulty
  <2>3. CASE EndProgram
    BY <2>3 DEF EndProgram, Names, Inner, Defined, Faulty
  <2>4. CASE UNCHANGED vars
    BY <2>4 DEF vars, Names, Inner, Defined, Faulty, HidesParameter
  <2> QED  BY <2>1, <2>2, <2>3, <2>4
<1> QED  BY <1>2 DEF ScopesStep, InnerScopes!vars, Inner, Defined, Faulty

LEMMA NextScopes ==
    ASSUME FullAt = {}
    PROVE  IInv /\ NamedByProgram /\ [Next]_vars => ScopesStep
  BY DefaultScopes, DeclareGlobalScopes, BeginFunctionScopes, DeclareParamScopes,
     DeclareLocalScopes, EndFunctionScopes, OtherScopes DEF Next

\* The tables report a redeclaration exactly when a scope of the language
\* declares a name twice, in programs of any size whose tables fit in an int.
THEOREM ImplementsScopesOfLanguage ==
    ASSUME MaxFrame <= IntMax, FullAt = {}
    PROVE  Spec => ImplementsScopes
<1>1. IInv /\ NamedByProgram /\ [Next]_vars => [InnerScopes!Next]_(InnerScopes!vars)
  BY NextScopes DEF ScopesStep
<1> QED
  BY <1>1, LayoutInvariant, InitScopes, NextNamed, PTL
     DEF Spec, ImplementsScopes, InnerScopes!Spec
=============================================================================
