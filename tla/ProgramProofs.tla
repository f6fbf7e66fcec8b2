--------------------------- MODULE ProgramProofs ---------------------------
(***************************************************************************)
(* What the semantic checks and the code generator may rely on: the shape  *)
(* of the tables of a program, and the levels of the trees of Trees.       *)
(***************************************************************************)
EXTENDS Program, WellFoundedInduction, TLAPS

LEMMA LeastNumber == ASSUME NEW S, S \subseteq Nat, S # {}
                     PROVE  \E m \in S : \A n \in S : m <= n
<1>1. PICK m \in S : \A n \in S : <<n, m>> \notin OpToRel(<, Nat)
  BY NatLessThanWellFounded, WFMin
<1>2. \A n \in S : ~ (n < m)
  BY <1>1 DEF OpToRel
<1> QED  BY <1>2

\* Induction up to n, over a set.
LEMMA Reaches == ASSUME NEW n \in Nat, NEW S, 0 \in S,
                        \A k \in 0 .. n : k + 1 \in 0 .. n /\ k \in S => k + 1 \in S
                 PROVE  0 .. n \subseteq S
<1> DEFINE Out == {k \in 0 .. n : k \notin S}
<1> SUFFICES ASSUME Out # {} PROVE FALSE
  OBVIOUS
<1>1. PICK m \in Out : \A k \in Out : m <= k
  <2>1. Out \subseteq Nat
    OBVIOUS
  <2> HIDE DEF Out
  <2> QED  BY <2>1, LeastNumber
<1>2. m \in 0 .. n /\ m \notin S /\ m # 0
  OBVIOUS
<1>3. m - 1 \in 0 .. n /\ (m - 1) + 1 = m /\ m - 1 \notin Out
  BY <1>1, <1>2
<1>4. m - 1 \in S
  BY <1>3
<1> QED  BY <1>2, <1>3, <1>4
-----------------------------------------------------------------------------
(* Tables                                                                  *)

BuiltinNames == {Builtins[i].ident : i \in DOMAIN Builtins}
\* No prover knows that a text in quotes is a string.
Idents == STRING \cup BuiltinNames \cup UNION {Builtins[i].params : i \in DOMAIN Builtins}

\* Symbols, of which those of functions have names in X.
Symbols(X) == {s \in [ident : Idents, kind : Kinds, length : Nat, size : Int, addr : Int, index : Int] :
                 s.kind = "function" => s.ident \in X}
\* The tables that the declaration of such symbols makes.
Grown(type, X) ==
    {t \in [type : {type}, symbols : SUBSET Symbols(X), len : Nat, next_addr : Int,
            next_addr_param : Int] :
       \A i \in 0 .. t.len - 1 : \E s \in t.symbols : s.index = i}

LEMMA ToIntInt == ASSUME NEW n \in Int PROVE ToInt(n) \in Int
<1>1. 2 * (IntMax + 1) \in Nat \ {0} /\ n + IntMax + 1 \in Int
  BY IntMaxAssumption
<1>2. (n + IntMax + 1) % (2 * (IntMax + 1)) \in Int
  BY <1>1
<1> QED  BY <1>2, IntMaxAssumption DEF ToInt

LEMMA TableGrown == ASSUME NEW type, NEW X PROVE Table(type) \in Grown(type, X)
  BY DEF Table, Grown, FirstStackParam

LEMMA NewSymbols ==
    ASSUME NEW X, NEW x \in Idents
    PROVE  Value(x) \in Symbols(X) /\ \A n \in Int : x \in X => Function(x, n) \in Symbols(X)
  BY DEF Value, Function, Symbols, Kinds, WordSize

LEMMA DeclaredSymbols == ASSUME NEW X PROVE Declarations \subseteq Symbols(X)
  BY DEF Declarations, Symbols, Kinds, Idents

LEMMA AddGrown ==
    ASSUME NEW type, NEW X, NEW t \in Grown(type, X), NEW s \in Symbols(X)
    PROVE  Add(t, s) # {} /\ Add(t, s) \subseteq Grown(type, X)
<1>1. CASE Declared(t, s.ident)
  BY <1>1 DEF Add
<1>2. CASE ~Declared(t, s.ident)
  <2>1. /\ t.len \in Nat /\ t.next_addr \in Int /\ t.next_addr_param \in Int /\ s.size \in Int
        /\ t.symbols \subseteq Symbols(X) /\ t.type = type
        /\ \A i \in 0 .. t.len - 1 : \E u \in t.symbols : u.index = i
    BY DEF Grown, Symbols
  <2>2. Address(t, s.size) \in Int
    <3>1. ToInt(t.next_addr) \in Int
      BY <2>1, ToIntInt
    <3>2. ToInt(-t.next_addr - s.size) \in Int
      <4>1. -t.next_addr - s.size \in Int
        BY <2>1
      <4> QED  BY <4>1, ToIntInt
    <3> QED  BY <2>1, <3>1, <3>2 DEF Address
  <2>3. Place(t, s) \in Symbols(X) /\ Place(t, s).index = t.len
    BY <2>1, <2>2 DEF Place, Symbols
  <2>4. NextAddr(t, s.size) \in Int /\ NextAddrParam(t, s.size) \in Int
    <3>1. t.next_addr_param + s.size \in Int
      BY <2>1
    <3>2. ToInt(t.next_addr_param + s.size) \in Int
      BY <3>1, ToIntInt
    <3> QED  BY <2>1, <3>2 DEF NextAddr, NextAddrParam
  <2>5. ASSUME NEW symbols \in Stored(t, s) PROVE Moved(t, s, symbols) \in Grown(type, X)
    <3>1. symbols = t.symbols \/ symbols = t.symbols \cup {Place(t, s)}
      BY DEF Stored
    <3>2. symbols \subseteq Symbols(X) /\ t.symbols \subseteq symbols
      BY <2>1, <2>3, <3>1
    <3> DEFINE len == IF symbols = t.symbols THEN t.len ELSE t.len + 1
    <3>3. len \in Nat
      BY <2>1
    <3>4. \A i \in 0 .. len - 1 : \E u \in symbols : u.index = i
      <4> SUFFICES ASSUME NEW i \in 0 .. len - 1 PROVE \E u \in symbols : u.index = i
        OBVIOUS
      <4>1. CASE i \in 0 .. t.len - 1
        BY <2>1, <3>2, <4>1
      <4>2. CASE i \notin 0 .. t.len - 1
        <5>1. symbols # t.symbols /\ i = t.len
          BY <2>1, <4>2
        <5>2. Place(t, s) \in symbols
          BY <3>1, <5>1
        <5> QED  BY <2>3, <5>1, <5>2
      <4> QED  BY <4>1, <4>2
    <3> HIDE DEF len
    <3>5. Moved(t, s, symbols) = [type |-> type, symbols |-> symbols, len |-> len,
                                  next_addr |-> NextAddr(t, s.size),
                                  next_addr_param |-> NextAddrParam(t, s.size)]
      BY <2>1 DEF Moved, len
    <3> QED  BY <2>4, <3>2, <3>3, <3>4, <3>5 DEF Grown
  <2>6. Stored(t, s) # {}
    BY DEF Stored
  <2> QED  BY <1>2, <2>5, <2>6 DEF Add
<1> QED  BY <1>1, <1>2

\* g gives the tables after each of the k first symbols.
Growth(table, symbols, k, g) ==
    /\ g = [i \in 0 .. k |-> g[i]] /\ g[0] = table
    /\ \A i \in 1 .. k : g[i] = CHOOSE u \in Add(g[i - 1], symbols[i]) : TRUE

LEMMA GrowthExists == ASSUME NEW table, NEW symbols, NEW n \in Nat
                      PROVE  \E g : Growth(table, symbols, n, g)
<1> DEFINE S == {k \in 0 .. n : \E g : Growth(table, symbols, k, g)}
<1>1. 0 \in S
  <2>1. Growth(table, symbols, 0, [i \in 0 .. 0 |-> table])
    BY DEF Growth
  <2> QED  BY <2>1
<1>2. ASSUME NEW k \in 0 .. n, k + 1 \in 0 .. n, k \in S PROVE k + 1 \in S
  <2>1. PICK g : Growth(table, symbols, k, g)
    BY <1>2
  <2> DEFINE v == CHOOSE u \in Add(g[k], symbols[k + 1]) : TRUE
             h == [i \in 0 .. k + 1 |-> IF i = k + 1 THEN v ELSE g[i]]
  <2> HIDE DEF v
  <2>2. h = [i \in 0 .. k + 1 |-> h[i]] /\ h[k + 1] = v /\ \A i \in 0 .. k : h[i] = g[i]
    OBVIOUS
  <2> HIDE DEF h
  <2>3. h[0] = table
    BY <2>1, <2>2 DEF Growth
  <2>4. ASSUME NEW i \in 1 .. k + 1 PROVE h[i] = CHOOSE u \in Add(h[i - 1], symbols[i]) : TRUE
    <3>1. CASE i = k + 1
      BY <2>2, <3>1 DEF v
    <3>2. CASE i # k + 1
      <4>1. i \in 1 .. k /\ i - 1 \in 0 .. k /\ i \in 0 .. k
        BY <3>2
      <4>2. h[i] = g[i] /\ h[i - 1] = g[i - 1]
        BY <2>2, <4>1
      <4> QED  BY <2>1, <4>1, <4>2 DEF Growth
    <3> QED  BY <3>1, <3>2
  <2>5. Growth(table, symbols, k + 1, h)
    BY <2>2, <2>3, <2>4 DEF Growth
  <2> QED  BY <1>2, <2>5
<1> HIDE DEF S
<1>3. 0 .. n \subseteq S
  BY <1>1, <1>2, Reaches
<1> QED  BY <1>3 DEF S

\* What the declaration of each symbol keeps, that of all of them keeps.
LEMMA AddAllIn ==
    ASSUME NEW T, NEW X, \A t \in T, s \in X : Add(t, s) # {} /\ Add(t, s) \subseteq T,
           NEW table \in T, NEW symbols \in Seq(X)
    PROVE  AddAll(table, symbols) \in T
<1> DEFINE n == Len(symbols)
           Rec(g) == g = [i \in 0 .. n |-> IF i = 0 THEN table
                                           ELSE CHOOSE u \in Add(g[i - 1], symbols[i]) : TRUE]
           v == CHOOSE g : Rec(g)
<1>1. n \in Nat
  OBVIOUS
<1>2. AddAll(table, symbols) = v[n]
  BY DEF AddAll
<1>3. Rec(v)
  <2>1. PICK g : Growth(table, symbols, n, g)
    BY <1>1, GrowthExists
  <2>2. \A i \in 0 .. n : g[i] = IF i = 0 THEN table
                                 ELSE CHOOSE u \in Add(g[i - 1], symbols[i]) : TRUE
    <3> HIDE DEF n
    <3>1. \A i \in 0 .. n : i = 0 \/ i \in 1 .. n
      BY <1>1
    <3> QED  BY <2>1, <3>1 DEF Growth
  <2>3. Rec(g)
    BY <2>1, <2>2 DEF Growth
  <2> HIDE DEF Rec
  <2> QED  BY <2>3
<1>4. /\ v[0] = table
      /\ \A i \in 1 .. n : v[i] = CHOOSE u \in Add(v[i - 1], symbols[i]) : TRUE
  <2> HIDE DEF v, n
  <2>1. 0 \in 0 .. n /\ \A i \in 1 .. n : i \in 0 .. n /\ i # 0
    BY <1>1
  <2> QED  BY <1>3, <2>1
<1> HIDE DEF v
<1> DEFINE S == {k \in 0 .. n : v[k] \in T}
<1>5. 0 \in S
  BY <1>1, <1>4
<1>6. ASSUME NEW k \in 0 .. n, k + 1 \in 0 .. n, k \in S PROVE k + 1 \in S
  <2>1. k + 1 \in 1 .. n /\ v[(k + 1) - 1] = v[k] /\ symbols[k + 1] \in X
    BY <1>6
  <2>2. Add(v[k], symbols[k + 1]) # {} /\ Add(v[k], symbols[k + 1]) \subseteq T
    BY <1>6, <2>1
  <2>3. v[k + 1] = CHOOSE u \in Add(v[k], symbols[k + 1]) : TRUE
    BY <1>4, <2>1
  <2> QED  BY <1>6, <2>2, <2>3
<1> HIDE DEF S
<1>7. 0 .. n \subseteq S
  BY <1>1, <1>5, <1>6, Reaches
<1> QED  BY <1>1, <1>2, <1>7 DEF S

LEMMA AddAllGrown ==
    ASSUME NEW type, NEW X, NEW table \in Grown(type, X), NEW symbols \in Seq(Symbols(X))
    PROVE  AddAll(table, symbols) \in Grown(type, X)
<1>1. \A t \in Grown(type, X), s \in Symbols(X) : Add(t, s) # {} /\ Add(t, s) \subseteq Grown(type, X)
  BY AddGrown
<1> QED  BY <1>1, AddAllIn
-----------------------------------------------------------------------------
(* The tables of a program                                                 *)

DefinedNames(p) == {p.functions[i].ident : i \in DOMAIN p.functions}

\* What is kept of a function of the name x.
IsFunctionST(t, x) ==
    t.ident = x /\ t.parameters \in Grown("param", {}) /\ t.locals \in Grown("local", {})

LEMMA BuiltinsAre ==
    \A i \in DOMAIN Builtins : /\ Builtins[i].ident \in Idents /\ Builtins[i].size \in Int
                               /\ Builtins[i].params \subseteq Idents
<1>1. \A i \in DOMAIN Builtins : i = 1 \/ i = 2 \/ i = 3 \/ i = 4
  BY DEF Builtins
<1>2. WordSize \in Int /\ 0 \in Int
  BY DEF WordSize
<1>3. /\ Builtins[1].size = 0 /\ Builtins[2].size = 0
      /\ Builtins[3].size = WordSize /\ Builtins[4].size = WordSize
  BY DEF Builtins
<1>4. \A i \in DOMAIN Builtins : Builtins[i].size \in Int
  BY <1>1, <1>2, <1>3
<1>5. \A i \in DOMAIN Builtins : Builtins[i].ident \in Idents /\ Builtins[i].params \subseteq Idents
  BY DEF Idents, BuiltinNames
<1> QED  BY <1>4, <1>5

LEMMA GrowthByOne ==
    ASSUME NEW type, NEW X, NEW t \in Grown(type, X), NEW S, S # {},
           \A x \in S : x \in Symbols(X)
    PROVE  (CHOOSE u \in UNION {Add(t, x) : x \in S} : TRUE) \in Grown(type, X)
<1>1. PICK x \in S : TRUE
  OBVIOUS
<1>2. \A y \in S : Add(t, y) # {} /\ Add(t, y) \subseteq Grown(type, X)
  BY AddGrown
<1>3. UNION {Add(t, y) : y \in S} # {}
  BY <1>1, <1>2
<1>4. UNION {Add(t, y) : y \in S} \subseteq Grown(type, X)
  BY <1>2
<1> QED  BY <1>3, <1>4

LEMMA BuiltinTablesAre ==
    ASSUME NEW i \in DOMAIN Builtins
    PROVE  IsFunctionST(BuiltinTables(Builtins[i]), Builtins[i].ident)
<1> DEFINE b == Builtins[i]
           S == IF b.params = {} THEN {Table("param")}
                ELSE UNION {Add(Table("param"), Value(x)) : x \in b.params}
<1>1. b.params \subseteq Idents
  BY BuiltinsAre
<1>2. Table("param") \in Grown("param", {}) /\ Table("local") \in Grown("local", {})
  BY TableGrown
<1> HIDE DEF b
<1>3. (CHOOSE t \in S : TRUE) \in Grown("param", {})
  <2>1. CASE b.params = {}
    BY <1>2, <2>1
  <2>2. CASE b.params # {}
    <3> DEFINE V == {Value(x) : x \in b.params}
    <3>1. V # {} /\ \A v \in V : v \in Symbols({})
      BY <1>1, <2>2, NewSymbols
    <3>2. S = UNION {Add(Table("param"), v) : v \in V}
      BY <2>2
    <3> HIDE DEF V, S
    <3>3. (CHOOSE u \in UNION {Add(Table("param"), v) : v \in V} : TRUE) \in Grown("param", {})
      BY <1>2, <3>1, GrowthByOne
    <3> QED  BY <3>2, <3>3
  <2> QED  BY <2>1, <2>2
<1>4. BuiltinTables(b).parameters = CHOOSE t \in S : TRUE
  BY DEF BuiltinTables
<1>5. BuiltinTables(b).ident = b.ident /\ BuiltinTables(b).locals = Table("local")
  BY DEF BuiltinTables
<1> HIDE DEF S
<1>6. IsFunctionST(BuiltinTables(b), b.ident)
  BY <1>2, <1>3, <1>4, <1>5 DEF IsFunctionST
<1> QED  BY <1>6 DEF b

LEMMA AtStart == ASSUME NEW type, NEW X, NEW t \in Grown(type, X)
                 PROVE  [t EXCEPT !.next_addr = 0] \in Grown(type, X)
<1> DEFINE u == [t EXCEPT !.next_addr = 0]
           Fields == [type : {type}, symbols : SUBSET Symbols(X), len : Nat, next_addr : Int,
                      next_addr_param : Int]
<1>1. t \in Fields /\ \A i \in 0 .. t.len - 1 : \E s \in t.symbols : s.index = i
  BY DEF Grown
<1>2. u.symbols = t.symbols /\ u.len = t.len /\ u \in Fields
  <2>1. t.type = type /\ t.symbols \in SUBSET Symbols(X) /\ t.len \in Nat /\ t.next_addr_param \in Int
    BY <1>1
  <2>2. u = [type |-> t.type, symbols |-> t.symbols, len |-> t.len, next_addr |-> 0,
             next_addr_param |-> t.next_addr_param]
    BY <1>1
  <2> HIDE DEF u
  <2> QED  BY <2>1, <2>2
<1> HIDE DEF u
<1>3. u \in Grown(type, X)
  BY <1>1, <1>2 DEF Grown
<1> QED  BY <1>3 DEF u

LEMMA SeqOfSymbols == ASSUME NEW X, NEW s \in Seq(Declarations) PROVE s \in Seq(Symbols(X))
<1>1. Declarations \subseteq Symbols(X)
  BY DeclaredSymbols
<1> QED  BY <1>1

LEMMA FunctionTablesAre == ASSUME NEW d \in Definitions
                           PROVE  IsFunctionST(FunctionTables(d), d.ident)
<1> DEFINE params == AddAll(Table("param"), d.params)
           offset == ToInt(params.next_addr)
           empty == [Table("local") EXCEPT !.next_addr = offset]
<1>1. d.params \in Seq(Declarations) /\ d.locals \in Seq(Declarations)
  BY DEF Definitions
<1>2. Table("param") \in Grown("param", {}) /\ Table("local") \in Grown("local", {})
  BY TableGrown
<1>3. d.params \in Seq(Symbols({})) /\ d.locals \in Seq(Symbols({}))
  BY <1>1, SeqOfSymbols
<1>4. params \in Grown("param", {})
  BY <1>2, <1>3, AddAllGrown
<1> HIDE DEF params
<1>5. offset \in Int
  BY <1>4, ToIntInt DEF Grown
<1> HIDE DEF offset
<1>6. empty \in Grown("local", {})
  BY <1>5 DEF Table, Grown, FirstStackParam
<1> HIDE DEF empty
<1>7. AddAll(empty, d.locals) \in Grown("local", {})
  BY <1>3, <1>6, AddAllGrown
<1>8. /\ FunctionTables(d).ident = d.ident /\ FunctionTables(d).parameters = params
      /\ FunctionTables(d).locals = AddAll(empty, d.locals)
  BY DEF FunctionTables, params, offset, empty
<1> QED  BY <1>4, <1>7, <1>8 DEF IsFunctionST

\* Every function that a name of the program stands for has its tables, and what
\* the tables hold can be read.
LEMMA ProgramTablesAre ==
    ASSUME NEW p, p.globals \in Seq(Declarations), p.functions \in Seq(Definitions)
    PROVE  /\ DOMAIN ProgramTables(p).functions = BuiltinNames \cup DefinedNames(p)
           /\ ProgramTables(p).globals \in Grown("global", DOMAIN ProgramTables(p).functions)
           /\ \A x \in DOMAIN ProgramTables(p).functions :
                IsFunctionST(ProgramTables(p).functions[x], x)
<1> DEFINE builtins == [i \in DOMAIN Builtins |-> Function(Builtins[i].ident, Builtins[i].size)]
           functions == [i \in DOMAIN p.functions |-> Function(p.functions[i].ident, 0)]
           variables == AddAll([AddAll(Table("global"), builtins) EXCEPT !.next_addr = 0], p.globals)
           tables == {BuiltinTables(Builtins[i]) : i \in DOMAIN Builtins}
                       \cup {FunctionTables(p.functions[i]) : i \in DOMAIN p.functions}
           byName == [x \in {t.ident : t \in tables} |-> CHOOSE t \in tables : t.ident = x]
           X == BuiltinNames \cup DefinedNames(p)
<1>1. ProgramTables(p) = [globals |-> AddAll(variables, functions), functions |-> byName]
  BY DEF ProgramTables
<1>2. \A i \in DOMAIN p.functions : p.functions[i] \in Definitions /\ p.functions[i].ident \in Idents
  <2>1. \A i \in DOMAIN p.functions : p.functions[i] \in Definitions
    OBVIOUS
  <2> QED  BY <2>1 DEF Definitions, Idents
<1>3. \A t \in tables : \E x \in X : IsFunctionST(t, x)
  BY <1>2, BuiltinTablesAre, FunctionTablesAre DEF BuiltinNames, DefinedNames
<1>4. \A x \in X : \E t \in tables : t.ident = x
  BY <1>2, BuiltinTablesAre, FunctionTablesAre DEF BuiltinNames, DefinedNames, IsFunctionST
<1> HIDE DEF tables
<1>5. {t.ident : t \in tables} = X
  BY <1>3, <1>4 DEF IsFunctionST
<1>6. \A x \in X : IsFunctionST(byName[x], x)
  <2> SUFFICES ASSUME NEW x \in X PROVE IsFunctionST(byName[x], x)
    OBVIOUS
  <2>1. byName[x] \in tables /\ byName[x].ident = x
    BY <1>4, <1>5
  <2> HIDE DEF byName
  <2>2. PICK y \in X : IsFunctionST(byName[x], y)
    BY <1>3, <2>1
  <2> QED  BY <2>1, <2>2 DEF IsFunctionST
<1>7. builtins \in Seq(Symbols(X))
  <2>1. DOMAIN Builtins = 1 .. 4
    BY DEF Builtins
  <2>2. \A i \in DOMAIN Builtins : Function(Builtins[i].ident, Builtins[i].size) \in Symbols(X)
    BY BuiltinsAre, NewSymbols DEF BuiltinNames
  <2> QED  BY <2>1, <2>2
<1>8. functions \in Seq(Symbols(X))
  <2>1. \A i \in DOMAIN p.functions : Function(p.functions[i].ident, 0) \in Symbols(X)
    <3>1. 0 \in Int /\ \A i \in DOMAIN p.functions : p.functions[i].ident \in X
      BY DEF DefinedNames
    <3> HIDE DEF X
    <3> QED  BY <1>2, <3>1, NewSymbols
  <2>2. DOMAIN p.functions = 1 .. Len(p.functions) /\ Len(p.functions) \in Nat
    OBVIOUS
  <2>3. \A i \in 1 .. Len(p.functions) : functions[i] \in Symbols(X)
    BY <2>1, <2>2
  <2>4. functions = [i \in 1 .. Len(p.functions) |-> functions[i]]
    BY <2>2
  <2> HIDE DEF functions, X
  <2>5. functions \in [1 .. Len(p.functions) -> Symbols(X)]
    BY <2>3, <2>4
  <2> QED  BY <2>2, <2>5
<1>9. p.globals \in Seq(Symbols(X))
  BY SeqOfSymbols
<1>10. AddAll(Table("global"), builtins) \in Grown("global", X)
  <2> HIDE DEF builtins, X
  <2> QED  BY <1>7, TableGrown, AddAllGrown
<1>11. [AddAll(Table("global"), builtins) EXCEPT !.next_addr = 0] \in Grown("global", X)
  <2> HIDE DEF builtins, X
  <2> QED  BY <1>10, AtStart
<1>12. variables \in Grown("global", X)
  <2> HIDE DEF builtins, X
  <2> QED  BY <1>9, <1>11, AddAllGrown
<1>13. AddAll(variables, functions) \in Grown("global", X)
  <2> HIDE DEF variables, functions, X
  <2> QED  BY <1>8, <1>12, AddAllGrown
<1>14. DOMAIN byName = X
  BY <1>5
<1> HIDE DEF byName, variables, functions
<1>15. ProgramTables(p).functions = byName /\ ProgramTables(p).globals = AddAll(variables, functions)
  BY <1>1
<1> QED  BY <1>6, <1>13, <1>14, <1>15
-----------------------------------------------------------------------------
(* Children                                                                *)

LEMMA OneChildIs == ASSUME NEW S, NEW c \in OneChild(S)
                    PROVE  c \in Seq(S) /\ Len(c) = 1 /\ c # <<>> /\ c[1] \in S /\ DOMAIN c = 1 .. 1
<1>1. c \in [1 .. 1 -> S]
  BY DEF OneChild
<1>2. DOMAIN c = 1 .. 1 /\ c[1] \in S
  BY <1>1
<1>3. c = <<c[1]>>
  <2>1. c = [i \in 1 .. 1 |-> c[i]]
    BY <1>1
  <2>2. \A i \in 1 .. 1 : c[i] = c[1]
    OBVIOUS
  <2>3. [i \in 1 .. 1 |-> c[i]] = <<c[1]>>
    BY <2>2
  <2> QED  BY <2>1, <2>3
<1> DEFINE x == c[1]
<1>4. x \in S /\ c = <<x>>
  BY <1>2, <1>3
<1> HIDE DEF x
<1>5. <<x>> \in Seq(S) /\ Len(<<x>>) = 1 /\ <<x>> # <<>>
  BY <1>4
<1> QED  BY <1>2, <1>4, <1>5

LEMMA TwoChildrenAre ==
    ASSUME NEW S, NEW T, NEW c \in S \X T
    PROVE  /\ c \in Seq(S \cup T) /\ Len(c) = 2 /\ c # <<>> /\ c[1] \in S /\ c[2] \in T
           /\ DOMAIN c = 1 .. 2
<1>1. PICK a \in S, b \in T : c = <<a, b>>
  OBVIOUS
<1> QED  BY <1>1

LEMMA ThreeChildrenAre ==
    ASSUME NEW S, NEW T, NEW U, NEW c \in S \X T \X U
    PROVE  /\ c \in Seq(S \cup T \cup U) /\ Len(c) = 3 /\ c # <<>>
           /\ c[1] \in S /\ c[2] \in T /\ c[3] \in U /\ DOMAIN c = 1 .. 3
<1>1. PICK a \in S, b \in T, d \in U : c = <<a, b, d>>
  OBVIOUS
<1> QED  BY <1>1

\* A call over the expressions in `lower'.
IsCallOver(s, lower, n) ==
    /\ n.label = "Ident" /\ n.ident \in STRING /\ n.child \in Seq(ArgumentNodes(lower))
    /\ Len(n.child) = 1 /\ n.child # <<>>
    /\ n.child[1].child \in Seq(lower)
    /\ \/ n.child[1].label = "EmptyArgs" /\ n.child[1].child = <<>>
       \/ n.child[1].label = "ListExp" /\ n.child[1].child # <<>>
    /\ <<n.ident, Len(n.child[1].child)>> \in s.calls /\ NamesGiven(s, n)

LEMMA CallNodesAre == ASSUME NEW s, NEW lower, NEW n \in CallNodes(s, lower)
                      PROVE  IsCallOver(s, lower, n)
<1>1. /\ n \in Nodes({"Ident"}, STRING, OneChild(ArgumentNodes(lower)))
      /\ <<n.ident, Len(n.child[1].child)>> \in s.calls /\ NamesGiven(s, n)
  BY DEF CallNodes
<1>2. n.label = "Ident" /\ n.ident \in STRING /\ n.child \in OneChild(ArgumentNodes(lower))
  BY <1>1 DEF Nodes
<1>3. n.child \in Seq(ArgumentNodes(lower)) /\ Len(n.child) = 1 /\ n.child # <<>>
      /\ n.child[1] \in ArgumentNodes(lower)
  BY <1>2, OneChildIs
<1> DEFINE a == n.child[1]
<1>4. /\ a.child \in Seq(lower)
      /\ \/ a.label = "EmptyArgs" /\ a.child = <<>>
         \/ a.label = "ListExp" /\ a.child # <<>>
  <2> HIDE DEF a
  <2>1. a \in ArgumentNodes(lower)
    BY <1>3 DEF a
  <2>2. CASE a \in Nodes({"EmptyArgs"}, STRING, NoChild)
    <3>1. a.label = "EmptyArgs" /\ a.child = <<>>
      BY <2>2 DEF Nodes, NoChild
    <3>2. <<>> \in Seq(lower)
      OBVIOUS
    <3> QED  BY <3>1, <3>2
  <2>3. CASE a \in Nodes({"ListExp"}, STRING, Seq(lower) \ NoChild)
    BY <2>3 DEF Nodes, NoChild
  <2> QED  BY <2>1, <2>2, <2>3 DEF ArgumentNodes
<1> QED  BY <1>1, <1>2, <1>3, <1>4 DEF IsCallOver

\* What an expression over those in `lower' is.
IsLeaf(s, n) ==
    \/ n.label \in {"Num", "Character"} /\ n.num \in Int /\ n.child = <<>>
    \/ n.label = "Ident" /\ n.ident \in s.values \cup s.arrays /\ n.child = <<>>
IsUnary(s, lower, n) ==
    /\ n.child \in Seq(lower) /\ Len(n.child) = 1 /\ n.child # <<>> /\ n.child[1] \in lower
    /\ DOMAIN n.child = 1 .. 1
    /\ \/ n.label = "ArrayLR" /\ n.ident \in s.arrays
       \/ n.label = "AddsubU" /\ n.ident \in {"+", "-"}
       \/ n.label = "Not"
IsBinary(lower, n) ==
    /\ n.child \in Seq(lower) /\ Len(n.child) = 2 /\ n.child[1] \in lower /\ n.child[2] \in lower
    /\ DOMAIN n.child = 1 .. 2
    /\ \/ n.label = "Addsub" /\ n.ident \in {"+", "-"}
       \/ n.label = "Divstar" /\ n.ident \in {"*", "/", "%"}
       \/ n.label = "Eq" /\ n.ident \in {"==", "!="}
       \/ n.label = "Order" /\ n.ident \in {"<", "<=", ">", ">="}
       \/ n.label \in {"And", "Or"}

LEMMA ExpNodesAre ==
    ASSUME NEW s, NEW lower, NEW n \in ExpNodes(s, lower)
    PROVE  IsLeaf(s, n) \/ IsCallOver(s, lower, n) \/ IsUnary(s, lower, n) \/ IsBinary(lower, n)
<1>1. CASE n \in Nodes({"Num", "Character"}, STRING, NoChild)
  BY <1>1 DEF Nodes, NoChild, IsLeaf
<1>2. CASE n \in Nodes({"Ident"}, s.values \cup s.arrays, NoChild)
  BY <1>2 DEF Nodes, NoChild, IsLeaf
<1>3. CASE n \in OperandCalls(s, lower)
  BY <1>3, CallNodesAre DEF OperandCalls
<1>4. ASSUME NEW l, NEW ids, n \in Nodes(l, ids, OneChild(lower))
      PROVE  /\ n.child \in Seq(lower) /\ Len(n.child) = 1 /\ n.child # <<>>
             /\ n.child[1] \in lower /\ DOMAIN n.child = 1 .. 1
             /\ n.label \in l /\ n.ident \in ids
  <2>1. n.child \in OneChild(lower) /\ n.label \in l /\ n.ident \in ids
    BY <1>4 DEF Nodes
  <2> QED  BY <2>1, OneChildIs
<1>5. ASSUME NEW l, NEW ids, n \in Nodes(l, ids, lower \X lower)
      PROVE  /\ n.child \in Seq(lower) /\ Len(n.child) = 2 /\ n.child[1] \in lower
             /\ n.child[2] \in lower /\ DOMAIN n.child = 1 .. 2
             /\ n.label \in l /\ n.ident \in ids
  <2>1. n.child \in lower \X lower /\ n.label \in l /\ n.ident \in ids
    BY <1>5 DEF Nodes
  <2>2. lower \cup lower = lower
    OBVIOUS
  <2> QED  BY <2>1, <2>2, TwoChildrenAre
<1>6. CASE \/ n \in Nodes({"ArrayLR"}, s.arrays, OneChild(lower))
           \/ n \in Nodes({"AddsubU"}, {"+", "-"}, OneChild(lower))
           \/ n \in Nodes({"Not"}, STRING, OneChild(lower))
  BY <1>4, <1>6 DEF IsUnary
<1>7. CASE \/ n \in Nodes({"Addsub"}, {"+", "-"}, lower \X lower)
           \/ n \in Nodes({"Divstar"}, {"*", "/", "%"}, lower \X lower)
           \/ n \in Nodes({"Eq"}, {"==", "!="}, lower \X lower)
           \/ n \in Nodes({"Order"}, {"<", "<=", ">", ">="}, lower \X lower)
           \/ n \in Nodes({"And", "Or"}, STRING, lower \X lower)
  BY <1>5, <1>7 DEF IsBinary
<1> QED  BY <1>1, <1>2, <1>3, <1>6, <1>7 DEF ExpNodes

\* What an instruction over the expressions `exps' and the instructions `lower' is.
IsTarget(s, lower, n) ==
    \/ n.label = "Ident" /\ n.child = <<>> /\ n.ident \in s.values
    \/ IsUnary(s, lower, n) /\ n.label = "ArrayLR" /\ n.ident \in s.arrays
InstrForm(s, exps, lower, n) ==
    \/ n.label = "EmptyInstr"
    \/ n.label = "Return" /\ (n.child = <<>> \/ (n.child # <<>> /\ n.child[1] \in exps))
    \/ /\ n.label = "Assignation" /\ IsTarget(s, exps, n.child[1]) /\ n.child[2] \in exps
       /\ DOMAIN n.child = 1 .. 2
    \/ IsCallOver(s, exps, n)
    \/ /\ n.label = "If" /\ n.child[1] \in exps /\ n.child[2] \in lower
       /\ DOMAIN n.child = 1 .. Len(n.child)
       /\ Len(n.child) = 2 \/ (Len(n.child) = 3 /\ n.child[3] \in lower)
    \/ /\ n.label = "While" /\ n.child[1] \in exps /\ n.child[2] \in lower
       /\ DOMAIN n.child = 1 .. 2 /\ Len(n.child) = 2
    \/ n.label = "SuiteInstr" /\ n.child \in Seq(lower)

LEMMA TargetNodesAre == ASSUME NEW s, NEW lower, NEW n \in TargetNodes(s, lower)
                        PROVE  IsTarget(s, lower, n)
<1>1. CASE n \in Nodes({"Ident"}, s.values, NoChild)
  BY <1>1 DEF Nodes, NoChild, IsTarget
<1>2. CASE n \in Nodes({"ArrayLR"}, s.arrays, OneChild(lower))
  <2>1. n.child \in OneChild(lower) /\ n.label = "ArrayLR" /\ n.ident \in s.arrays
    BY <1>2 DEF Nodes
  <2>2. IsUnary(s, lower, n)
    BY <2>1, OneChildIs DEF IsUnary
  <2> QED  BY <2>1, <2>2 DEF IsTarget
<1> QED  BY <1>1, <1>2 DEF TargetNodes

LEMMA InstrNodesAre ==
    ASSUME NEW s, NEW exps, NEW lower, NEW n \in InstrNodes(s, exps, lower)
    PROVE  InstrForm(s, exps, lower, n)
<1>1. CASE n \in Nodes({"EmptyInstr"}, STRING, NoChild)
  BY <1>1 DEF Nodes, InstrForm
<1>2. CASE n \in ReturnNodes(s, exps)
  <2>1. n.label = "Return" /\ (n.child \in NoChild \/ n.child \in OneChild(exps))
    BY <1>2 DEF ReturnNodes, Nodes
  <2> QED  BY <2>1, OneChildIs DEF NoChild, InstrForm
<1>3. CASE n \in Nodes({"Assignation"}, STRING, TargetNodes(s, exps) \X exps)
  <2>1. n.label = "Assignation" /\ n.child \in TargetNodes(s, exps) \X exps
    BY <1>3 DEF Nodes
  <2>2. n.child[1] \in TargetNodes(s, exps) /\ n.child[2] \in exps /\ DOMAIN n.child = 1 .. 2
    BY <2>1, TwoChildrenAre
  <2> QED  BY <2>1, <2>2, TargetNodesAre DEF InstrForm
<1>4. CASE n \in CallNodes(s, exps)
  BY <1>4, CallNodesAre DEF InstrForm
<1>5. CASE n \in Nodes({"If"}, STRING, (exps \X lower) \cup (exps \X lower \X lower))
  <2>1. n.label = "If" /\ (n.child \in exps \X lower \/ n.child \in exps \X lower \X lower)
    BY <1>5 DEF Nodes
  <2>2. CASE n.child \in exps \X lower
    <3>1. Len(n.child) = 2 /\ n.child[1] \in exps /\ n.child[2] \in lower /\ DOMAIN n.child = 1 .. 2
      BY <2>2, TwoChildrenAre
    <3> QED  BY <2>1, <3>1 DEF InstrForm
  <2>3. CASE n.child \in exps \X lower \X lower
    <3>1. /\ Len(n.child) = 3 /\ n.child[1] \in exps /\ n.child[2] \in lower /\ n.child[3] \in lower
          /\ DOMAIN n.child = 1 .. 3
      BY <2>3, ThreeChildrenAre
    <3> QED  BY <2>1, <3>1 DEF InstrForm
  <2> QED  BY <2>1, <2>2, <2>3
<1>6. CASE n \in Nodes({"While"}, STRING, exps \X lower)
  <2>1. n.label = "While" /\ n.child \in exps \X lower
    BY <1>6 DEF Nodes
  <2> QED  BY <2>1, TwoChildrenAre DEF InstrForm
<1>7. CASE n \in Nodes({"SuiteInstr"}, STRING, Seq(lower))
  BY <1>7 DEF Nodes, InstrForm
<1> QED  BY <1>1, <1>2, <1>3, <1>4, <1>5, <1>6, <1>7 DEF InstrNodes
-----------------------------------------------------------------------------
(* Levels                                                                  *)
\* g gives the expressions of the heights up to k.
ExpLevels(s, k, g) ==
    /\ g = [h \in 0 .. k |-> g[h]] /\ g[0] = {}
    /\ \A h \in 1 .. k : g[h] = ExpNodes(s, g[h - 1])

LEMMA ExpLevelsExist == ASSUME NEW s, NEW n \in Nat PROVE \E g : ExpLevels(s, n, g)
<1> DEFINE S == {k \in 0 .. n : \E g : ExpLevels(s, k, g)}
<1>1. 0 \in S
  <2>1. ExpLevels(s, 0, [h \in 0 .. 0 |-> {}])
    BY DEF ExpLevels
  <2> QED  BY <2>1
<1>2. ASSUME NEW k \in 0 .. n, k + 1 \in 0 .. n, k \in S PROVE k + 1 \in S
  <2>1. PICK g : ExpLevels(s, k, g)
    BY <1>2
  <2> DEFINE v == ExpNodes(s, g[k])
             f == [h \in 0 .. k + 1 |-> IF h = k + 1 THEN v ELSE g[h]]
  <2> HIDE DEF v
  <2>2. f = [h \in 0 .. k + 1 |-> f[h]] /\ f[k + 1] = v /\ \A h \in 0 .. k : f[h] = g[h]
    OBVIOUS
  <2> HIDE DEF f
  <2>3. f[0] = {}
    BY <2>1, <2>2 DEF ExpLevels
  <2>4. ASSUME NEW h \in 1 .. k + 1 PROVE f[h] = ExpNodes(s, f[h - 1])
    <3>1. CASE h = k + 1
      <4>1. h - 1 = k /\ k \in 0 .. k
        BY <3>1
      <4>2. f[h - 1] = g[k]
        BY <2>2, <4>1
      <4> QED  BY <2>2, <3>1, <4>2 DEF v
    <3>2. CASE h # k + 1
      <4>1. h \in 1 .. k /\ h - 1 \in 0 .. k /\ h \in 0 .. k
        BY <3>2
      <4>2. f[h] = g[h] /\ f[h - 1] = g[h - 1]
        BY <2>2, <4>1
      <4> QED  BY <2>1, <4>1, <4>2 DEF ExpLevels
    <3> QED  BY <3>1, <3>2
  <2>5. ExpLevels(s, k + 1, f)
    BY <2>2, <2>3, <2>4 DEF ExpLevels
  <2> QED  BY <1>2, <2>5
<1> HIDE DEF S
<1>3. 0 .. n \subseteq S
  BY <1>1, <1>2, Reaches
<1> QED  BY <1>3 DEF S

LEMMA ExpLevelsAre == ASSUME NEW s PROVE ExpLevels(s, Height, ExpsUpTo(s))
<1> DEFINE Rec(g) == g = [h \in 0 .. Height |-> IF h = 0 THEN {} ELSE ExpNodes(s, g[h - 1])]
           v == CHOOSE g : Rec(g)
<1>1. ExpsUpTo(s) = v
  BY DEF ExpsUpTo
<1>2. Rec(v)
  <2>1. PICK g : ExpLevels(s, Height, g)
    BY HeightAssumption, ExpLevelsExist
  <2>2. \A h \in 0 .. Height : g[h] = IF h = 0 THEN {} ELSE ExpNodes(s, g[h - 1])
    <3>1. \A h \in 0 .. Height : h = 0 \/ h \in 1 .. Height
      BY HeightAssumption
    <3> QED  BY <2>1, <3>1 DEF ExpLevels
  <2>3. Rec(g)
    BY <2>1, <2>2 DEF ExpLevels
  <2> HIDE DEF Rec
  <2> QED  BY <2>3
<1> HIDE DEF v
<1>3. /\ v = [h \in 0 .. Height |-> v[h]] /\ v[0] = {}
      /\ \A h \in 1 .. Height : v[h] = ExpNodes(s, v[h - 1])
  <2>1. 0 \in 0 .. Height /\ \A h \in 1 .. Height : h \in 0 .. Height /\ h # 0
    BY HeightAssumption
  <2> QED  BY <1>2, <2>1
<1> QED  BY <1>1, <1>3 DEF ExpLevels

\* g gives the instructions of the heights up to k, over the expressions e.
InstrLevels(s, e, k, g) ==
    /\ g = [h \in 0 .. k |-> g[h]] /\ g[0] = {}
    /\ \A h \in 1 .. k : g[h] = InstrNodes(s, e, g[h - 1])

LEMMA InstrLevelsExist == ASSUME NEW s, NEW e, NEW n \in Nat PROVE \E g : InstrLevels(s, e, n, g)
<1> DEFINE S == {k \in 0 .. n : \E g : InstrLevels(s, e, k, g)}
<1>1. 0 \in S
  <2>1. InstrLevels(s, e, 0, [h \in 0 .. 0 |-> {}])
    BY DEF InstrLevels
  <2> QED  BY <2>1
<1>2. ASSUME NEW k \in 0 .. n, k + 1 \in 0 .. n, k \in S PROVE k + 1 \in S
  <2>1. PICK g : InstrLevels(s, e, k, g)
    BY <1>2
  <2> DEFINE v == InstrNodes(s, e, g[k])
             f == [h \in 0 .. k + 1 |-> IF h = k + 1 THEN v ELSE g[h]]
  <2> HIDE DEF v
  <2>2. f = [h \in 0 .. k + 1 |-> f[h]] /\ f[k + 1] = v /\ \A h \in 0 .. k : f[h] = g[h]
    OBVIOUS
  <2> HIDE DEF f
  <2>3. f[0] = {}
    BY <2>1, <2>2 DEF InstrLevels
  <2>4. ASSUME NEW h \in 1 .. k + 1 PROVE f[h] = InstrNodes(s, e, f[h - 1])
    <3>1. CASE h = k + 1
      <4>1. h - 1 = k /\ k \in 0 .. k
        BY <3>1
      <4>2. f[h - 1] = g[k]
        BY <2>2, <4>1
      <4> QED  BY <2>2, <3>1, <4>2 DEF v
    <3>2. CASE h # k + 1
      <4>1. h \in 1 .. k /\ h - 1 \in 0 .. k /\ h \in 0 .. k
        BY <3>2
      <4>2. f[h] = g[h] /\ f[h - 1] = g[h - 1]
        BY <2>2, <4>1
      <4> QED  BY <2>1, <4>1, <4>2 DEF InstrLevels
    <3> QED  BY <3>1, <3>2
  <2>5. InstrLevels(s, e, k + 1, f)
    BY <2>2, <2>3, <2>4 DEF InstrLevels
  <2> QED  BY <1>2, <2>5
<1> HIDE DEF S
<1>3. 0 .. n \subseteq S
  BY <1>1, <1>2, Reaches
<1> QED  BY <1>3 DEF S

LEMMA InstrLevelsAre == ASSUME NEW s PROVE InstrLevels(s, Exps(s), Height, InstrsUpTo(s))
<1> DEFINE Rec(g) == g = [h \in 0 .. Height |-> IF h = 0 THEN {} ELSE InstrNodes(s, Exps(s), g[h - 1])]
           v == CHOOSE g : Rec(g)
<1>1. InstrsUpTo(s) = v
  BY DEF InstrsUpTo
<1>2. Rec(v)
  <2>1. PICK g : InstrLevels(s, Exps(s), Height, g)
    BY HeightAssumption, InstrLevelsExist
  <2>2. \A h \in 0 .. Height : g[h] = IF h = 0 THEN {} ELSE InstrNodes(s, Exps(s), g[h - 1])
    <3>1. \A h \in 0 .. Height : h = 0 \/ h \in 1 .. Height
      BY HeightAssumption
    <3> QED  BY <2>1, <3>1 DEF InstrLevels
  <2>3. Rec(g)
    BY <2>1, <2>2 DEF InstrLevels
  <2> HIDE DEF Rec
  <2> QED  BY <2>3
<1> HIDE DEF v
<1>3. /\ v = [h \in 0 .. Height |-> v[h]] /\ v[0] = {}
      /\ \A h \in 1 .. Height : v[h] = InstrNodes(s, Exps(s), v[h - 1])
  <2>1. 0 \in 0 .. Height /\ \A h \in 1 .. Height : h \in 0 .. Height /\ h # 0
    BY HeightAssumption
  <2> QED  BY <1>2, <2>1
<1> QED  BY <1>1, <1>3 DEF InstrLevels

\* The names that s allows are among those of t, and it asks for more of them.
Narrower(s, t) ==
    /\ s.values \subseteq t.values /\ s.arrays \subseteq t.arrays /\ s.calls \subseteq t.calls
    /\ s.answers \subseteq t.answers /\ t.named \subseteq s.named /\ s.returns \subseteq t.returns

LEMMA NodesGrow == ASSUME NEW l, NEW a, NEW b, a \subseteq b, NEW c, NEW d, c \subseteq d
                   PROVE  Nodes(l, a, c) \subseteq Nodes(l, b, d)
  BY DEF Nodes

LEMMA OneChildGrows == ASSUME NEW c, NEW d, c \subseteq d PROVE OneChild(c) \subseteq OneChild(d)
  BY DEF OneChild

LEMMA SeqGrows == ASSUME NEW c, NEW d, c \subseteq d PROVE Seq(c) \subseteq Seq(d)
  OBVIOUS

LEMMA CallNodesGrow ==
    ASSUME NEW s, NEW t, Narrower(s, t), NEW lower, NEW upper, lower \subseteq upper
    PROVE  CallNodes(s, lower) \subseteq CallNodes(t, upper)
<1>1. ArgumentNodes(lower) \subseteq ArgumentNodes(upper)
  <2>1. Seq(lower) \ NoChild \subseteq Seq(upper) \ NoChild
    BY SeqGrows
  <2>2. Nodes({"ListExp"}, STRING, Seq(lower) \ NoChild) \subseteq Nodes({"ListExp"}, STRING, Seq(upper) \ NoChild)
    BY <2>1, NodesGrow
  <2> QED  BY <2>2 DEF ArgumentNodes
<1>2. OneChild(ArgumentNodes(lower)) \subseteq OneChild(ArgumentNodes(upper))
  BY <1>1, OneChildGrows
<1>3. Nodes({"Ident"}, STRING, OneChild(ArgumentNodes(lower)))
        \subseteq Nodes({"Ident"}, STRING, OneChild(ArgumentNodes(upper)))
  BY <1>2, NodesGrow
<1>4. \A n : NamesGiven(s, n) => NamesGiven(t, n)
  BY DEF NamesGiven, Narrower
<1> QED  BY <1>3, <1>4 DEF CallNodes, Narrower

LEMMA ExpNodesGrow ==
    ASSUME NEW s, NEW t, Narrower(s, t), NEW lower, NEW upper, lower \subseteq upper
    PROVE  ExpNodes(s, lower) \subseteq ExpNodes(t, upper)
<1>1. OneChild(lower) \subseteq OneChild(upper) /\ lower \X lower \subseteq upper \X upper
  BY OneChildGrows
<1>2. \A l, a : /\ Nodes(l, a, OneChild(lower)) \subseteq Nodes(l, a, OneChild(upper))
               /\ Nodes(l, a, lower \X lower) \subseteq Nodes(l, a, upper \X upper)
  BY <1>1, NodesGrow
<1>3. Nodes({"ArrayLR"}, s.arrays, OneChild(lower)) \subseteq Nodes({"ArrayLR"}, t.arrays, OneChild(upper))
  BY <1>1, NodesGrow DEF Narrower
<1>4. Nodes({"Ident"}, s.values \cup s.arrays, NoChild)
        \subseteq Nodes({"Ident"}, t.values \cup t.arrays, NoChild)
  <2>1. s.values \cup s.arrays \subseteq t.values \cup t.arrays
    BY DEF Narrower
  <2> QED  BY <2>1, NodesGrow
<1>5. OperandCalls(s, lower) \subseteq OperandCalls(t, upper)
  BY CallNodesGrow DEF OperandCalls, Narrower
<1> SUFFICES ASSUME NEW n \in ExpNodes(s, lower) PROVE n \in ExpNodes(t, upper)
  OBVIOUS
<1>6. CASE \/ n \in Nodes({"Num", "Character"}, STRING, NoChild)
           \/ n \in Nodes({"Ident"}, s.values \cup s.arrays, NoChild)
           \/ n \in Nodes({"ArrayLR"}, s.arrays, OneChild(lower))
           \/ n \in OperandCalls(s, lower)
  BY <1>3, <1>4, <1>5, <1>6 DEF ExpNodes
<1>7. CASE \/ n \in Nodes({"AddsubU"}, {"+", "-"}, OneChild(lower))
           \/ n \in Nodes({"Not"}, STRING, OneChild(lower))
  BY <1>2, <1>7 DEF ExpNodes
<1>8. CASE \/ n \in Nodes({"Addsub"}, {"+", "-"}, lower \X lower)
           \/ n \in Nodes({"Divstar"}, {"*", "/", "%"}, lower \X lower)
           \/ n \in Nodes({"Eq"}, {"==", "!="}, lower \X lower)
           \/ n \in Nodes({"Order"}, {"<", "<=", ">", ">="}, lower \X lower)
           \/ n \in Nodes({"And", "Or"}, STRING, lower \X lower)
  BY <1>2, <1>8 DEF ExpNodes
<1> QED  BY <1>6, <1>7, <1>8 DEF ExpNodes

LEMMA TargetNodesGrow ==
    ASSUME NEW s, NEW t, Narrower(s, t), NEW lower, NEW upper, lower \subseteq upper
    PROVE  TargetNodes(s, lower) \subseteq TargetNodes(t, upper)
<1>1. OneChild(lower) \subseteq OneChild(upper)
  BY OneChildGrows
<1>2. Nodes({"ArrayLR"}, s.arrays, OneChild(lower)) \subseteq Nodes({"ArrayLR"}, t.arrays, OneChild(upper))
  BY <1>1, NodesGrow DEF Narrower
<1>3. Nodes({"Ident"}, s.values, NoChild) \subseteq Nodes({"Ident"}, t.values, NoChild)
  BY NodesGrow DEF Narrower
<1> QED  BY <1>2, <1>3 DEF TargetNodes

LEMMA InstrNodesGrow ==
    ASSUME NEW s, NEW t, Narrower(s, t), NEW e, NEW f, e \subseteq f,
           NEW lower, NEW upper, lower \subseteq upper
    PROVE  InstrNodes(s, e, lower) \subseteq InstrNodes(t, f, upper)
<1>1. /\ NoChild \cup OneChild(e) \subseteq NoChild \cup OneChild(f)
      /\ TargetNodes(s, e) \X e \subseteq TargetNodes(t, f) \X f
      /\ (e \X lower) \cup (e \X lower \X lower) \subseteq (f \X upper) \cup (f \X upper \X upper)
      /\ e \X lower \subseteq f \X upper
      /\ Seq(lower) \subseteq Seq(upper)
  <2>1. TargetNodes(s, e) \subseteq TargetNodes(t, f) /\ OneChild(e) \subseteq OneChild(f)
    BY TargetNodesGrow, OneChildGrows
  <2>2. e \X lower \subseteq f \X upper /\ e \X lower \X lower \subseteq f \X upper \X upper
    OBVIOUS
  <2> QED  BY <2>1, <2>2, SeqGrows
<1>2. CallNodes(s, e) \subseteq CallNodes(t, f)
  BY CallNodesGrow
<1>3. /\ Nodes({"Return"}, STRING, NoChild \cup OneChild(e))
           \subseteq Nodes({"Return"}, STRING, NoChild \cup OneChild(f))
      /\ Nodes({"Assignation"}, STRING, TargetNodes(s, e) \X e)
           \subseteq Nodes({"Assignation"}, STRING, TargetNodes(t, f) \X f)
      /\ Nodes({"If"}, STRING, (e \X lower) \cup (e \X lower \X lower))
           \subseteq Nodes({"If"}, STRING, (f \X upper) \cup (f \X upper \X upper))
      /\ Nodes({"While"}, STRING, e \X lower) \subseteq Nodes({"While"}, STRING, f \X upper)
      /\ Nodes({"SuiteInstr"}, STRING, Seq(lower)) \subseteq Nodes({"SuiteInstr"}, STRING, Seq(upper))
  <2>1. \A l, c, d : c \subseteq d => Nodes(l, STRING, c) \subseteq Nodes(l, STRING, d)
    BY NodesGrow
  <2> QED  BY <1>1, <2>1
<1>4. ReturnNodes(s, e) \subseteq ReturnNodes(t, f)
  BY <1>3 DEF ReturnNodes, Narrower
<1> QED  BY <1>2, <1>3, <1>4 DEF InstrNodes

\* A tree of some height is one of each greater height; a scope that allows more
\* names allows more trees.
LEMMA ExpsGrow ==
    ASSUME NEW s, NEW t, Narrower(s, t)
    PROVE  /\ \A h \in 0 .. Height : ExpsUpTo(s)[h] \subseteq ExpsUpTo(t)[h]
           /\ \A h \in 1 .. Height : ExpsUpTo(s)[h - 1] \subseteq ExpsUpTo(s)[h]
<1> DEFINE a == ExpsUpTo(s)
           b == ExpsUpTo(t)
<1>1. ExpLevels(s, Height, a) /\ ExpLevels(t, Height, b)
  BY ExpLevelsAre
<1> HIDE DEF a, b
<1>2. /\ a[0] = {} /\ \A h \in 1 .. Height : a[h] = ExpNodes(s, a[h - 1])
      /\ b[0] = {} /\ \A h \in 1 .. Height : b[h] = ExpNodes(t, b[h - 1])
  BY <1>1 DEF ExpLevels
<1> DEFINE S == {h \in 0 .. Height : a[h] \subseteq b[h]}
           T == {h \in 0 .. Height : h = 0 \/ a[h - 1] \subseteq a[h]}
<1>3. 0 \in S /\ 0 \in T
  BY <1>2, HeightAssumption
<1>4. ASSUME NEW k \in 0 .. Height, k + 1 \in 0 .. Height, k \in S PROVE k + 1 \in S
  <2>1. k + 1 \in 1 .. Height /\ (k + 1) - 1 = k
    BY <1>4, HeightAssumption
  <2>2. ExpNodes(s, a[k]) \subseteq ExpNodes(t, b[k])
    BY <1>4, ExpNodesGrow
  <2> QED  BY <1>2, <1>4, <2>1, <2>2
<1>5. ASSUME NEW k \in 0 .. Height, k + 1 \in 0 .. Height, k \in T PROVE k + 1 \in T
  <2>1. k + 1 \in 1 .. Height /\ (k + 1) - 1 = k /\ a[k + 1] = ExpNodes(s, a[k])
    BY <1>2, <1>5, HeightAssumption
  <2>2. CASE k = 0
    BY <1>2, <1>5, <2>1, <2>2
  <2>3. CASE k # 0
    <3>1. k \in 1 .. Height /\ a[k - 1] \subseteq a[k] /\ a[k] = ExpNodes(s, a[k - 1])
      BY <1>2, <1>5, <2>3
    <3>2. Narrower(s, s)
      BY DEF Narrower
    <3>3. ExpNodes(s, a[k - 1]) \subseteq ExpNodes(s, a[k])
      BY <3>1, <3>2, ExpNodesGrow
    <3> QED  BY <1>5, <2>1, <3>1, <3>3
  <2> QED  BY <2>2, <2>3
<1> HIDE DEF S, T
<1>6. 0 .. Height \subseteq S /\ 0 .. Height \subseteq T
  BY <1>3, <1>4, <1>5, Reaches, HeightAssumption
<1>7. /\ \A h \in 0 .. Height : a[h] \subseteq b[h]
      /\ \A h \in 1 .. Height : a[h - 1] \subseteq a[h]
  <2>1. \A h \in 1 .. Height : h # 0 /\ h \in 0 .. Height
    BY HeightAssumption
  <2> QED  BY <1>6, <2>1 DEF S, T
<1> QED  BY <1>7 DEF a, b

LEMMA InstrsGrow ==
    ASSUME NEW s, NEW t, Narrower(s, t)
    PROVE  /\ \A h \in 0 .. Height : InstrsUpTo(s)[h] \subseteq InstrsUpTo(t)[h]
           /\ \A h \in 1 .. Height : InstrsUpTo(s)[h - 1] \subseteq InstrsUpTo(s)[h]
<1> DEFINE a == InstrsUpTo(s)
           b == InstrsUpTo(t)
           d == Exps(s)
           e == Exps(t)
<1>1. InstrLevels(s, d, Height, a) /\ InstrLevels(t, e, Height, b)
  BY InstrLevelsAre
<1>2. d \subseteq e
  BY ExpsGrow, HeightAssumption DEF Exps
<1> HIDE DEF a, b, d, e
<1>3. /\ a[0] = {} /\ \A h \in 1 .. Height : a[h] = InstrNodes(s, d, a[h - 1])
      /\ b[0] = {} /\ \A h \in 1 .. Height : b[h] = InstrNodes(t, e, b[h - 1])
  BY <1>1 DEF InstrLevels
<1> DEFINE S == {h \in 0 .. Height : a[h] \subseteq b[h]}
           T == {h \in 0 .. Height : h = 0 \/ a[h - 1] \subseteq a[h]}
<1>4. 0 \in S /\ 0 \in T
  BY <1>3, HeightAssumption
<1>5. ASSUME NEW k \in 0 .. Height, k + 1 \in 0 .. Height, k \in S PROVE k + 1 \in S
  <2>1. k + 1 \in 1 .. Height /\ (k + 1) - 1 = k
    BY <1>5, HeightAssumption
  <2>2. InstrNodes(s, d, a[k]) \subseteq InstrNodes(t, e, b[k])
    BY <1>2, <1>5, InstrNodesGrow
  <2> QED  BY <1>3, <1>5, <2>1, <2>2
<1>6. ASSUME NEW k \in 0 .. Height, k + 1 \in 0 .. Height, k \in T PROVE k + 1 \in T
  <2>1. k + 1 \in 1 .. Height /\ (k + 1) - 1 = k /\ a[k + 1] = InstrNodes(s, d, a[k])
    BY <1>3, <1>6, HeightAssumption
  <2>2. CASE k = 0
    BY <1>3, <1>6, <2>1, <2>2
  <2>3. CASE k # 0
    <3>1. k \in 1 .. Height /\ a[k - 1] \subseteq a[k] /\ a[k] = InstrNodes(s, d, a[k - 1])
      BY <1>3, <1>6, <2>3
    <3>2. Narrower(s, s)
      BY DEF Narrower
    <3>3. InstrNodes(s, d, a[k - 1]) \subseteq InstrNodes(s, d, a[k])
      BY <3>1, <3>2, InstrNodesGrow
    <3> QED  BY <1>6, <2>1, <3>1, <3>3
  <2> QED  BY <2>2, <2>3
<1> HIDE DEF S, T
<1>7. 0 .. Height \subseteq S /\ 0 .. Height \subseteq T
  BY <1>4, <1>5, <1>6, Reaches, HeightAssumption
<1>8. /\ \A h \in 0 .. Height : a[h] \subseteq b[h]
      /\ \A h \in 1 .. Height : a[h - 1] \subseteq a[h]
  <2>1. \A h \in 1 .. Height : h # 0 /\ h \in 0 .. Height
    BY HeightAssumption
  <2> QED  BY <1>7, <2>1 DEF S, T
<1> QED  BY <1>8 DEF a, b
-----------------------------------------------------------------------------
(* Names                                                                   *)

\* f reads the tables of a program, in one of its functions.
InTables(f) ==
    /\ f.globals \in Grown("global", DOMAIN f.functions)
    /\ \A x \in DOMAIN f.functions : IsFunctionST(f.functions[x], x)
    /\ \E x : IsFunctionST(f.func, x)

\* A name that is found has one symbol, and one that stands for a function has
\* the tables of a function.
LEMMA SymbolIs ==
    ASSUME NEW f, InTables(f), NEW x, Resolves(f, x)
    PROVE  /\ Symbol(f, x) \in Home(f, x).symbols /\ Symbol(f, x).ident = x
           /\ Symbol(f, x) \in Symbols(DOMAIN f.functions)
           /\ Home(f, x).type \in {"global", "param", "local"}
           /\ Symbol(f, x).kind \in Kinds /\ Symbol(f, x).addr \in Int
           /\ Symbol(f, x).kind = "function" =>
                x \in DOMAIN f.functions /\ ParamCount(f.functions[x]) \in Nat
<1> DEFINE home == Home(f, x)
           sym == Symbol(f, x)
<1>1. sym \in home.symbols /\ sym.ident = x
  <2>1. \E s \in home.symbols : s.ident = x
    BY DEF Resolves, Declared
  <2> QED  BY <2>1 DEF Symbol, Get
<1>2. home \in {f.globals, f.func.parameters, f.func.locals}
  BY DEF Home, ScopeIn
<1>3. /\ f.globals \in Grown("global", DOMAIN f.functions)
      /\ f.func.parameters \in Grown("param", {}) /\ f.func.locals \in Grown("local", {})
  BY DEF InTables, IsFunctionST
<1>4. /\ f.globals.symbols \subseteq Symbols(DOMAIN f.functions) /\ f.globals.type = "global"
      /\ f.func.parameters.symbols \subseteq Symbols({}) /\ f.func.parameters.type = "param"
      /\ f.func.locals.symbols \subseteq Symbols({}) /\ f.func.locals.type = "local"
  BY <1>3 DEF Grown
<1>5. Symbols({}) \subseteq Symbols(DOMAIN f.functions)
  BY DEF Symbols
<1>6. sym \in Symbols(DOMAIN f.functions) /\ home.type \in {"global", "param", "local"}
  BY <1>1, <1>2, <1>4, <1>5
<1>7. sym.kind \in Kinds /\ sym.addr \in Int /\ (sym.kind = "function" => sym.ident \in DOMAIN f.functions)
  BY <1>6 DEF Symbols
<1>8. sym.kind = "function" => x \in DOMAIN f.functions /\ ParamCount(f.functions[x]) \in Nat
  <2> SUFFICES ASSUME sym.kind = "function"
               PROVE  x \in DOMAIN f.functions /\ ParamCount(f.functions[x]) \in Nat
    OBVIOUS
  <2>1. x \in DOMAIN f.functions
    BY <1>1, <1>7
  <2>2. f.functions[x].parameters \in Grown("param", {})
    BY <2>1 DEF InTables, IsFunctionST
  <2> QED  BY <2>1, <2>2 DEF Grown, ParamCount
<1> QED  BY <1>1, <1>6, <1>7, <1>8
=============================================================================
