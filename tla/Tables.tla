------------------------------- MODULE Tables -------------------------------
(***************************************************************************)
(* src/symbolTable.c, the part that both the construction of the tables    *)
(* and the code generator work with: symbols, tables, and _ST_add, which   *)
(* refuses a name the table holds already and gives an address to any      *)
(* other:                                                                  *)
(*   - a global variable, an offset in the block `globals' of section bss; *)
(*   - one of the first NbRegs parameters, which the callee copies to its  *)
(*     frame, and a local variable, a negative offset from rbp;            *)
(*   - any other parameter, the place above rbp where the caller left it.  *)
(*                                                                         *)
(* A table's list is a set here: ArrayList shows that a sorted list is one.*)
(* Sizes are those of the code.  An `int' holds -IntMax-1 .. IntMax; the   *)
(* size_t counters are integers, of which the code only ever uses the      *)
(* value modulo the width of an int.                                       *)
(***************************************************************************)
EXTENDS Integers, Sequences

CONSTANTS NbRegs,  \* parameters passed in registers: 6
          IntMax,  \* INT_MAX
          FullAt   \* <<type, length>> of the lists that fail to grow, if any

ASSUME NbRegsAssumption == NbRegs \in Nat
ASSUME IntMaxAssumption == IntMax \in Nat /\ IntMax >= 31

\* Conversion to int: the value modulo 2 * (IntMax + 1).
ToInt(n) == IF -IntMax - 1 <= n /\ n <= IntMax THEN n
            ELSE ((n + IntMax + 1) % (2 * (IntMax + 1))) - IntMax - 1

WordSize == 8          \* _get_type_size of char and of int
FirstStackParam == 16  \* above the saved rbp and the return address

Kinds == {"value", "array", "function"}

\* The symbol that the declaration of x makes, before the table places it.
Value(x) == [ident |-> x, kind |-> "value", length |-> 1,
             size |-> WordSize, addr |-> 0, index |-> 0]
Array(x, n) == [ident |-> x, kind |-> "array", length |-> n,
                size |-> ToInt(n * WordSize), addr |-> 0, index |-> 0]
\* A parameter that is an array is passed by its address.
ArrayParam(x) == [ident |-> x, kind |-> "array", length |-> 1,
                  size |-> WordSize, addr |-> 0, index |-> 0]
Function(x, size) == [ident |-> x, kind |-> "function", length |-> 1,
                      size |-> size, addr |-> 0, index |-> 0]

\* Mistake: the type of the table is not set after _ST_init.
TableUntyped(type) == [type |-> "none", symbols |-> {}, len |-> 0,
                       next_addr |-> 0, next_addr_param |-> FirstStackParam]
\* _ST_init
Table(type) == [type |-> type, symbols |-> {}, len |-> 0,
                next_addr |-> 0, next_addr_param |-> FirstStackParam]

\* _FunctionST_init
NewFunction(x) == [ident |-> x, parameters |-> Table("param"), locals |-> Table("local")]
-----------------------------------------------------------------------------
(* _ST_add                                                                 *)

Declared(t, x) == \E s \in t.symbols : s.ident = x
Names(t) == {s.ident : s \in t.symbols}

\* Mistake: one register too many.
OnCallerStackLate(t) == t.type = "param" /\ ~(t.len <= NbRegs)
\* A parameter that no register is left for.
OnCallerStack(t) == t.type = "param" /\ ~(t.len < NbRegs)

\* Mistake: the frame address of the end of the symbol, not of its start.
AddressOfEnd(t, size) == IF OnCallerStack(t) THEN t.next_addr_param
                         ELSE IF t.type = "global" THEN ToInt(t.next_addr)
                         ELSE ToInt(-t.next_addr)
\* The address of the next symbol, of `size' bytes.
Address(t, size) == IF OnCallerStack(t) THEN t.next_addr_param
                    ELSE IF t.type = "global" THEN ToInt(t.next_addr)
                    ELSE ToInt(-t.next_addr - size)

\* Mistake: next_addr only moves for what lies in a frame.
NextAddrOfFrame(t, size) ==
    IF OnCallerStack(t) \/ t.type = "global" THEN t.next_addr ELSE t.next_addr + size
NextAddr(t, size) == IF OnCallerStack(t) THEN t.next_addr ELSE t.next_addr + size
NextAddrParam(t, size) ==
    IF OnCallerStack(t) THEN ToInt(t.next_addr_param + size) ELSE t.next_addr_param

Place(t, s) == [ident |-> s.ident, kind |-> s.kind, length |-> s.length, size |-> s.size,
                addr |-> Address(t, s.size), index |-> t.len]

\* The symbols that are stored: the list may be full, memory may be short, and
\* the result of ArrayList_sorted_insert is not looked at.
Stored(t, s) == {t.symbols \cup {Place(t, s)}}
                  \cup (IF <<t.type, t.len>> \in FullAt THEN {t.symbols} ELSE {})

Moved(t, s, symbols) ==
    [type |-> t.type, symbols |-> symbols,
     len |-> IF symbols = t.symbols THEN t.len ELSE t.len + 1,
     next_addr |-> NextAddr(t, s.size),
     next_addr_param |-> NextAddrParam(t, s.size)]

\* The tables that adding s to t may give, and the error it reports.
Add(t, s) == IF Declared(t, s.ident) THEN {t}
             ELSE {Moved(t, s, symbols) : symbols \in Stored(t, s)}
\* Mistake: what _ST_add returns is dropped.
AddErrorDropped(t, s) == {}
AddError(t, s) == IF Declared(t, s.ident) THEN {"redeclared"} ELSE {}
-----------------------------------------------------------------------------
\* putchar(character), putint(number), getchar(), getint(): the size of the
\* symbol of a function is that of what it returns.
Builtins ==
    << [ident |-> "putchar", params |-> {"character"}, type |-> "void", size |-> 0],
       [ident |-> "putint", params |-> {"number"}, type |-> "void", size |-> 0],
       [ident |-> "getchar", params |-> {}, type |-> "byte", size |-> WordSize],
       [ident |-> "getint", params |-> {}, type |-> "num", size |-> WordSize] >>
-----------------------------------------------------------------------------
(* What the rest of the compiler asks of the tables                        *)

\* ST_get
Get(t, x) == CHOOSE s \in t.symbols : s.ident = x

\* ST_resolve with the globals g: the table of the local variables if it holds
\* the name, else that of the parameters, else the globals.
ScopeIn(g, f, x) == IF Declared(f.locals, x) THEN f.locals
                    ELSE IF Declared(f.parameters, x) THEN f.parameters
                    ELSE g
=============================================================================
