------------------------------- MODULE CodeGen -------------------------------
(***************************************************************************)
(* src/treeReader.c and src/codeWriter.c: the assembly text of a program.  *)
(*                                                                         *)
(* The text is a sequence of instructions, written front to back.  `out'   *)
(* holds the counters of the generator where it writes: out.cmp is         *)
(* GLOBAL_CMP, out.bool the static counter of _CodeWriter_get_bool_label;  *)
(* a piece [text, cmp, bool] is what it writes, and the counters then.     *)
(***************************************************************************)
EXTENDS Program

-----------------------------------------------------------------------------
(* Operands, instructions, labels                                          *)

Reg(r) == <<"reg", r>>
Imm(n) == <<"imm", n>>
Mem(base, disp) == <<"mem", base, disp>>  \* the word at [base + disp]
Static(disp) == <<"static", disp>>        \* the address global_vars + disp

Push(x) == <<"push", x>>
Pop(x) == <<"pop", x>>
Mov(x, y) == <<"mov", x, y>>
Lea(r, x) == <<"lea", Reg(r), x>>
Compute(op, r, x) == <<op, Reg(r), x>>    \* add, sub, imul
Compare(r, x) == <<"cmp", Reg(r), x>>
Jump(cond, label) == <<cond, label>>      \* jmp, je, jne, jl, jle, jg, jge
Label(label) == <<"label", label>>

\* nasm binds a label that starts with a dot to the label of the function.
FunctionLabel(x) == <<x, "", 0>>
Local(f, name, n) == <<f.func.ident, name, n>>

\* The six of Register_param_to_reg, of which NbRegs are used.
ParamReg == <<"rdi", "rsi", "rdx", "rcx", "r8", "r9">>
ASSUME RegistersAssumption == NbRegs <= Len(ParamReg)
InRegisters(fst) == IF ParamCount(fst) < NbRegs THEN ParamCount(fst) ELSE NbRegs

\* A piece of text, and the counters behind it.
Counters == [cmp : Nat, bool : Nat]
Write(text, out) == [text |-> text, cmp |-> out.cmp, bool |-> out.bool]
Behind(r) == [cmp |-> r.cmp, bool |-> r.bool]
Emit(r, text) == [r EXCEPT !.text = @ \o text]
\* r, then s, that was written with the counters behind r.
Then(r, s) == [s EXCEPT !.text = r.text \o @]
\* r, then what X[n, out] writes for n.
Followed(r, X, n) == Then(r, X[n, Behind(r)])
\* The members of a list, one after the other.
Each(X, list, out) ==
    LET after[k \in 0 .. Len(list)] ==
            IF k = 0 THEN Write(<<>>, out) ELSE Followed(after[k - 1], X, list[k])
    IN after[Len(list)]
-----------------------------------------------------------------------------
(* Expressions: the code of each one leaves its value on top of the stack.  *)
(* E[e, out] is what an expression lower than the one at hand becomes.      *)

\* _CodeWriter_BooleanAnd and _CodeWriter_BooleanOr: the second operand is not
\* evaluated when the first one tells the result.
OpeBool(f, E, e, out) ==
    LET and == e.label = "And"
        n == out.bool
        shortcut == Local(f, IF and THEN "bool_false" ELSE "bool_true", n)
        end == Local(f, "bool_end", n)
        test == <<Pop(Reg("rax")), Compare("rax", Imm(0)),
                  Jump(IF and THEN "je" ELSE "jne", shortcut)>>
        left == Emit(E[e.child[1], [out EXCEPT !.bool = n + 1]], test)
        right == Emit(Followed(left, E, e.child[2]), test)
    IN Emit(right,
            <<Push(Imm(IF and THEN 1 ELSE 0)), Jump("jmp", end), Label(shortcut),
              Push(Imm(IF and THEN 0 ELSE 1)), Label(end)>>)

\* sete sets the low byte of rax, movzx clears the others.
Not == <<Pop(Reg("rdi")), Compare("rdi", Imm(0)), <<"sete">>, <<"movzx">>, Push(Reg("rax"))>>

\* The right operand is on top.
Operands == <<Pop(Reg("rcx")), Pop(Reg("rax"))>>
ArithInstr(op) == CASE op = "+" -> "add" [] op = "-" -> "sub" [] op = "*" -> "imul"

OpeArith(op) ==
    IF op \in {"/", "%"}
    THEN <<Mov(Reg("rdx"), Imm(0))>> \o Operands \o
         <<<<"cqo">>, <<"idiv", Reg("rcx")>>, Push(Reg(IF op = "/" THEN "rax" ELSE "rdx"))>>
    ELSE Operands \o <<Compute(ArithInstr(op), "rax", Reg("rcx")), Push(Reg("rax"))>>

OpeUnaire(op) == IF op = "-" THEN <<Pop(Reg("rax")), <<"neg", Reg("rax")>>, Push(Reg("rax"))>>
                 ELSE <<>>

Jcc(op) == CASE op = "==" -> "je" [] op = "!=" -> "jne"
             [] op = "<" -> "jl" [] op = "<=" -> "jle" [] op = ">" -> "jg" [] op = ">=" -> "jge"

Cmp(f, op, n) ==
    LET true == Local(f, "cmp", n)
        end == Local(f, "cmp_end", n)
    IN <<Pop(Reg("rax")), Pop(Reg("rcx")), Compare("rcx", Reg("rax")), Jump(Jcc(op), true),
         Push(Imm(0)), Jump("jmp", end), Label(true),
         Push(Imm(1)), Jump("jmp", end), Label(end)>>
-----------------------------------------------------------------------------
(* Variables                                                               *)

\* The word of a variable that is no array.
Cell(f, x) == Mem(IF Home(f, x).type = "global" THEN "global_vars" ELSE "rbp", Symbol(f, x).addr)

\* The address of an array, in rdx; a parameter holds it.
ArrayAddress(f, x) ==
    LET home == Home(f, x).type
        addr == Symbol(f, x).addr
    IN CASE home = "global" -> <<Mov(Reg("rdx"), Static(addr))>>
         [] home = "param"  -> <<Push(Mem("rbp", addr)), Pop(Reg("rdx"))>>
         [] home = "local"  -> <<Lea("rdx", Mem("rbp", addr))>>

\* The address of x[e] on the stack: the index first, for it may use rdx.
ElementAddress(f, E, e, out) ==
    Emit(E[e.child[1], out],
         <<Pop(Reg("rax"))>> \o ArrayAddress(f, e.ident) \o
         <<Lea("rax", <<"index", "rdx", "rax", WordSize>>), Push(Reg("rax"))>>)

LoadArray(f, E, e, out) ==
    Emit(ElementAddress(f, E, e, out), <<Pop(Reg("rax")), Push(Mem("rax", 0))>>)

\* What is to be written lies below the address of the element.
WriteVar(f, E, e, out) ==
    IF e.label = "ArrayLR"
    THEN Emit(ElementAddress(f, E, e, out), <<Pop(Reg("rax")), Pop(Mem("rax", 0))>>)
    ELSE Write(<<Pop(Reg("rax")), Mov(Cell(f, e.ident), Reg("rax"))>>, out)
-----------------------------------------------------------------------------
(* Calls                                                                   *)

\* Mistake: the first argument goes first on the stack.
ArgumentsInOrder(E, args, out) == Each(E, args, out)
\* The arguments, the last one first, each one on the stack.
Arguments(E, args, out) == Each(E, [i \in 1 .. Len(args) |-> args[Len(args) + 1 - i]], out)

\* Mistake: every argument is expected to have gone into a register.
DropArgumentsNone(callee) == <<>>
\* The arguments that went into no register are taken off after the call.
DropArguments(callee) ==
    IF ParamCount(callee) > NbRegs
    THEN <<Compute("add", "rsp", Imm((ParamCount(callee) - NbRegs) * WordSize))>>
    ELSE <<>>

Call(f, E, e, out) ==
    LET callee == f.functions[e.ident]
        pops == [i \in 1 .. InRegisters(callee) |-> Pop(Reg(ParamReg[i]))]
        ready == IF e.child[1].label = "EmptyArgs" THEN Write(<<>>, out)
                 ELSE Emit(Arguments(E, e.child[1].child, out), pops)
    IN Emit(ready, <<<<"call", FunctionLabel(e.ident)>>>> \o DropArguments(callee))

LoadVar(f, E, e, out) ==
    LET kind == Symbol(f, e.ident).kind
    IN CASE kind = "function" -> Emit(Call(f, E, e, out), <<Push(Reg("rax"))>>)
         [] kind = "value" -> Write(<<Push(Cell(f, e.ident))>>, out)
         [] kind = "array" /\ e.child = <<>> ->
                Write(ArrayAddress(f, e.ident) \o <<Push(Reg("rdx"))>>, out)
         [] kind = "array" /\ e.child # <<>> -> LoadArray(f, E, e, out)

\* Both operands, the first one below.
TwoOperands(E, e, out) == Followed(E[e.child[1], out], E, e.child[2])

\* TreeReader_Expr
ExprOver(f, E, e, out) ==
    CASE e.label = "AddsubU" -> Emit(E[e.child[1], out], OpeUnaire(e.ident))
      [] e.label \in {"Or", "And"} -> OpeBool(f, E, e, out)
      [] e.label = "Not" -> Emit(E[e.child[1], out], Not)
      [] e.label \in {"Addsub", "Divstar"} -> Emit(TwoOperands(E, e, out), OpeArith(e.ident))
      [] e.label \in {"Ident", "ArrayLR"} -> LoadVar(f, E, e, out)
      [] e.label \in {"Num", "Character"} -> Write(<<Push(Imm(e.num))>>, out)
      [] e.label \in {"Eq", "Order"} ->
             LET operands == TwoOperands(E, e, out)
             IN Emit([operands EXCEPT !.cmp = @ + 1], Cmp(f, e.ident, operands.cmp))

ExprUpTo(f) ==
    LET exps == ExpsUpTo(AnyScope)
        upTo[h \in 0 .. Height] == [x \in exps[h] \X Counters |-> ExprOver(f, upTo[h - 1], x[1], x[2])]
    IN upTo
Expr(f) == ExprUpTo(f)[Height]
-----------------------------------------------------------------------------
(* Instructions.  I[i, out] is what a lower instruction becomes.            *)

\* CodeWriter_stackFrame_end
FrameEnd == <<Mov(Reg("rsp"), Reg("rbp")), Pop(Reg("rbp"))>>
Ret == <<<<"ret">>>>

\* A function that returns a value writes nothing for `return;'.
\* Mistake: the early return of a value leaves the frame where it is.
ReturnInFrame(f, i, out) ==
    IF f.func.type = "void" THEN Write(FrameEnd \o Ret, out)
    ELSE IF i.child = <<>> THEN Write(<<>>, out)
    ELSE Emit(Expr(f)[i.child[1], out], <<Pop(Reg("rax"))>> \o Ret)
Return(f, i, out) ==
    IF f.func.type = "void" THEN Write(FrameEnd \o Ret, out)
    ELSE IF i.child = <<>> THEN Write(<<>>, out)
    ELSE Emit(Expr(f)[i.child[1], out], <<Pop(Reg("rax"))>> \o FrameEnd \o Ret)

Assignation(f, i, out) ==
    LET value == Expr(f)[i.child[2], out]
    IN Then(value, WriteVar(f, Expr(f), i.child[1], Behind(value)))

Condition(label) == <<Pop(Reg("rax")), Compare("rax", Imm(0)), Jump("je", label)>>

\* Mistake: the number is read, and not taken.
IfNumberKept(f, I, i, out) ==
    LET else == Local(f, "else", out.cmp)
        end == Local(f, "end_if", out.cmp)
        cond == Emit(Expr(f)[i.child[1], out], Condition(else))
        then == Emit(I[i.child[2], Behind(cond)], <<Jump("jmp", end), Label(else)>>)
        other == IF Len(i.child) = 3 THEN I[i.child[3], Behind(then)] ELSE Write(<<>>, then)
    IN Emit(Then(cond, Then(then, other)), <<Label(end)>>)
If(f, I, i, out) ==
    LET else == Local(f, "else", out.cmp)
        end == Local(f, "end_if", out.cmp)
        cond == Emit(Expr(f)[i.child[1], [out EXCEPT !.cmp = @ + 1]], Condition(else))
        then == Emit(I[i.child[2], Behind(cond)], <<Jump("jmp", end), Label(else)>>)
        other == IF Len(i.child) = 3 THEN I[i.child[3], Behind(then)] ELSE Write(<<>>, then)
    IN Emit(Then(cond, Then(then, other)), <<Label(end)>>)

\* Mistake: a condition that does not hold goes back to the start.
WhileForever(f, I, i, out) ==
    LET start == Local(f, "while_start", out.cmp)
        end == Local(f, "end_while", out.cmp)
        init == Write(<<Label(start)>>, [out EXCEPT !.cmp = @ + 1])
        cond == Emit(Expr(f)[i.child[1], Behind(init)], Condition(start))
        body == Emit(I[i.child[2], Behind(cond)], <<Jump("jmp", start), Label(end)>>)
    IN Then(init, Then(cond, body))
While(f, I, i, out) ==
    LET start == Local(f, "while_start", out.cmp)
        end == Local(f, "end_while", out.cmp)
        init == Write(<<Label(start)>>, [out EXCEPT !.cmp = @ + 1])
        cond == Emit(Expr(f)[i.child[1], Behind(init)], Condition(end))
        body == Emit(I[i.child[2], Behind(cond)], <<Jump("jmp", start), Label(end)>>)
    IN Then(init, Then(cond, body))

\* A list of instructions.
SuiteInst(I, list, out) == Each(I, list, out)

InstrOver(f, I, i, out) ==
    CASE i.label = "Return" -> Return(f, i, out)
      [] i.label = "Ident" -> Call(f, Expr(f), i, out)
      [] i.label = "Assignation" -> Assignation(f, i, out)
      [] i.label = "If" -> If(f, I, i, out)
      [] i.label = "While" -> While(f, I, i, out)
      [] i.label = "SuiteInstr" -> SuiteInst(I, i.child, out)
      [] i.label = "EmptyInstr" -> Write(<<>>, out)

InstrUpTo(f) ==
    LET instrs == InstrsUpTo(AnyScope)
        upTo[h \in 0 .. Height] == [x \in instrs[h] \X Counters |-> InstrOver(f, upTo[h - 1], x[1], x[2])]
    IN upTo
Instr(f) == InstrUpTo(f)[Height]
-----------------------------------------------------------------------------
(* Functions and programs                                                  *)

\* Mistake: the frame has no room for the variables.
FrameStartEmpty(fst) ==
    <<Push(Reg("rbp")), Mov(Reg("rbp"), Reg("rsp"))>> \o
    [i \in 1 .. InRegisters(fst) |-> Mov(Mem("rbp", Param(fst, i - 1).addr), Reg(ParamReg[i]))]
\* CodeWriter_stackFrame_start
FrameStart(fst) ==
    <<Push(Reg("rbp")), Mov(Reg("rbp"), Reg("rsp")),
      Compute("sub", "rsp", Imm(fst.locals.next_addr))>> \o
    [i \in 1 .. InRegisters(fst) |-> Mov(Mem("rbp", Param(fst, i - 1).addr), Reg(ParamReg[i]))]

\* Mistake: a function only ends where it says return.
DeclFonctOpen(tables, d, out) ==
    LET f == Within(tables, d)
        head == Write(<<Label(FunctionLabel(d.ident))>> \o FrameStart(f.func), out)
    IN Then(head, SuiteInst(Instr(f), d.body.child, out))
\* _TreeReader_DeclFonct and _TreeReader_Corps
DeclFonct(tables, d, out) ==
    LET f == Within(tables, d)
        head == Write(<<Label(FunctionLabel(d.ident))>> \o FrameStart(f.func), out)
    IN Then(head, Emit(SuiteInst(Instr(f), d.body.child, out), FrameEnd \o Ret))

EntryPoint ==
    <<Label(FunctionLabel("_start")), <<"call", FunctionLabel("main")>>,
      Mov(Reg("rdi"), Reg("rax")), Mov(Reg("rax"), Imm(60)), <<"syscall">>>>

\* The text of a program, the bytes reserved for its global variables and their
\* table, the size of its frames; the functions of builtins.asm come after it.
Prog(prog) ==
    LET tables == ProgramTables(prog)
        defined == {prog.functions[i] : i \in DOMAIN prog.functions}
        code == [x \in defined \X Counters |-> DeclFonct(tables, x[1], x[2])]
    IN [text |-> EntryPoint \o Each(code, prog.functions, [cmp |-> 0, bool |-> 0]).text,
        bss |-> tables.globals.next_addr, globals |-> tables.globals,
        frame |-> [x \in DOMAIN tables.functions |-> tables.functions[x].locals.next_addr]]
=============================================================================
