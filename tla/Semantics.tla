------------------------------ MODULE Semantics ------------------------------
(***************************************************************************)
(* What a TPC program means, told without registers, stack or addresses:   *)
(* the abstract specification of the code that CodeGen writes.             *)
(*                                                                         *)
(* A program is the tree and the declarations of CodeGen.  A run is        *)
(*   [word, base, used, in, out, state, value]:                            *)
(* word maps <<owner, x, k>> to the k-th word of variable x of the call    *)
(* `owner' (0 for the globals), base maps <<owner, x>> to the <<owner, y>> *)
(* of the array y that the array parameter x stands for, used is the       *)
(* number of calls made.  state is "run", or why no more is executed:      *)
(* "return", "fault" (a quotient that is no word), "undefined" (a word     *)
(* read before it was written).                                            *)
(*                                                                         *)
(* The operands of an operator are evaluated from left to right, and/or    *)
(* only as far as needed, arguments from right to left, and the value of   *)
(* an assignment before the place it goes to: the order of treeReader.c,   *)
(* which C leaves open except for and/or.                                  *)
(***************************************************************************)
EXTENDS Words, Sequences
LOCAL INSTANCE TLC

Declares(symbols, x) == \E i \in DOMAIN symbols : symbols[i].ident = x
Declaration(symbols, x) == symbols[CHOOSE i \in DOMAIN symbols : symbols[i].ident = x]

\* A call in progress is [prog, decl, id].
Own(c, x) == Declares(c.decl.params, x) \/ Declares(c.decl.locals, x)
Owner(c, x) == IF Own(c, x) THEN c.id ELSE 0
IsArray(c, x) ==
    IF Own(c, x) THEN Declaration(c.decl.params \o c.decl.locals, x).kind = "array"
    ELSE Declares(c.prog.globals, x) /\ Declaration(c.prog.globals, x).kind = "array"

\* The array that x names.
Base(c, x, s) == IF <<Owner(c, x), x>> \in DOMAIN s.base THEN s.base[<<Owner(c, x), x>>]
                 ELSE <<Owner(c, x), x>>
WordAt(c, x, k, s) == IF IsArray(c, x) THEN Append(Base(c, x, s), k) ELSE <<Owner(c, x), x, k>>

Read(place, s) == IF place \in DOMAIN s.word THEN [s EXCEPT !.value = s.word[place]]
                  ELSE [s EXCEPT !.state = "undefined"]
Written(place, v, s) == [s EXCEPT !.word = (place :> v) @@ @]

Arith(op, v, w) == CASE op = "+" -> Wrap(v + w) [] op = "-" -> Wrap(v - w) [] op = "*" -> Wrap(v * w)
                     [] op = "/" -> Quotient(v, w) [] op = "%" -> Remainder(v, w)
Compared(op, v, w) == CASE op = "==" -> v = w [] op = "!=" -> v # w [] op = "<" -> v < w
                        [] op = "<=" -> v <= w [] op = ">" -> v > w [] op = ">=" -> v >= w

\* There is no quotient by 0, and none of the least word by -1.
NoQuotient(v, w) == w = 0 \/ Quotient(v, w) \notin Word

RECURSIVE EvalArguments(_, _, _), CallOf(_, _, _), Eval(_, _, _), Run(_, _, _)

EvalTwo(c, e, s, Combine(_, _, _)) ==
    LET left == Eval(c, e.child[1], s)
        right == Eval(c, e.child[2], left)
    IN IF right.state # "run" THEN right ELSE Combine(left.value, right.value, right)

EvalArith(op, v, w, s) ==
    IF op \in {"/", "%"} /\ NoQuotient(v, w) THEN [s EXCEPT !.state = "fault"]
    ELSE [s EXCEPT !.value = Arith(op, v, w)]

EvalUnary(c, e, s) ==
    LET t == Eval(c, e.child[1], s)
    IN IF t.state # "run" THEN t
       ELSE [t EXCEPT !.value = CASE e.label = "Not" -> Truth(@ = 0)
                                  [] e.label = "AddsubU" -> Arith(e.ident, 0, @)]

EvalBool(c, e, s) ==
    LET left == Eval(c, e.child[1], s)
        decided == left.value # 0 <=> e.label = "Or"
        right == IF left.state # "run" \/ decided THEN left ELSE Eval(c, e.child[2], left)
    IN [right EXCEPT !.value = Truth(@ # 0)]

\* The arguments, the last one first: each is a word, or the array it stands for.
EvalArguments(c, args, s) ==
    IF args = <<>> THEN [run |-> s, args |-> <<>>]
    ELSE LET later == EvalArguments(c, Tail(args), s)
             a == Head(args)
             array == a.label = "Ident" /\ a.child = <<>> /\ IsArray(c, a.ident)
             t == IF array THEN later.run ELSE Eval(c, a, later.run)
         IN [run |-> t, args |-> <<IF array THEN Base(c, a.ident, t) ELSE t.value>> \o later.args]

Builtin(x, args, s) ==
    CASE x = "putint" -> [s EXCEPT !.out = Append(@, <<x, args[1]>>)]
      [] x = "putchar" -> [s EXCEPT !.out = Append(@, <<x, args[1] % 256>>)]
      [] x \in {"getint", "getchar"} ->
             [s EXCEPT !.in = IF @ = <<>> THEN @ ELSE Tail(@),
                       !.value = IF s.in = <<>> THEN 0 ELSE Head(s.in)]

Entered(d, args, s) ==
    LET id == s.used + 1
        arrays == {i \in DOMAIN args : d.params[i].kind = "array"}
        base == [p \in {<<id, d.params[i].ident>> : i \in arrays} |->
                    args[CHOOSE i \in arrays : d.params[i].ident = p[2]]]
        word == [p \in {<<id, d.params[i].ident, 0>> : i \in DOMAIN args \ arrays} |->
                    args[CHOOSE i \in DOMAIN args : d.params[i].ident = p[2]]]
    IN [s EXCEPT !.used = id, !.base = base @@ @, !.word = word @@ @]

CallOf(c, e, s) ==
    LET x == e.ident
        a == EvalArguments(c, IF e.child[1].label = "EmptyArgs" THEN <<>> ELSE e.child[1].child, s)
        d == Declaration(c.prog.functions, x)
        t == Run([prog |-> c.prog, decl |-> d, id |-> a.run.used + 1], d.body,
                 Entered(d, a.args, a.run))
    IN IF a.run.state # "run" THEN a.run
       ELSE IF ~Declares(c.prog.functions, x) THEN Builtin(x, a.args, a.run)
       ELSE IF t.state = "return" THEN [t EXCEPT !.state = "run"]
       ELSE IF t.state = "run" /\ d.type # "void" THEN [t EXCEPT !.state = "undefined"]
       ELSE t

\* The run s with the value of e.
Eval(c, e, s) ==
    IF s.state # "run" THEN s
    ELSE CASE e.label \in {"AddsubU", "Not"} -> EvalUnary(c, e, s)
           [] e.label \in {"And", "Or"} -> EvalBool(c, e, s)
           [] e.label \in {"Addsub", "Divstar"} ->
                  EvalTwo(c, e, s, LAMBDA v, w, t : EvalArith(e.ident, v, w, t))
           [] e.label \in {"Eq", "Order"} ->
                  EvalTwo(c, e, s, LAMBDA v, w, t : [t EXCEPT !.value = Truth(Compared(e.ident, v, w))])
           [] e.label \in {"Num", "Character"} -> [s EXCEPT !.value = e.num]
           [] e.label = "Ident" /\ e.child = <<>> -> Read(WordAt(c, e.ident, 0, s), s)
           [] e.label = "Ident" /\ e.child # <<>> -> CallOf(c, e, s)
           [] e.label = "ArrayLR" ->
                  LET t == Eval(c, e.child[1], s)
                  IN IF t.state # "run" THEN t ELSE Read(WordAt(c, e.ident, t.value, t), t)

Assigned(c, i, s) ==
    LET v == Eval(c, i.child[2], s)
        to == i.child[1]
        k == IF to.label = "ArrayLR" THEN Eval(c, to.child[1], v) ELSE [v EXCEPT !.value = 0]
    IN IF k.state # "run" THEN k ELSE Written(WordAt(c, to.ident, k.value, k), v.value, k)

Looped(c, i, s) ==
    LET t == Eval(c, i.child[1], s)
    IN IF t.state # "run" \/ t.value = 0 THEN t ELSE Run(c, i, Run(c, i.child[2], t))

Chosen(c, i, s) ==
    LET t == Eval(c, i.child[1], s)
    IN IF t.state # "run" THEN t
       ELSE IF t.value # 0 THEN Run(c, i.child[2], t)
       ELSE IF Len(i.child) = 3 THEN Run(c, i.child[3], t) ELSE t

Returned(c, i, s) ==
    LET t == IF i.child = <<>> THEN s ELSE Eval(c, i.child[1], s)
    IN IF t.state = "run" THEN [t EXCEPT !.state = "return"] ELSE t

\* The run s after instruction i.
Run(c, i, s) ==
    IF s.state # "run" THEN s
    ELSE CASE i.label = "Return" -> Returned(c, i, s)
           [] i.label = "Ident" -> CallOf(c, i, s)
           [] i.label = "Assignation" -> Assigned(c, i, s)
           [] i.label = "If" -> Chosen(c, i, s)
           [] i.label = "While" -> Looped(c, i, s)
           [] i.label = "EmptyInstr" -> s
           [] i.label = "SuiteInstr" ->
                  LET after[k \in 0 .. Len(i.child)] ==
                          IF k = 0 THEN s ELSE Run(c, i.child[k], after[k - 1])
                  IN after[Len(i.child)]

\* The run of a program on an input.  Global variables start at 0.
Meaning(prog, input) ==
    LET zero == UNION {{<<0, prog.globals[i].ident, k>> : k \in 0 .. prog.globals[i].length - 1} :
                          i \in DOMAIN prog.globals}
        s == [word |-> [p \in zero |-> 0], base |-> <<>>, used |-> 0,
              in |-> input, out |-> <<>>, state |-> "run", value |-> 0]
        main == [label |-> "Ident", ident |-> "main", child |-> <<[label |-> "EmptyArgs"]>>]
    IN CallOf([prog |-> prog, decl |-> Declaration(prog.functions, "main"), id |-> 0], main, s)
=============================================================================
