------------------------------ MODULE MCMachine ------------------------------
(***************************************************************************)
(* Small programs for Machine, built with the operators of Syntax;         *)
(* families of them are sets.                                              *)
(***************************************************************************)
EXTENDS Agreement, Syntax

NothingLost == {}
\* A number, a character, and the end of the input.
OneInput == {<<-3, 72>>}
TwoFills == {0, -77}
-----------------------------------------------------------------------------
(* Expressions: each operator on operands of every kind and sign, then     *)
(* operators over operators, the and/or over operands that are seen.       *)

Ops == {"+", "-", "*", "/", "%", "==", "!=", "<", "<=", ">", ">=", "&&", "||"}
BoolOps == {"&&", "||"}

\* g = -7 is global, x = 3 local, t[1] = 2.
Atoms == {Num(0), Num(2), Neg(Num(1)), Var("g"), Var("x"), At("t", Num(1)), Ask("getint")}
Simple == {Binary(op, d, e) : op \in Ops, d \in Atoms, e \in Atoms}

\* show(n) writes n and answers it: it tells whether an operand was evaluated.
Shown == {Do("show", <<Num(n)>>) : n \in {0, 5}}
Logic1 == {Binary(op, d, e) : op \in BoolOps, d \in Shown, e \in Shown}
Logic2 == {Binary(op, d, e) : op \in BoolOps, d \in Logic1, e \in Shown}
          \cup {Binary(op, d, No(e)) : op \in BoolOps, d \in Shown, e \in Logic1}

\* Operators of several kinds, one inside the other; words that overflow; an
\* index far out of its array.
Least == Binary("+", Num(WordMax), Num(1))
Deep == { Binary("-", Binary("-", Var("g"), Var("x")), Binary("-", Var("x"), At("t", Num(1)))),
          Binary("%", Binary("*", Var("g"), Var("g")), Binary("/", Var("g"), Num(2))),
          No(Binary("<", Neg(Var("g")), Plus(Binary("==", Var("x"), Num(3))))),
          Binary("+", Char(65), At("t", Binary("<", Var("x"), Num(4)))),
          At("t", At("t", Num(0))),
          At("u", Binary("-", At("t", Num(1)), At("u", Num(1)))),
          Least, Neg(Least), Binary("/", Least, Neg(Num(1))), Binary("%", Least, Neg(Num(1))),
          Binary("*", Num(20000), Num(3)), At("u", Num(500)) }

Show == Fun("num", "show", <<Value("n")>>, <<>>, <<Do("putint", <<Var("n")>>), Back(Var("n"))>>)

Evaluate(e) ==
    Source(<<Value("g"), Array("u", 3)>>,
           <<Show, Main(<<Value("x"), Array("t", 2)>>,
                        << Give(Var("g"), Neg(Num(7))), Give(Var("x"), Num(3)),
                           Give(At("t", Num(0)), Num(1)), Give(At("t", Num(1)), Num(2)),
                           Give(Var("g"), e), Back(Var("g")) >>)>>)

ExpressionPrograms == {Evaluate(e) : e \in Simple \cup Logic1 \cup Logic2 \cup Deep}
-----------------------------------------------------------------------------
(* Instructions: conditions and loops inside one another, with and without *)
(* blocks, left by a return or to the end.                                 *)

Say(x) == Do("putint", <<Var(x)>>)
Incr(x) == Give(Var(x), Binary("+", Var(x), Num(1)))

Leaves == {Say("n"), Incr("n"), Nothing, Back(Num(7))}
Conds == {Var("n"), Binary("==", Var("i"), Num(1)), Binary("&&", Var("i"), No(Var("n")))}

\* Two rounds, or fewer when the loop contains a loop: they share their counter.
Rounds(i) == Loop(Binary("<", Var("i"), Num(2)), Block(<<Incr("i"), i>>))

Around(some) == {Cond(e, i) : e \in Conds, i \in some}
                \cup {Either(e, i, Say("n")) : e \in Conds, i \in some}
                \cup {Either(e, Incr("n"), Block(<<i>>)) : e \in Conds, i \in some}
                \cup {Rounds(i) : i \in some}
Depth1 == Around(Leaves)
Depth2 == Around(Depth1)

Execute(i) ==
    Source(<<Value("n")>>,
           <<Main(<<Value("i")>>, <<Give(Var("i"), Num(0)), i, Say("n"), Back(Var("i"))>>)>>)

InstructionPrograms == {Execute(i) : i \in Leaves \cup Depth1 \cup Depth2}
-----------------------------------------------------------------------------
(* Calls: from no argument to two that no register is left for, inside     *)
(* operands, arguments and loops; recursion; arrays by their address.      *)

Arg(i) == <<"a1", "a2", "a3", "a4", "a5", "a6", "a7", "a8">>[i]
Args(n) == <<>> \o [i \in 1 .. n |-> Value(Arg(i))]

\* f answers a number that tells its parameters apart, and changes the last one.
Digits(n) == LET digits[i \in 0 .. n] == IF i = 0 THEN Num(1)
                                         ELSE Binary("+", Binary("*", digits[i - 1], Num(3)), Var(Arg(i)))
             IN digits[n]
Weigh(n) == Fun("num", "f", Args(n), <<Value("z")>>,
    <<Give(Var("z"), Digits(n))>>
    \o (IF n = 0 THEN <<>>
        ELSE <<Incr(Arg(n)), Give(Var("z"), Binary("-", Var("z"), Var(Arg(n))))>>)
    \o <<Back(Var("z"))>>)

\* r(k, a2 .. an): k calls, each with the parameters turned by one place.
Turn(n) == Fun("num", "r", Args(n), <<>>,
    << Cond(No(Var("a1")), Back(Var(Arg(n)))),
       Back(Do("r", <<Binary("-", Var("a1"), Num(1)), Var(Arg(n))>>
                    \o [i \in 1 .. n - 2 |-> Var(Arg(i + 1))])) >>)

Shows(n) == <<>> \o [i \in 1 .. n |-> Do("show", <<Num(i)>>)]
Numbers(n) == <<>> \o [i \in 1 .. n |-> Num(i)]
Asking(args) == IF args = <<>> THEN Ask("f") ELSE Do("f", args)
Nested(n) == IF n = 0 THEN Ask("f")
             ELSE Do("f", [Numbers(n) EXCEPT ![n] = Do("f", [Shows(n) EXCEPT ![1] = Var("x")])])

Calling(n, s) ==
    Source(<<Value("g")>>,
           <<Show, Weigh(n), Main(<<Value("x"), Value("i")>>,
                                  <<Give(Var("x"), Num(4)), Give(Var("i"), Num(0))>> \o s)>>)

OfArity(n) ==
  { Calling(n, <<Give(Var("g"), Asking(Shows(n))), Back(Var("g"))>>),
    Calling(n, <<Back(Binary("-", Var("x"), Binary("*", Asking(Numbers(n)), Var("x"))))>>),
    Calling(n, << Loop(Binary("<", Var("i"), Num(2)), Block(<<Incr("i"), Asking(Shows(n))>>)),
                  Back(Var("x")) >>),
    Calling(n, <<Back(Nested(n))>>) }

Turning(n) == Source(<<>>, <<Turn(n), Main(<<>>, <<Back(Do("r", Numbers(n)))>>)>>)

\* The arrays of main, of the program, and of a function that only knows their
\* address; t is the first parameter, the second or the eighth.
Fill(n) == Fun("void", "fill", Append(Args(n), ArrayParam("t")), <<Array("l", 2)>>,
    << Give(At("l", Num(1)), Num(8)),
       Cond(Binary("==", At("t", Num(1)), Num(9)), BackVoid),
       Give(At("t", Num(1)), Num(9)), Give(At("t", Num(0)), At("l", At("t", Num(0)))) >>)
PassOn(n) == Fun("void", "pass", <<ArrayParam("t")>>, <<Value("l")>>,
    << Give(Var("l"), Num(5)), Do("fill", Append(Numbers(n), Var("t"))),
       Do("putint", <<Var("l")>>), Do("fill", Append(Numbers(n), Var("t"))) >>)
Passing(n, t) ==
    Source(<<Value("g"), Array("u", 2), Value("h")>>,
           <<Fill(n), PassOn(n), Main(<<Value("x"), Array("m", 2), Value("y")>>,
        << Give(Var("g"), Num(1)), Give(Var("h"), Num(2)), Give(Var("x"), Num(3)), Give(Var("y"), Num(4)),
           Give(At(t, Num(0)), Num(1)), Give(At(t, Num(1)), Num(0)),
           Do("pass", <<Var(t)>>),
           Back(Binary("+", Binary("*", At(t, Num(0)), Var("x")), Binary("-", At(t, Num(1)), Var("y")))) >>)>>)

\* Names that hide others, and mutual recursion.
Parity == Source(<<Value("g"), Value("n")>>,
    << Main(<<>>, <<Give(Var("n"), Num(3)), Do("report", <<Do("odd", <<Var("n")>>)>>), Back(Var("g"))>>),
       Fun("num", "odd", <<Value("n")>>, <<Value("g")>>,
           << Give(Var("g"), Num(1)), Cond(No(Var("n")), Back(Num(0))),
              Back(Do("even", <<Binary("-", Var("n"), Var("g"))>>)) >>),
       Fun("num", "even", <<Value("n")>>, <<>>,
           << Incr("g"),
              Either(Var("n"), Back(Do("odd", <<Binary("-", Var("n"), Num(1))>>)), Back(Num(1))) >>),
       Fun("void", "report", <<Value("n")>>, <<>>, <<Say("n")>>) >>)

Fibonacci == Source(<<>>,
    << Fun("num", "fib", <<Value("n")>>, <<>>,
           << Cond(Binary("<=", Var("n"), Num(1)), Back(Var("n"))),
              Back(Binary("+", Do("fib", <<Binary("-", Var("n"), Num(1))>>),
                               Do("fib", <<Binary("-", Var("n"), Num(2))>>))) >>),
       Main(<<>>, <<Back(Do("fib", <<Num(5)>>))>>) >>)

\* A division that has no result, two calls deep.
Inverses == Source(<<Value("g")>>,
    << Fun("num", "inv", <<Value("n")>>, <<>>,
           <<Do("putint", <<Var("n")>>), Back(Binary("%", Num(7), Var("n")))>>),
       Main(<<>>, << Give(Var("g"), Do("inv", <<Do("inv", <<Do("inv", <<Num(4)>>)>>)>>)),
                     Back(Var("g")) >>) >>)

\* The input, copied to its end.
Copy == Source(<<>>,
    << Main(<<Value("c")>>,
            << Give(Var("c"), Ask("getchar")),
               Loop(Var("c"), Block(<<Do("putchar", <<Var("c")>>), Give(Var("c"), Ask("getchar"))>>)),
               Back(Var("c")) >>) >>)

CallPrograms == UNION {OfArity(n) : n \in 0 .. 8} \cup {Turning(n) : n \in 2 .. 8}
                \cup {Passing(n, t) : n \in {0, 1, 7}, t \in {"u", "m"}}
                \cup {Parity, Fibonacci, Inverses, Copy}

AllPrograms == ExpressionPrograms \cup InstructionPrograms \cup CallPrograms
=============================================================================
