------------------------------ MODULE MCSemantic ------------------------------
(***************************************************************************)
(* Programs for Semantic: one function h whose body varies, among          *)
(* functions and variables of every kind that it may use well or wrongly.  *)
(***************************************************************************)
EXTENDS SemanticRules, Syntax
LOCAL INSTANCE TLC

NothingLost == {}
OneLetterNames == 97 :> "a" @@ 103 :> "g"

\* int g, u[3]; char c, w[3], a[3];  void v(void); int f(int x); char e(char t[], char y);
\* h has a variable k that hides a function, late comes after h.
Types == [s \in {"", "v", "f", "e", "k", "h", "late", "main"} |->
    CASE s = "" -> [g |-> "num", u |-> "num", c |-> "byte", w |-> "byte", a |-> "byte"]
      [] s = "f" -> [x |-> "num"]
      [] s = "e" -> [t |-> "byte", y |-> "byte"]
      [] s = "h" -> [n |-> "num", p |-> "num", k |-> "num"]
      [] OTHER -> <<>>]

Typed(q) == [globals |-> q.globals, functions |-> q.functions, types |-> Types]
Globals == <<Value("g"), Value("c"), Array("u", 3), Array("w", 3), Array("a", 3)>>
V == Fun("void", "v", <<>>, <<>>, <<>>)
F == Fun("num", "f", <<Value("x")>>, <<>>, <<Back(Var("x"))>>)
E == Fun("byte", "e", <<ArrayParam("t"), Value("y")>>, <<>>, <<Back(At("t", Num(0)))>>)
K == Fun("void", "k", <<>>, <<>>, <<>>)
H(type, s) == Fun(type, "h", <<Value("n"), ArrayParam("p")>>, <<Value("k")>>, s)
Late == Fun("num", "late", <<>>, <<>>, <<Back(Num(0))>>)
Good == Main(<<>>, <<Back(Num(0))>>)

With(type, s) == Typed(Source(Globals, <<V, F, E, K, H(type, s), Late, Good>>))
-----------------------------------------------------------------------------
(* Expressions: names and calls of every kind, one operator, one index or  *)
(* one call over them, in each place that asks for a value.                *)

Atoms == { Num(1), Num(97), Char(97), Var("g"), Var("c"), Var("u"), Var("w"), Var("v"), Var("zz"),
           At("u", Num(0)), At("w", Num(0)), At("g", Num(0)), Ask("v"), Ask("k"), Ask("late"), Ask("getchar") }
FewAtoms == { Num(1), Char(97), Var("w"), Var("p"), Var("zz"), Ask("v"), Ask("w"), At("w", Var("v")) }

Over(some) ==
    {No(d) : d \in some} \cup {At(x, d) : x \in {"u", "w", "g"}, d \in some}
    \cup {Binary(op, d, e) : op \in {"+", "&&"}, d \in some, e \in {Num(1), Ask("v"), Var("zz")}}
    \cup {Do(x, <<d>>) : x \in {"f", "v", "g", "e"}, d \in some}
    \cup {Do("e", <<d, e>>) : d \in some, e \in FewAtoms}
    \cup {Do("f", <<d, e>>) : d \in FewAtoms, e \in {Num(1), Ask("k")}}

Expressions == Atoms \cup Over(Atoms)
\* Calls as operands, arguments and indices.
Nested == Over({Do("e", <<Var("w"), Ask("f")>>), Do("e", <<At("w", Var("f")), Num(1)>>), Plus(Ask("v"))})

Uses(d) == { With("num", <<Give(Var("c"), d), Back(Num(1))>>), With("byte", <<Back(d)>>) }
MoreUses(d) == Uses(d) \cup
  { With("void", <<Back(d)>>), With("num", <<Give(At("w", d), Num(1))>>),
    With("num", <<Cond(d, Back(d))>>), With("num", <<Loop(d, Nothing), Back(d)>>),
    With("void", <<Do("putchar", <<d>>), Do("putint", <<d>>), Do("late", <<d>>)>>) }

ExpressionSources == UNION {Uses(d) : d \in Expressions \cup Nested} \cup UNION {MoreUses(d) : d \in Atoms}
-----------------------------------------------------------------------------
(* Instructions: returns, targets and calls that are right or wrong, under *)
(* conditions and loops with and without blocks, three deep.               *)

Leaves == { Nothing, BackVoid, Back(Num(1)), Back(Ask("v")), Give(Var("n"), Num(1)),
            Give(Var("p"), Ask("zz")), Give(Var("f"), Num(1)), Give(At("n", Num(0)), Num(1)), Ask("v"), Ask("k") }
Wrong == {BackVoid, Ask("k"), Ask("late")}

Around(some) ==
    {Cond(Num(1), i) : i \in some} \cup {Loop(Num(1), i) : i \in some}
    \cup {Either(Num(1), i, j) : i \in some, j \in {Ask("k"), Block(<<Ask("k"), BackVoid>>)}}
    \cup {Either(Num(1), j, i) : i \in some, j \in {Ask("k"), Block(<<Ask("k"), BackVoid>>)}}
    \cup {Block(<<i, Ask("k")>>) : i \in some}
Deep == Around(Around(Around(Wrong)))

InstructionSources ==
    {With(type, <<i>>) : type \in {"num", "void", "byte"}, i \in Leaves \cup Around(Leaves)}
    \cup {With("num", <<i>>) : i \in Deep}
-----------------------------------------------------------------------------
(* main: absent, a variable, of another type, with parameters.             *)

MainSources ==
    { Typed(Source(Globals, <<V>>)), Typed(Source(<<Value("main")>>, <<V>>)),
      Typed(Source(<<>>, <<Fun("void", "main", <<>>, <<>>, <<>>)>>)),
      Typed(Source(<<>>, <<Fun("byte", "main", <<>>, <<>>, <<Back(Char(98))>>)>>)) }

AllSources == ExpressionSources \cup InstructionSources \cup MainSources

\* Every expression, given for an array.
ArraySources == UNION {Uses(Do("e", <<d, Num(1)>>)) : d \in Expressions}
=============================================================================
