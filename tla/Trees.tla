-------------------------------- MODULE Trees --------------------------------
(***************************************************************************)
(* The trees that the rules of src/tpc.y build for the expressions and the *)
(* instructions of a function, as sets: what the semantic checks and the   *)
(* code generator may be given.                                            *)
(*                                                                         *)
(* A node is [label, ident, num, child]: what the union `att' of the code  *)
(* holds is in num for a constant, in ident for a name and an operator,    *)
(* and child is the sequence of the children (FIRSTCHILD, ...).            *)
(*                                                                         *)
(* A scope limits the names: those in `values' stand for a word, those in  *)
(* `arrays' for an array, f is called with n arguments if <<f, n>> is in   *)
(* `calls', as an operand if it is in `answers', with a lone name for the  *)
(* i-th one if <<f, i>> is in `named'; `returns' holds the numbers of      *)
(* children of a return.  AnyScope is all that the parser looks at.        *)
(***************************************************************************)
EXTENDS Integers, Sequences

CONSTANT Height  \* a bound on the height of the trees
ASSUME HeightAssumption == Height \in Nat

\* The place of a node: which child to take, from the body of the function.
Paths == Seq(Nat)

AnyScope == [values |-> STRING, arrays |-> STRING, calls |-> STRING \X Nat, answers |-> STRING,
             named |-> {}, returns |-> {0, 1}]

Nodes(labels, idents, children) ==
    [label : labels, ident : idents, num : Int, child : children]
NoChild == {<<>>}
IsOnlyIdentifier(n) == n.label = "Ident" /\ n.child = <<>>
OneChild(nodes) == [1 .. 1 -> nodes]
-----------------------------------------------------------------------------
(* Expressions, over the expressions `lower'                               *)

TargetNodes(s, lower) ==
    Nodes({"Ident"}, s.values, NoChild) \cup Nodes({"ArrayLR"}, s.arrays, OneChild(lower))

ArgumentNodes(lower) ==
    Nodes({"EmptyArgs"}, STRING, NoChild) \cup Nodes({"ListExp"}, STRING, Seq(lower) \ NoChild)
NamesGiven(s, n) ==
    \A i \in DOMAIN n.child[1].child :
       <<n.ident, i>> \in s.named => IsOnlyIdentifier(n.child[1].child[i])
CallNodes(s, lower) ==
    {n \in Nodes({"Ident"}, STRING, OneChild(ArgumentNodes(lower))) :
       <<n.ident, Len(n.child[1].child)>> \in s.calls /\ NamesGiven(s, n)}
OperandCalls(s, lower) == {n \in CallNodes(s, lower) : n.ident \in s.answers}

ExpNodes(s, lower) ==
    Nodes({"Num", "Character"}, STRING, NoChild)
    \cup Nodes({"Ident"}, s.values \cup s.arrays, NoChild)
    \cup Nodes({"ArrayLR"}, s.arrays, OneChild(lower))
    \cup OperandCalls(s, lower)
    \cup Nodes({"AddsubU"}, {"+", "-"}, OneChild(lower))
    \cup Nodes({"Not"}, STRING, OneChild(lower))
    \cup Nodes({"Addsub"}, {"+", "-"}, lower \X lower)
    \cup Nodes({"Divstar"}, {"*", "/", "%"}, lower \X lower)
    \cup Nodes({"Eq"}, {"==", "!="}, lower \X lower)
    \cup Nodes({"Order"}, {"<", "<=", ">", ">="}, lower \X lower)
    \cup Nodes({"And", "Or"}, STRING, lower \X lower)

\* Those of each height.
ExpsUpTo(s) ==
    LET exps[h \in 0 .. Height] == IF h = 0 THEN {} ELSE ExpNodes(s, exps[h - 1])
    IN exps
Exps(s) == ExpsUpTo(s)[Height]
-----------------------------------------------------------------------------
(* Instructions, over the expressions `exps' and the instructions `lower'  *)

ReturnNodes(s, exps) ==
    {n \in Nodes({"Return"}, STRING, NoChild \cup OneChild(exps)) : Len(n.child) \in s.returns}

InstrNodes(s, exps, lower) ==
    Nodes({"EmptyInstr"}, STRING, NoChild)
    \cup ReturnNodes(s, exps)
    \cup Nodes({"Assignation"}, STRING, TargetNodes(s, exps) \X exps)
    \cup CallNodes(s, exps)
    \cup Nodes({"If"}, STRING, (exps \X lower) \cup (exps \X lower \X lower))
    \cup Nodes({"While"}, STRING, exps \X lower)
    \cup Nodes({"SuiteInstr"}, STRING, Seq(lower))

InstrsUpTo(s) ==
    LET exps == Exps(s)
        instrs[h \in 0 .. Height] == IF h = 0 THEN {} ELSE InstrNodes(s, exps, instrs[h - 1])
    IN instrs
Instrs(s) == InstrsUpTo(s)[Height]

Bodies(s) == Nodes({"SuiteInstr"}, STRING, Seq(Instrs(s)))
=============================================================================
