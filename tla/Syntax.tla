-------------------------------- MODULE Syntax --------------------------------
(***************************************************************************)
(* The trees that the rules of src/tpc.y build, with makeNode, addAttribut *)
(* and addChild of src/tree.c: one operator for each form of an            *)
(* expression, of an instruction and of a definition.                      *)
(***************************************************************************)
EXTENDS Naturals, Sequences

Node(label, ident, num, child) ==
    [label |-> label, ident |-> ident, num |-> num, child |-> child]

Num(n) == Node("Num", "", n, <<>>)
Char(n) == Node("Character", "", n, <<>>)
Var(x) == Node("Ident", x, 0, <<>>)
At(x, e) == Node("ArrayLR", x, 0, <<e>>)
Neg(e) == Node("AddsubU", "-", 0, <<e>>)
Plus(e) == Node("AddsubU", "+", 0, <<e>>)
No(e) == Node("Not", "", 0, <<e>>)

BinaryLabel(op) == CASE op \in {"+", "-"} -> "Addsub" [] op \in {"*", "/", "%"} -> "Divstar"
                     [] op \in {"==", "!="} -> "Eq" [] op \in {"<", "<=", ">", ">="} -> "Order"
                     [] op = "&&" -> "And" [] op = "||" -> "Or"
\* The rules of && and || keep no text in the node.
Binary(op, d, e) == Node(BinaryLabel(op), IF op \in {"&&", "||"} THEN "" ELSE op, 0, <<d, e>>)
Ask(x) == Node("Ident", x, 0, <<Node("EmptyArgs", "", 0, <<>>)>>)
Do(x, args) == Node("Ident", x, 0, <<Node("ListExp", "", 0, args)>>)

Give(x, e) == Node("Assignation", "", 0, <<x, e>>)
Block(s) == Node("SuiteInstr", "", 0, s)
Back(e) == Node("Return", "", 0, <<e>>)
BackVoid == Node("Return", "", 0, <<>>)
Cond(e, i) == Node("If", "", 0, <<e, i>>)
Either(e, i, j) == Node("If", "", 0, <<e, i, j>>)
Loop(e, i) == Node("While", "", 0, <<e, i>>)
Nothing == Node("EmptyInstr", "", 0, <<>>)

Fun(type, x, params, locals, s) ==
    [ident |-> x, type |-> type, params |-> params, locals |-> locals, body |-> Block(s)]
Main(locals, s) == Fun("num", "main", <<>>, locals, s)
Source(globals, functions) == [globals |-> globals, functions |-> functions]
=============================================================================
