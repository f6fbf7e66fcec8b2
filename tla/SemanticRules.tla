---------------------------- MODULE SemanticRules ----------------------------
(***************************************************************************)
(* What the checks of Semantic say, against the rules of the language that *)
(* module Typing states, and what the code generator takes for granted.    *)
(***************************************************************************)
EXTENDS Semantic, FiniteSets
T == INSTANCE Typing

Checked == {[prog |-> prog, d |-> prog.functions[i]] : i \in 1 .. next - 1}
Open == IF phase = "exited" THEN {[prog |-> prog, d |-> prog.functions[next]]} ELSE {}

\* Arguments that are given for an array and start with no name at all: the name
\* looked up is what the attribute of the node happens to spell.
Misread(s) == {p \in T!NotNames(s) : T!At(s, p).label \notin {"Ident", "ArrayLR"}}
MisreadKinds == {"ERR_UNDECLARED_SYMBOL", "ERR_MISMATCH_ARRAY_TYPE", "ERR_INVALID_ARRAY_TYPE"}
ReportsOfMisread(s) == {<<kind, s.d.ident, p>> : kind \in MisreadKinds, p \in Misread(s)}

\* The checks say exactly what is wrong with the definitions read so far, each
\* problem at its place and nothing else, but in the parts that another problem
\* leaves without meaning: a report is never made for a right program, and no
\* combination of conditions, calls and operators hides a wrong part of it.
ReportsExpected ==
    /\ phase # "exited" =>
         Range(log) \ UNION {ReportsOfMisread(s) : s \in Checked}
           = UNION {T!Expected(s) : s \in Checked}
             \cup (IF phase = "done" THEN {<<kind, "", <<>>>> : kind \in T!MainProblems(prog)}
                   ELSE {})

\* Before the exit in the middle of an expression (symbolTable.c:182) nothing is
\* said that is not wrong with the definitions read so far.
SaidBeforeExit ==
    phase = "exited" =>
       Range(log) \subseteq UNION {T!Expected(s) \cup ReportsOfMisread(s) : s \in Checked \cup Open}

\* The else branches above p that hang on an `if' whose first branch has no block.
Doubled(s, p) ==
    {i \in 0 .. Len(p) - 1 :
       LET n == T!At(s, SubSeq(p, 1, i))
       IN n.label = "If" /\ p[i + 1] = 3 /\ n.child[2].label # "SuiteInstr"}

\* A problem is reported once, but in such else branches, where it is reported
\* twice for each of them (semantic.c:454 takes the siblings of an instruction
\* without a block for a list of instructions): a chain of else-ifs of length k
\* is checked 2^k times.
ReportedOnce ==
    phase \in {"main", "done"} =>
       \A s \in Checked : \A r \in Range(log) :
          r[2] = s.d.ident =>
             Cardinality({i \in DOMAIN log : log[i] = r}) = 2 ^ Cardinality(Doubled(s, r[3]))

\* What treeReader.c and codeWriter.c rely on, where they assert it or write no
\* code: names are declared, what is called is a function with as many arguments
\* as parameters (codeWriter.c:281, :301), an operand has a value (:284, :338,
\* :492, :516), what is written to is a variable (:622, :654), and a function
\* that answers a value never says `return;' (treeReader.c:224).
Translates(s) ==
    /\ T!Undeclared(s) = {}
    /\ \A p \in T!PlacesIn(s) :
         LET n == T!At(s, p)
             kind == T!Kind(s, n.ident)
         IN /\ T!IsCall(n) => kind = "function" /\ Len(T!ArgumentsOf(s, p)) = Len(T!Callee(s, p))
            /\ T!IsCall(n) /\ T!IsOperand(s, p) => T!Type(s, n.ident) # "void"
            /\ n.label = "ArrayLR" => kind = "array"
            /\ T!IsName(n) /\ T!IsOperand(s, p) => kind # "function"
            /\ T!IsTarget(s, p) /\ T!IsName(n) => kind = "value"
    /\ T!NothingReturned(s) = {}

\* A program that is accepted is translated: no assertion of the generator fails
\* and no name is missing when the assembly file is already open.
AcceptedTranslates == Accepted => \A s \in Checked : Translates(s)
=============================================================================
