---------------------------- MODULE MachineProofs ----------------------------
(***************************************************************************)
(* Proofs about CodeGen and Machine, for all programs of the grammar: no   *)
(* label is defined twice, every jump and call has a target, and the       *)
(* processor computes with words, between instructions that exist.         *)
(***************************************************************************)
EXTENDS Machine, ProgramProofs

LocalNames == {"bool_false", "bool_true", "bool_end", "cmp", "cmp_end", "else", "end_if",
               "while_start", "end_while"}
BoolNames == {"bool_false", "bool_true", "bool_end"}
CmpNames == {"cmp", "cmp_end", "else", "end_if", "while_start", "end_while"}
Jumps == {"jmp", "je", "jne", "jl", "jle", "jg", "jge"}

\* The operands and the instructions of a text that calls the functions of F.
Regs == {"reg"} \X Registers
Numbers == {"imm"} \X Int
Cells == {"mem"} \X (Registers \cup {"global_vars"}) \X Int
Statics == {"static"} \X Int
Element == <<"index", "rdx", "rax", WordSize>>
AnyLabel(F) == (F \cup {"_start"}) \X (LocalNames \cup {""}) \X Nat
Callees(F) == {FunctionLabel(x) : x \in F}

Moves == ({"push"} \X (Regs \cup Numbers \cup Cells))
         \cup ({"pop"} \X (Regs \cup Cells))
         \cup ({"mov"} \X (Regs \cup Cells) \X (Regs \cup Numbers \cup Statics))
         \cup ({"lea"} \X Regs \X (Cells \cup {Element}))
Computes == ({"add", "sub", "imul", "cmp"} \X Regs \X (Regs \cup Numbers))
            \cup ({"neg", "idiv"} \X Regs)
            \cup {<<"cqo">>, <<"sete">>, <<"movzx">>, <<"ret">>, <<"syscall">>}
Plain(F) == Moves \cup Computes \cup ({"call"} \X Callees(F))
Ops(F) == Plain(F) \cup (Jumps \X AnyLabel(F)) \cup ({"label"} \X AnyLabel(F))
-----------------------------------------------------------------------------
(* Instructions                                                            *)

LEMMA OperandsAre ==
    /\ \A r \in Registers : Reg(r) \in Regs
    /\ \A n \in Int : Imm(n) \in Numbers /\ Static(n) \in Statics
    /\ \A r \in Registers \cup {"global_vars"}, n \in Int : Mem(r, n) \in Cells
<1>1. \A r \in Registers : Reg(r) \in Regs
  BY DEF Reg, Regs
<1>2. \A n \in Int : Imm(n) \in Numbers /\ Static(n) \in Statics
  BY DEF Imm, Numbers, Static, Statics
<1>3. \A r \in Registers \cup {"global_vars"}, n \in Int : Mem(r, n) \in Cells
  BY DEF Mem, Cells
<1> QED  BY <1>1, <1>2, <1>3

LEMMA RegistersAre ==
    /\ "rax" \in Registers /\ "rcx" \in Registers /\ "rdx" \in Registers /\ "rdi" \in Registers
    /\ "rsi" \in Registers /\ "r8" \in Registers /\ "r9" \in Registers
    /\ "rsp" \in Registers /\ "rbp" \in Registers
  BY DEF Registers

LEMMA PlainIs ==
    ASSUME NEW F
    PROVE  /\ \A x \in Regs \cup Numbers \cup Cells : Push(x) \in Plain(F)
           /\ \A x \in Regs \cup Cells : Pop(x) \in Plain(F)
           /\ \A x \in Regs \cup Cells, y \in Regs \cup Numbers \cup Statics : Mov(x, y) \in Plain(F)
           /\ \A r \in Registers, x \in Cells \cup {Element} : Lea(r, x) \in Plain(F)
           /\ \A op \in {"add", "sub", "imul"}, r \in Registers, x \in Regs \cup Numbers :
                Compute(op, r, x) \in Plain(F)
           /\ \A r \in Registers, x \in Regs \cup Numbers : Compare(r, x) \in Plain(F)
           /\ \A r \in Registers : <<"neg", Reg(r)>> \in Plain(F) /\ <<"idiv", Reg(r)>> \in Plain(F)
           /\ \A x \in F : <<"call", FunctionLabel(x)>> \in Plain(F)
           /\ <<"cqo">> \in Plain(F) /\ <<"sete">> \in Plain(F) /\ <<"movzx">> \in Plain(F)
           /\ <<"ret">> \in Plain(F) /\ <<"syscall">> \in Plain(F)
<1>1. \A x \in Regs \cup Numbers \cup Cells : Push(x) \in Moves
  BY DEF Push, Moves
<1>2. \A x \in Regs \cup Cells : Pop(x) \in Moves
  BY DEF Pop, Moves
<1>3. \A x \in Regs \cup Cells, y \in Regs \cup Numbers \cup Statics : Mov(x, y) \in Moves
  BY DEF Mov, Moves
<1>4. \A r \in Registers, x \in Cells \cup {Element} : Lea(r, x) \in Moves
  BY OperandsAre DEF Lea, Moves
<1>5. \A op \in {"add", "sub", "imul"}, r \in Registers, x \in Regs \cup Numbers :
        Compute(op, r, x) \in Computes
  BY OperandsAre DEF Compute, Computes
<1>6. \A r \in Registers, x \in Regs \cup Numbers : Compare(r, x) \in Computes
  BY OperandsAre DEF Compare, Computes
<1>7. \A r \in Registers : <<"neg", Reg(r)>> \in Computes /\ <<"idiv", Reg(r)>> \in Computes
  BY OperandsAre DEF Computes
<1>8. \A x \in F : <<"call", FunctionLabel(x)>> \in {"call"} \X Callees(F)
  BY DEF Callees
<1>9. /\ <<"cqo">> \in Computes /\ <<"sete">> \in Computes /\ <<"movzx">> \in Computes
      /\ <<"ret">> \in Computes /\ <<"syscall">> \in Computes
  BY DEF Computes
<1> QED  BY <1>1, <1>2, <1>3, <1>4, <1>5, <1>6, <1>7, <1>8, <1>9 DEF Plain

LEMMA FixedOps ==
    ASSUME NEW F
    PROVE  /\ \A r \in Registers :
                /\ Push(Reg(r)) \in Plain(F) /\ Pop(Reg(r)) \in Plain(F) /\ Lea(r, Element) \in Plain(F)
                /\ <<"neg", Reg(r)>> \in Plain(F) /\ <<"idiv", Reg(r)>> \in Plain(F)
           /\ \A r, q \in Registers :
                /\ Mov(Reg(r), Reg(q)) \in Plain(F) /\ Compare(r, Reg(q)) \in Plain(F)
                /\ \A op \in {"add", "sub", "imul"} : Compute(op, r, Reg(q)) \in Plain(F)
           /\ \A r \in Registers, n \in Int :
                /\ Mov(Reg(r), Imm(n)) \in Plain(F) /\ Mov(Reg(r), Static(n)) \in Plain(F)
                /\ Compare(r, Imm(n)) \in Plain(F)
                /\ \A op \in {"add", "sub", "imul"} : Compute(op, r, Imm(n)) \in Plain(F)
           /\ \A n \in Int : Push(Imm(n)) \in Plain(F)
           /\ \A b \in Registers \cup {"global_vars"}, n \in Int :
                /\ Push(Mem(b, n)) \in Plain(F) /\ Pop(Mem(b, n)) \in Plain(F)
                /\ \A r \in Registers : Mov(Mem(b, n), Reg(r)) \in Plain(F) /\ Lea(r, Mem(b, n)) \in Plain(F)
<1>1. ASSUME NEW r \in Registers
      PROVE  /\ Push(Reg(r)) \in Plain(F) /\ Pop(Reg(r)) \in Plain(F) /\ Lea(r, Element) \in Plain(F)
             /\ <<"neg", Reg(r)>> \in Plain(F) /\ <<"idiv", Reg(r)>> \in Plain(F)
  <2>1. Reg(r) \in Regs
    BY OperandsAre
  <2>2. Push(Reg(r)) \in Plain(F) /\ Pop(Reg(r)) \in Plain(F)
    BY <2>1, PlainIs
  <2>3. Lea(r, Element) \in Plain(F)
    BY PlainIs
  <2>4. <<"neg", Reg(r)>> \in Plain(F) /\ <<"idiv", Reg(r)>> \in Plain(F)
    BY PlainIs
  <2> QED  BY <2>2, <2>3, <2>4
<1>2. ASSUME NEW r \in Registers, NEW q \in Registers
      PROVE  /\ Mov(Reg(r), Reg(q)) \in Plain(F) /\ Compare(r, Reg(q)) \in Plain(F)
             /\ \A op \in {"add", "sub", "imul"} : Compute(op, r, Reg(q)) \in Plain(F)
  <2>1. Reg(r) \in Regs /\ Reg(q) \in Regs
    BY OperandsAre
  <2>2. Mov(Reg(r), Reg(q)) \in Plain(F)
    BY <2>1, PlainIs
  <2>3. Compare(r, Reg(q)) \in Plain(F)
    BY <2>1, PlainIs
  <2>4. \A op \in {"add", "sub", "imul"} : Compute(op, r, Reg(q)) \in Plain(F)
    BY <2>1, PlainIs
  <2> QED  BY <2>2, <2>3, <2>4
<1>3. ASSUME NEW r \in Registers, NEW n \in Int
      PROVE  /\ Mov(Reg(r), Imm(n)) \in Plain(F) /\ Mov(Reg(r), Static(n)) \in Plain(F)
             /\ Compare(r, Imm(n)) \in Plain(F)
             /\ \A op \in {"add", "sub", "imul"} : Compute(op, r, Imm(n)) \in Plain(F)
  <2>1. Reg(r) \in Regs /\ Imm(n) \in Numbers /\ Static(n) \in Statics
    BY OperandsAre
  <2>2. Mov(Reg(r), Imm(n)) \in Plain(F) /\ Mov(Reg(r), Static(n)) \in Plain(F)
    BY <2>1, PlainIs
  <2>3. Compare(r, Imm(n)) \in Plain(F)
    BY <2>1, PlainIs
  <2>4. \A op \in {"add", "sub", "imul"} : Compute(op, r, Imm(n)) \in Plain(F)
    BY <2>1, PlainIs
  <2> QED  BY <2>2, <2>3, <2>4
<1>4. ASSUME NEW n \in Int PROVE Push(Imm(n)) \in Plain(F)
  <2>1. Imm(n) \in Numbers
    BY OperandsAre
  <2> QED  BY <2>1, PlainIs
<1>5. ASSUME NEW b \in Registers \cup {"global_vars"}, NEW n \in Int
      PROVE  /\ Push(Mem(b, n)) \in Plain(F) /\ Pop(Mem(b, n)) \in Plain(F)
             /\ \A r \in Registers : Mov(Mem(b, n), Reg(r)) \in Plain(F) /\ Lea(r, Mem(b, n)) \in Plain(F)
  <2>1. Mem(b, n) \in Cells
    BY OperandsAre
  <2>2. Push(Mem(b, n)) \in Plain(F) /\ Pop(Mem(b, n)) \in Plain(F)
    BY <2>1, PlainIs
  <2>3. ASSUME NEW r \in Registers PROVE Mov(Mem(b, n), Reg(r)) \in Plain(F) /\ Lea(r, Mem(b, n)) \in Plain(F)
    <3>1. Reg(r) \in Regs
      BY OperandsAre
    <3>2. Mov(Mem(b, n), Reg(r)) \in Plain(F)
      BY <2>1, <3>1, PlainIs
    <3>3. Lea(r, Mem(b, n)) \in Plain(F)
      BY <2>1, PlainIs
    <3> QED  BY <3>2, <3>3
  <2> QED  BY <2>2, <2>3
<1> QED  BY <1>1, <1>2, <1>3, <1>4, <1>5

LEMMA OpsAre ==
    ASSUME NEW F
    PROVE  /\ Plain(F) \subseteq Ops(F)
           /\ \A l \in AnyLabel(F) : Label(l) \in Ops(F)
           /\ \A l \in AnyLabel(F), cond \in Jumps : Jump(cond, l) \in Ops(F)
  BY DEF Ops, Label, Jump

\* An instruction that is plain is no label and no jump.
LEMMA PlainIsNoLabel ==
    ASSUME NEW F, NEW x \in Plain(F)
    PROVE  x[1] # "label" /\ x[1] \notin Jumps
<1>1. CASE x \in Moves
  BY <1>1 DEF Moves, Jumps
<1>2. CASE x \in Computes
  BY <1>2 DEF Computes, Jumps
<1>3. CASE x \in {"call"} \X Callees(F)
  BY <1>3 DEF Jumps
<1> QED  BY <1>1, <1>2, <1>3 DEF Plain
-----------------------------------------------------------------------------
(* Texts                                                                   *)

JumpsOf(text) == {i \in DOMAIN text : text[i][1] \in Jumps}
LabelSet(text) == {text[i][2] : i \in Labels(text)}
JumpSet(text) == {text[i][2] : i \in JumpsOf(text)}
Unique(text) == \A i, j \in Labels(text) : text[i][2] = text[j][2] => i = j

\* A text without labels and jumps.
LEMMA PlainText ==
    ASSUME NEW F, NEW text \in Seq(Plain(F))
    PROVE  /\ text \in Seq(Ops(F)) /\ Unique(text) /\ LabelSet(text) = {} /\ JumpSet(text) = {}
<1>1. \A i \in DOMAIN text : text[i] \in Plain(F)
  OBVIOUS
<1>2. Labels(text) = {} /\ JumpsOf(text) = {}
  BY <1>1, PlainIsNoLabel DEF Labels, JumpsOf
<1>3. text \in Seq(Ops(F))
  <2>1. Plain(F) \subseteq Ops(F)
    BY OpsAre
  <2> QED  BY <2>1, SeqGrows
<1> QED  BY <1>2, <1>3 DEF Unique, LabelSet, JumpSet

LEMMA BothTexts ==
    ASSUME NEW S, NEW a \in Seq(S), NEW b \in Seq(S)
    PROVE  /\ a \o b \in Seq(S)
           /\ LabelSet(a \o b) = LabelSet(a) \cup LabelSet(b)
           /\ JumpSet(a \o b) = JumpSet(a) \cup JumpSet(b)
           /\ Unique(a) /\ Unique(b) /\ LabelSet(a) \cap LabelSet(b) = {} => Unique(a \o b)
<1> DEFINE c == a \o b
           m == Len(a)
           n == Len(b)
<1>1. /\ DOMAIN c = 1 .. m + n /\ DOMAIN a = 1 .. m /\ DOMAIN b = 1 .. n
      /\ m \in Nat /\ n \in Nat
      /\ \A i \in 1 .. m + n : c[i] = IF i <= m THEN a[i] ELSE b[i - m]
      /\ c \in Seq(S)
  OBVIOUS
<1> HIDE DEF c, m, n
<1>2. \A i \in DOMAIN c : \/ i \in DOMAIN a /\ c[i] = a[i]
                          \/ i - m \in DOMAIN b /\ c[i] = b[i - m]
  <2> SUFFICES ASSUME NEW i \in DOMAIN c
               PROVE  \/ i \in DOMAIN a /\ c[i] = a[i]
                      \/ i - m \in DOMAIN b /\ c[i] = b[i - m]
    OBVIOUS
  <2>1. CASE i <= m
    BY <1>1, <2>1
  <2>2. CASE ~(i <= m)
    <3>1. i - m \in 1 .. n
      BY <1>1, <2>2
    <3> QED  BY <1>1, <2>2, <3>1
  <2> QED  BY <2>1, <2>2
<1>3. \A i \in DOMAIN a : i \in DOMAIN c /\ c[i] = a[i]
  BY <1>1
<1>4. \A i \in DOMAIN b : i + m \in DOMAIN c /\ c[i + m] = b[i]
  <2> SUFFICES ASSUME NEW i \in DOMAIN b PROVE i + m \in DOMAIN c /\ c[i + m] = b[i]
    OBVIOUS
  <2>1. i + m \in 1 .. m + n /\ ~(i + m <= m) /\ (i + m) - m = i
    BY <1>1
  <2> QED  BY <1>1, <2>1
<1>5. LabelSet(c) = LabelSet(a) \cup LabelSet(b)
  BY <1>2, <1>3, <1>4 DEF LabelSet, Labels
<1>6. JumpSet(c) = JumpSet(a) \cup JumpSet(b)
  BY <1>2, <1>3, <1>4 DEF JumpSet, JumpsOf
<1>7. ASSUME Unique(a), Unique(b), LabelSet(a) \cap LabelSet(b) = {} PROVE Unique(c)
  <2> SUFFICES ASSUME NEW i \in Labels(c), NEW j \in Labels(c), c[i][2] = c[j][2] PROVE i = j
    BY DEF Unique
  <2>1. \A k \in Labels(c) : \/ k \in Labels(a) /\ c[k] = a[k] /\ c[k][2] \in LabelSet(a)
                             \/ k - m \in Labels(b) /\ c[k] = b[k - m] /\ c[k][2] \in LabelSet(b)
    <3> SUFFICES ASSUME NEW k \in Labels(c)
                 PROVE  \/ k \in Labels(a) /\ c[k] = a[k] /\ c[k][2] \in LabelSet(a)
                        \/ k - m \in Labels(b) /\ c[k] = b[k - m] /\ c[k][2] \in LabelSet(b)
      OBVIOUS
    <3>1. k \in DOMAIN c /\ c[k][1] = "label"
      BY DEF Labels
    <3>2. CASE k \in DOMAIN a /\ c[k] = a[k]
      <4>1. k \in Labels(a)
        BY <3>1, <3>2 DEF Labels
      <4>2. a[k][2] \in LabelSet(a)
        BY <4>1 DEF LabelSet
      <4> QED  BY <3>2, <4>1, <4>2
    <3>3. CASE k - m \in DOMAIN b /\ c[k] = b[k - m]
      <4>1. k - m \in Labels(b)
        BY <3>1, <3>3 DEF Labels
      <4>2. b[k - m][2] \in LabelSet(b)
        BY <4>1 DEF LabelSet
      <4> QED  BY <3>3, <4>1, <4>2
    <3> QED  BY <1>2, <3>1, <3>2, <3>3
  <2>2. i \in Int /\ j \in Int /\ m \in Int
    BY <1>1 DEF Labels
  <2>3. CASE i \in Labels(a) /\ c[i] = a[i] /\ c[i][2] \in LabelSet(a)
    <3>1. j \in Labels(a) /\ c[j] = a[j]
      BY <1>7, <2>1, <2>3
    <3> QED  BY <1>7, <2>3, <3>1 DEF Unique
  <2>4. CASE i - m \in Labels(b) /\ c[i] = b[i - m] /\ c[i][2] \in LabelSet(b)
    <3>1. j - m \in Labels(b) /\ c[j] = b[j - m]
      BY <1>7, <2>1, <2>4
    <3>2. i - m = j - m
      BY <1>7, <2>4, <3>1 DEF Unique
    <3> QED  BY <2>2, <3>2
  <2> QED  BY <2>1, <2>3, <2>4
<1> QED  BY <1>1, <1>5, <1>6, <1>7 DEF c
-----------------------------------------------------------------------------
(* Pieces of text                                                          *)

\* The labels of the function x with the numbers given between two positions.
Fresh(x, out, r) == ({x} \X CmpNames \X (out.cmp .. r.cmp - 1))
                    \cup ({x} \X BoolNames \X (out.bool .. r.bool - 1))

Pieces(F) == [text : Seq(Ops(F)), cmp : Nat, bool : Nat]

\* r is a piece of the function x, written at out: the labels of its text are all
\* different, those of the set L and others that it numbered itself, and it jumps
\* to no other label than these and those of J.
Piece(F, x, L, J, out, r) ==
    /\ r \in Pieces(F) /\ out \in Counters
    /\ out.cmp <= r.cmp /\ out.bool <= r.bool
    /\ Unique(r.text)
    /\ L \subseteq LabelSet(r.text) /\ LabelSet(r.text) \subseteq Fresh(x, out, r) \cup L
    /\ JumpSet(r.text) \subseteq LabelSet(r.text) \cup J
\* Its labels are all its own.
Closed(F, x, out, r) == Piece(F, x, {}, {}, out, r)

LEMMA CountersAre == ASSUME NEW out \in Counters PROVE out.cmp \in Nat /\ out.bool \in Nat
  BY DEF Counters

LEMMA CountersGrow ==
    ASSUME NEW out \in Counters
    PROVE  /\ [out EXCEPT !.cmp = @ + 1] = [cmp |-> out.cmp + 1, bool |-> out.bool]
           /\ [out EXCEPT !.bool = out.bool + 1] = [cmp |-> out.cmp, bool |-> out.bool + 1]
           /\ [out EXCEPT !.cmp = @ + 1] \in Counters
           /\ [out EXCEPT !.bool = out.bool + 1] \in Counters
  BY DEF Counters

LEMMA PieceIs ==
    ASSUME NEW F, NEW r \in Pieces(F)
    PROVE  /\ r.text \in Seq(Ops(F)) /\ r.cmp \in Nat /\ r.bool \in Nat
           /\ Behind(r) = [cmp |-> r.cmp, bool |-> r.bool] /\ Behind(r) \in Counters
           /\ \A t : Emit(r, t) = [text |-> r.text \o t, cmp |-> r.cmp, bool |-> r.bool]
           /\ \A q : Then(q, r) = [text |-> q.text \o r.text, cmp |-> r.cmp, bool |-> r.bool]
<1>1. /\ r.text \in Seq(Ops(F)) /\ r.cmp \in Nat /\ r.bool \in Nat
      /\ r = [text |-> r.text, cmp |-> r.cmp, bool |-> r.bool]
  BY DEF Pieces
<1>2. Behind(r) = [cmp |-> r.cmp, bool |-> r.bool] /\ Behind(r) \in Counters
  BY <1>1 DEF Behind, Counters
<1>3. \A t : Emit(r, t) = [text |-> r.text \o t, cmp |-> r.cmp, bool |-> r.bool]
  <2> TAKE t
  <2> DEFINE u == r.text \o t
  <2>1. Emit(r, t) = [r EXCEPT !.text = u]
    BY DEF Emit
  <2> HIDE DEF u
  <2>2. [r EXCEPT !.text = u] = [text |-> u, cmp |-> r.cmp, bool |-> r.bool]
    BY <1>1
  <2> QED  BY <2>1, <2>2 DEF u
<1>4. \A q : Then(q, r) = [text |-> q.text \o r.text, cmp |-> r.cmp, bool |-> r.bool]
  <2> TAKE q
  <2> DEFINE u == q.text \o r.text
  <2>1. Then(q, r) = [r EXCEPT !.text = u]
    BY DEF Then
  <2> HIDE DEF u
  <2>2. [r EXCEPT !.text = u] = [text |-> u, cmp |-> r.cmp, bool |-> r.bool]
    BY <1>1
  <2> QED  BY <2>1, <2>2 DEF u
<1> QED  BY <1>1, <1>2, <1>3, <1>4

\* A label with a number that was given before, or that is still to be given.
LEMMA OutsideCmp ==
    ASSUME NEW x, NEW out \in Counters, NEW r, r.cmp \in Nat, r.bool \in Nat,
           NEW name \in CmpNames, NEW n \in Nat, n < out.cmp \/ n >= r.cmp
    PROVE  <<x, name, n>> \notin Fresh(x, out, r)
<1>1. name \notin BoolNames
  BY DEF CmpNames, BoolNames
<1>2. n \notin out.cmp .. r.cmp - 1
  <2>1. out.cmp \in Nat
    BY CountersAre
  <2> QED  BY <2>1
<1> QED  BY <1>1, <1>2 DEF Fresh

LEMMA OutsideBool ==
    ASSUME NEW x, NEW out \in Counters, NEW r, r.cmp \in Nat, r.bool \in Nat,
           NEW name \in BoolNames, NEW n \in Nat, n < out.bool \/ n >= r.bool
    PROVE  <<x, name, n>> \notin Fresh(x, out, r)
<1>1. name \notin CmpNames
  BY DEF CmpNames, BoolNames
<1>2. n \notin out.bool .. r.bool - 1
  <2>1. out.bool \in Nat
    BY CountersAre
  <2> QED  BY <2>1
<1> QED  BY <1>1, <1>2 DEF Fresh

LEMMA FreshSplit ==
    ASSUME NEW x, NEW out, NEW mid, NEW r, out.cmp \in Nat, out.bool \in Nat,
           mid.cmp \in Nat, mid.bool \in Nat, r.cmp \in Nat, r.bool \in Nat,
           out.cmp <= mid.cmp, out.bool <= mid.bool, mid.cmp <= r.cmp, mid.bool <= r.bool
    PROVE  /\ Fresh(x, out, mid) \subseteq Fresh(x, out, r)
           /\ Fresh(x, mid, r) \subseteq Fresh(x, out, r)
           /\ Fresh(x, out, mid) \cap Fresh(x, mid, r) = {}
<1> DEFINE A == out.cmp .. mid.cmp - 1
           B == mid.cmp .. r.cmp - 1
           C == out.cmp .. r.cmp - 1
           D == out.bool .. mid.bool - 1
           E == mid.bool .. r.bool - 1
           G == out.bool .. r.bool - 1
<1>1. A \subseteq C /\ B \subseteq C /\ A \cap B = {} /\ D \subseteq G /\ E \subseteq G /\ D \cap E = {}
  OBVIOUS
<1>2. CmpNames \cap BoolNames = {}
  BY DEF CmpNames, BoolNames
<1>3. /\ Fresh(x, out, mid) = ({x} \X CmpNames \X A) \cup ({x} \X BoolNames \X D)
      /\ Fresh(x, mid, r) = ({x} \X CmpNames \X B) \cup ({x} \X BoolNames \X E)
      /\ Fresh(x, out, r) = ({x} \X CmpNames \X C) \cup ({x} \X BoolNames \X G)
  BY DEF Fresh
<1> HIDE DEF A, B, C, D, E, G
<1> QED  BY <1>1, <1>2, <1>3

LEMMA WritePiece ==
    ASSUME NEW F, NEW x, NEW out \in Counters, NEW text \in Seq(Ops(F)), Unique(text)
    PROVE  Piece(F, x, LabelSet(text), JumpSet(text), out, Write(text, out))
<1>1. Write(text, out) = [text |-> text, cmp |-> out.cmp, bool |-> out.bool]
  BY DEF Write
<1>2. out.cmp \in Nat /\ out.bool \in Nat
  BY CountersAre
<1>3. Write(text, out) \in Pieces(F)
  BY <1>1, <1>2 DEF Pieces
<1> HIDE DEF Write
<1>4. /\ Write(text, out).text = text /\ Write(text, out).cmp = out.cmp
      /\ Write(text, out).bool = out.bool
  BY <1>1
<1>5. out.cmp <= out.cmp /\ out.bool <= out.bool
  BY <1>2
<1> QED  BY <1>3, <1>4, <1>5 DEF Piece

LEMMA WritePlain ==
    ASSUME NEW F, NEW x, NEW out \in Counters, NEW text \in Seq(Plain(F))
    PROVE  Closed(F, x, out, Write(text, out))
  BY PlainText, WritePiece DEF Closed

LEMMA EmitPiece ==
    ASSUME NEW F, NEW x, NEW L, NEW J, NEW out, NEW r, Piece(F, x, L, J, out, r),
           NEW t \in Seq(Ops(F)), Unique(t), \A l \in LabelSet(t) : l \notin Fresh(x, out, r) \cup L
    PROVE  /\ Piece(F, x, L \cup LabelSet(t), J \cup JumpSet(t), out, Emit(r, t))
           /\ Emit(r, t).cmp = r.cmp /\ Emit(r, t).bool = r.bool
<1> DEFINE q == Emit(r, t)
<1>1. q = [text |-> r.text \o t, cmp |-> r.cmp, bool |-> r.bool] /\ r.text \in Seq(Ops(F))
      /\ r.cmp \in Nat /\ r.bool \in Nat
  BY PieceIs DEF Piece
<1> HIDE DEF q
<1>2. q.text = r.text \o t /\ q.cmp = r.cmp /\ q.bool = r.bool
  BY <1>1
<1>3. LabelSet(r.text) \cap LabelSet(t) = {}
  BY DEF Piece
<1>4. /\ q.text \in Seq(Ops(F)) /\ LabelSet(q.text) = LabelSet(r.text) \cup LabelSet(t)
      /\ JumpSet(q.text) = JumpSet(r.text) \cup JumpSet(t)
      /\ Unique(q.text)
  BY <1>1, <1>2, <1>3, BothTexts DEF Piece
<1>5. Fresh(x, out, q) = Fresh(x, out, r)
  BY <1>2 DEF Fresh
<1>6. q \in Pieces(F)
  BY <1>1, <1>4 DEF Pieces
<1> QED  BY <1>2, <1>4, <1>5, <1>6 DEF Piece, q

LEMMA EmitPlain ==
    ASSUME NEW F, NEW x, NEW L, NEW J, NEW out, NEW r, Piece(F, x, L, J, out, r),
           NEW t \in Seq(Plain(F))
    PROVE  /\ Piece(F, x, L, J, out, Emit(r, t))
           /\ Emit(r, t).cmp = r.cmp /\ Emit(r, t).bool = r.bool
<1>1. t \in Seq(Ops(F)) /\ Unique(t) /\ LabelSet(t) = {} /\ JumpSet(t) = {}
  BY PlainText
<1>2. \A l \in LabelSet(t) : l \notin Fresh(x, out, r) \cup L
  BY <1>1
<1>3. /\ Piece(F, x, L \cup LabelSet(t), J \cup JumpSet(t), out, Emit(r, t))
      /\ Emit(r, t).cmp = r.cmp /\ Emit(r, t).bool = r.bool
  <2>1. t \in Seq(Ops(F)) /\ Unique(t)
    BY <1>1
  <2>2. Piece(F, x, L \cup LabelSet(t), J \cup JumpSet(t), out, Emit(r, t))
    BY <2>1, <1>2, EmitPiece
  <2>3. Emit(r, t) = [text |-> r.text \o t, cmp |-> r.cmp, bool |-> r.bool]
    BY PieceIs DEF Piece
  <2> QED  BY <2>2, <2>3
<1>4. L \cup LabelSet(t) = L /\ J \cup JumpSet(t) = J
  BY <1>1
<1> QED  BY <1>3, <1>4

LEMMA ThenPiece ==
    ASSUME NEW F, NEW x, NEW L, NEW J, NEW out, NEW r, Piece(F, x, L, J, out, r),
           NEW M, NEW K, NEW s, Piece(F, x, M, K, Behind(r), s),
           M \cap (L \cup Fresh(x, out, r)) = {}, L \cap Fresh(x, Behind(r), s) = {}
    PROVE  /\ Piece(F, x, L \cup M, J \cup K, out, Then(r, s))
           /\ Then(r, s).cmp = s.cmp /\ Then(r, s).bool = s.bool
<1> DEFINE q == Then(r, s)
<1>1. /\ q = [text |-> r.text \o s.text, cmp |-> s.cmp, bool |-> s.bool]
      /\ r.text \in Seq(Ops(F)) /\ s.text \in Seq(Ops(F))
      /\ r.cmp \in Nat /\ r.bool \in Nat /\ s.cmp \in Nat /\ s.bool \in Nat
      /\ Behind(r).cmp = r.cmp /\ Behind(r).bool = r.bool
      /\ out.cmp \in Nat /\ out.bool \in Nat
  <2>1. r \in Pieces(F) /\ s \in Pieces(F) /\ out \in Counters
    BY DEF Piece
  <2>2. out.cmp \in Nat /\ out.bool \in Nat
    BY <2>1, CountersAre
  <2>3. q = [text |-> r.text \o s.text, cmp |-> s.cmp, bool |-> s.bool]
    BY <2>1, PieceIs
  <2>4. /\ r.text \in Seq(Ops(F)) /\ r.cmp \in Nat /\ r.bool \in Nat
        /\ Behind(r) = [cmp |-> r.cmp, bool |-> r.bool]
    BY <2>1, PieceIs
  <2>5. s.text \in Seq(Ops(F)) /\ s.cmp \in Nat /\ s.bool \in Nat
    BY <2>1, PieceIs
  <2> QED  BY <2>2, <2>3, <2>4, <2>5
<1> HIDE DEF q
<1>2. q.text = r.text \o s.text /\ q.cmp = s.cmp /\ q.bool = s.bool
  BY <1>1
<1>3. /\ Fresh(x, out, r) \subseteq Fresh(x, out, q) /\ Fresh(x, Behind(r), s) \subseteq Fresh(x, out, q)
      /\ Fresh(x, out, r) \cap Fresh(x, Behind(r), s) = {}
      /\ out.cmp <= q.cmp /\ out.bool <= q.bool
  <2>1. out.cmp <= r.cmp /\ out.bool <= r.bool /\ r.cmp <= s.cmp /\ r.bool <= s.bool
    BY <1>1 DEF Piece
  <2>2. /\ Fresh(x, out, r) = Fresh(x, out, Behind(r))
        /\ Fresh(x, out, q) = Fresh(x, out, s)
    BY <1>1, <1>2 DEF Fresh
  <2>3. /\ Fresh(x, out, Behind(r)) \subseteq Fresh(x, out, s)
        /\ Fresh(x, Behind(r), s) \subseteq Fresh(x, out, s)
        /\ Fresh(x, out, Behind(r)) \cap Fresh(x, Behind(r), s) = {}
    BY <1>1, <2>1, FreshSplit
  <2>4. out.cmp <= q.cmp /\ out.bool <= q.bool
    BY <1>1, <1>2, <2>1
  <2> QED  BY <2>2, <2>3, <2>4
<1>4. /\ LabelSet(r.text) \subseteq Fresh(x, out, r) \cup L
      /\ LabelSet(s.text) \subseteq Fresh(x, Behind(r), s) \cup M
      /\ L \subseteq LabelSet(r.text) /\ M \subseteq LabelSet(s.text)
      /\ Unique(r.text) /\ Unique(s.text)
      /\ JumpSet(r.text) \subseteq LabelSet(r.text) \cup J
      /\ JumpSet(s.text) \subseteq LabelSet(s.text) \cup K
  BY DEF Piece
<1>5. LabelSet(r.text) \cap LabelSet(s.text) = {}
  BY <1>3, <1>4
<1>6. /\ q.text \in Seq(Ops(F)) /\ LabelSet(q.text) = LabelSet(r.text) \cup LabelSet(s.text)
      /\ JumpSet(q.text) = JumpSet(r.text) \cup JumpSet(s.text)
      /\ Unique(q.text)
  BY <1>1, <1>2, <1>4, <1>5, BothTexts
<1>7. q \in Pieces(F)
  BY <1>1, <1>6 DEF Pieces
<1>8. out \in Counters
  BY DEF Piece
<1>9. /\ L \cup M \subseteq LabelSet(q.text)
      /\ LabelSet(q.text) \subseteq Fresh(x, out, q) \cup (L \cup M)
      /\ JumpSet(q.text) \subseteq LabelSet(q.text) \cup (J \cup K)
  BY <1>3, <1>4, <1>6
<1> QED  BY <1>2, <1>3, <1>6, <1>7, <1>8, <1>9 DEF Piece, q

LEMMA ThenClosed ==
    ASSUME NEW F, NEW x, NEW out, NEW r, Closed(F, x, out, r), NEW s, Closed(F, x, Behind(r), s)
    PROVE  Closed(F, x, out, Then(r, s))
<1>1. Piece(F, x, {} \cup {}, {} \cup {}, out, Then(r, s))
  BY ThenPiece DEF Closed
<1> QED  BY <1>1 DEF Closed

LEMMA EmitClosed ==
    ASSUME NEW F, NEW x, NEW out, NEW r, Closed(F, x, out, r), NEW t \in Seq(Plain(F))
    PROVE  Closed(F, x, out, Emit(r, t))
  BY EmitPlain DEF Closed

\* The numbers of the labels of L were taken by the piece q itself.
LEMMA ClosePiece ==
    ASSUME NEW F, NEW x, NEW L, NEW J, NEW o, NEW r, Piece(F, x, L, J, o, r), J \subseteq L,
           NEW out \in Counters, out.cmp <= o.cmp, out.bool <= o.bool,
           NEW q \in Pieces(F), q.text = r.text, r.cmp <= q.cmp, r.bool <= q.bool,
           L \subseteq Fresh(x, out, q)
    PROVE  Closed(F, x, out, q)
<1>1. /\ out.cmp \in Nat /\ out.bool \in Nat /\ o.cmp \in Nat /\ o.bool \in Nat
      /\ r.cmp \in Nat /\ r.bool \in Nat /\ q.cmp \in Nat /\ q.bool \in Nat
      /\ o.cmp <= r.cmp /\ o.bool <= r.bool
  BY PieceIs, CountersAre DEF Piece
<1>2. out.cmp <= q.cmp /\ out.bool <= q.bool
  BY <1>1
<1>3. Fresh(x, o, r) \subseteq Fresh(x, out, q)
  <2>1. out.cmp <= r.cmp /\ out.bool <= r.bool
    BY <1>1
  <2>2. Fresh(x, o, r) \subseteq Fresh(x, out, r)
    BY <1>1, FreshSplit
  <2>3. Fresh(x, out, r) \subseteq Fresh(x, out, q)
    BY <1>1, <2>1, FreshSplit
  <2> QED  BY <2>2, <2>3
<1>4. /\ Unique(q.text) /\ L \subseteq LabelSet(q.text)
      /\ LabelSet(q.text) \subseteq Fresh(x, o, r) \cup L
      /\ JumpSet(q.text) \subseteq LabelSet(q.text) \cup J
  BY DEF Piece
<1>5. /\ LabelSet(q.text) \subseteq Fresh(x, out, q) \cup {}
      /\ JumpSet(q.text) \subseteq LabelSet(q.text) \cup {}
  BY <1>3, <1>4
<1> QED  BY <1>2, <1>4, <1>5 DEF Piece, Closed
-----------------------------------------------------------------------------
(* Lists                                                                   *)

\* g gives the pieces after each of the k first members.
Walk(X, list, out, k, g) ==
    /\ g = [i \in 0 .. k |-> g[i]] /\ g[0] = Write(<<>>, out)
    /\ \A i \in 1 .. k : g[i] = Followed(g[i - 1], X, list[i])

LEMMA WalkExists == ASSUME NEW X, NEW list, NEW out, NEW n \in Nat
                    PROVE  \E g : Walk(X, list, out, n, g)
<1> DEFINE S == {k \in 0 .. n : \E g : Walk(X, list, out, k, g)}
<1>1. 0 \in S
  <2>1. Walk(X, list, out, 0, [i \in 0 .. 0 |-> Write(<<>>, out)])
    BY DEF Walk
  <2> QED  BY <2>1
<1>2. ASSUME NEW k \in 0 .. n, k + 1 \in 0 .. n, k \in S PROVE k + 1 \in S
  <2>1. PICK g : Walk(X, list, out, k, g)
    BY <1>2
  <2> DEFINE v == Followed(g[k], X, list[k + 1])
             h == [i \in 0 .. k + 1 |-> IF i = k + 1 THEN v ELSE g[i]]
  <2> HIDE DEF v
  <2>2. h = [i \in 0 .. k + 1 |-> h[i]] /\ h[k + 1] = v /\ \A i \in 0 .. k : h[i] = g[i]
    OBVIOUS
  <2> HIDE DEF h
  <2>3. h[0] = Write(<<>>, out)
    <3>1. 0 \in 0 .. k /\ g[0] = Write(<<>>, out)
      BY <2>1 DEF Walk
    <3> QED  BY <2>2, <3>1
  <2>4. ASSUME NEW i \in 1 .. k + 1 PROVE h[i] = Followed(h[i - 1], X, list[i])
    <3>1. CASE i = k + 1
      <4>1. i - 1 = k /\ k \in 0 .. k
        BY <3>1
      <4>2. h[i - 1] = g[k]
        BY <2>2, <4>1
      <4> QED  BY <2>2, <3>1, <4>2 DEF v
    <3>2. CASE i # k + 1
      <4>1. i \in 1 .. k /\ i - 1 \in 0 .. k /\ i \in 0 .. k
        BY <3>2
      <4>2. h[i] = g[i] /\ h[i - 1] = g[i - 1]
        BY <2>2, <4>1
      <4> QED  BY <2>1, <4>1, <4>2 DEF Walk
    <3> QED  BY <3>1, <3>2
  <2>5. Walk(X, list, out, k + 1, h)
    BY <2>2, <2>3, <2>4 DEF Walk
  <2> QED  BY <1>2, <2>5
<1> HIDE DEF S
<1>3. 0 .. n \subseteq S
  BY <1>1, <1>2, Reaches
<1> QED  BY <1>3 DEF S

LEMMA EachIs ==
    ASSUME NEW X, NEW list, Len(list) \in Nat, NEW out
    PROVE  \E g : /\ g[0] = Write(<<>>, out)
                  /\ \A k \in 1 .. Len(list) : g[k] = Followed(g[k - 1], X, list[k])
                  /\ Each(X, list, out) = g[Len(list)]
<1> DEFINE n == Len(list)
           Rec(g) == g = [k \in 0 .. n |-> IF k = 0 THEN Write(<<>>, out)
                                           ELSE Followed(g[k - 1], X, list[k])]
           v == CHOOSE g : Rec(g)
<1>1. Each(X, list, out) = v[n]
  BY DEF Each
<1>2. Rec(v)
  <2>1. PICK g : Walk(X, list, out, n, g)
    BY WalkExists
  <2>2. \A k \in 0 .. n : g[k] = IF k = 0 THEN Write(<<>>, out) ELSE Followed(g[k - 1], X, list[k])
    <3> HIDE DEF n
    <3>1. \A k \in 0 .. n : k = 0 \/ k \in 1 .. n
      BY DEF n
    <3> QED  BY <2>1, <3>1 DEF Walk
  <2>3. Rec(g)
    <3>1. g = [k \in 0 .. n |-> g[k]]
      BY <2>1 DEF Walk
    <3> HIDE DEF n
    <3> QED  BY <2>2, <3>1
  <2> HIDE DEF Rec
  <2> QED  BY <2>3
<1>3. v[0] = Write(<<>>, out) /\ \A k \in 1 .. n : v[k] = Followed(v[k - 1], X, list[k])
  <2> HIDE DEF v, n
  <2>1. 0 \in 0 .. n /\ \A k \in 1 .. n : k \in 0 .. n /\ k # 0
    BY DEF n
  <2> QED  BY <1>2, <2>1
<1> HIDE DEF v
<1> QED  BY <1>1, <1>3

\* The pieces for the trees of S are closed.
ClosedBelow(F, x, X, S) == \A n \in S, out \in Counters : Closed(F, x, out, X[n, out])

LEMMA FollowedClosed ==
    ASSUME NEW F, NEW x, NEW X, NEW S, ClosedBelow(F, x, X, S), NEW n \in S,
           NEW out, NEW r, Closed(F, x, out, r)
    PROVE  Closed(F, x, out, Followed(r, X, n))
<1>1. Behind(r) \in Counters
  BY PieceIs DEF Closed, Piece
<1>2. Closed(F, x, Behind(r), X[n, Behind(r)])
  BY <1>1 DEF ClosedBelow
<1> QED  BY <1>2, ThenClosed DEF Followed

LEMMA EachClosed ==
    ASSUME NEW F, NEW x, NEW X, NEW S, ClosedBelow(F, x, X, S), NEW list \in Seq(S),
           NEW out \in Counters
    PROVE  Closed(F, x, out, Each(X, list, out))
<1> DEFINE n == Len(list)
<1>1. n \in Nat /\ \A k \in 1 .. n : list[k] \in S
  OBVIOUS
<1>2. PICK g : /\ g[0] = Write(<<>>, out)
               /\ \A k \in 1 .. n : g[k] = Followed(g[k - 1], X, list[k])
               /\ Each(X, list, out) = g[n]
  BY <1>1, EachIs
<1> HIDE DEF n
<1> DEFINE R == {k \in 0 .. n : Closed(F, x, out, g[k])}
<1>3. 0 \in R
  <2>1. <<>> \in Seq(Plain(F))
    OBVIOUS
  <2>2. Closed(F, x, out, Write(<<>>, out))
    BY <2>1, WritePlain
  <2>3. 0 \in 0 .. n
    BY <1>1
  <2> QED  BY <1>2, <2>2, <2>3
<1>4. ASSUME NEW k \in 0 .. n, k + 1 \in 0 .. n, k \in R PROVE k + 1 \in R
  <2>1. k + 1 \in 1 .. n /\ (k + 1) - 1 = k
    BY <1>4
  <2>2. g[k + 1] = Followed(g[k], X, list[k + 1]) /\ list[k + 1] \in S
    BY <1>1, <1>2, <2>1
  <2>3. Closed(F, x, out, g[k])
    BY <1>4
  <2> QED  BY <1>4, <2>2, <2>3, FollowedClosed
<1> HIDE DEF R
<1>5. 0 .. n \subseteq R
  BY <1>1, <1>3, <1>4, Reaches
<1> QED  BY <1>1, <1>2, <1>5 DEF R
-----------------------------------------------------------------------------
(* The texts of the operations                                             *)

LEMMA EndingsPlain ==
    ASSUME NEW F
    PROVE  /\ FrameEnd \in Seq(Plain(F)) /\ Ret \in Seq(Plain(F)) /\ FrameEnd \o Ret \in Seq(Plain(F))
           /\ <<Pop(Reg("rax"))>> \o FrameEnd \o Ret \in Seq(Plain(F))
           /\ Not \in Seq(Plain(F)) /\ Operands \in Seq(Plain(F))
<1> DEFINE S == Plain(F)
<1>1. /\ Mov(Reg("rsp"), Reg("rbp")) \in S /\ Pop(Reg("rbp")) \in S /\ Pop(Reg("rax")) \in S
      /\ Pop(Reg("rdi")) \in S /\ Pop(Reg("rcx")) \in S /\ <<"ret">> \in S
      /\ <<"sete">> \in S /\ <<"movzx">> \in S /\ Push(Reg("rax")) \in S
      /\ Compare("rdi", Imm(0)) \in S
  <2>1. <<"ret">> \in S /\ <<"sete">> \in S /\ <<"movzx">> \in S
    BY PlainIs
  <2>2. \A r \in Registers : Push(Reg(r)) \in S /\ Pop(Reg(r)) \in S
    BY FixedOps
  <2>3. Mov(Reg("rsp"), Reg("rbp")) \in S
    BY FixedOps, RegistersAre
  <2>4. Compare("rdi", Imm(0)) \in S
    BY FixedOps, RegistersAre
  <2> QED  BY <2>1, <2>2, <2>3, <2>4, RegistersAre
<1> HIDE DEF S
<1>2. FrameEnd \in Seq(S)
  BY <1>1 DEF FrameEnd
<1>3. Ret \in Seq(S)
  BY <1>1 DEF Ret
<1>4. Not \in Seq(S)
  BY <1>1 DEF Not
<1>5. Operands \in Seq(S)
  BY <1>1 DEF Operands
<1>6. <<Pop(Reg("rax"))>> \in Seq(S)
  BY <1>1
<1>7. FrameEnd \o Ret \in Seq(S)
  BY <1>2, <1>3
<1>8. <<Pop(Reg("rax"))>> \o FrameEnd \in Seq(S)
  BY <1>2, <1>6
<1>9. <<Pop(Reg("rax"))>> \o FrameEnd \o Ret \in Seq(S)
  BY <1>3, <1>8
<1> QED  BY <1>2, <1>3, <1>4, <1>5, <1>7, <1>9 DEF S

LEMMA OpeArithPlain ==
    ASSUME NEW F, NEW op \in {"+", "-", "*", "/", "%"}
    PROVE  OpeArith(op) \in Seq(Plain(F))
<1> DEFINE S == Plain(F)
<1>1. /\ Mov(Reg("rdx"), Imm(0)) \in S /\ <<"cqo">> \in S /\ <<"idiv", Reg("rcx")>> \in S
      /\ Push(Reg("rax")) \in S /\ Push(Reg("rdx")) \in S
  <2>1. <<"cqo">> \in S
    BY PlainIs
  <2>2. \A r \in Registers : Push(Reg(r)) \in S /\ <<"idiv", Reg(r)>> \in S
    BY FixedOps
  <2>3. Mov(Reg("rdx"), Imm(0)) \in S
    BY FixedOps, RegistersAre
  <2> QED  BY <2>1, <2>2, <2>3, RegistersAre
<1>2. Operands \in Seq(S)
  BY EndingsPlain
<1>3. CASE op \in {"/", "%"}
  <2> DEFINE a == <<Mov(Reg("rdx"), Imm(0))>>
             push == Push(Reg(IF op = "/" THEN "rax" ELSE "rdx"))
             b == <<<<"cqo">>, <<"idiv", Reg("rcx")>>, push>>
  <2>1. push \in S
    BY <1>1
  <2> HIDE DEF push, S
  <2>2. a \in Seq(S) /\ b \in Seq(S)
    BY <1>1, <2>1
  <2>3. OpeArith(op) = a \o Operands \o b
    BY <1>3 DEF OpeArith, push
  <2> HIDE DEF a, b
  <2>4. a \o Operands \in Seq(S)
    BY <1>2, <2>2
  <2> QED  BY <2>2, <2>3, <2>4 DEF S
<1>4. CASE op \in {"+", "-", "*"}
  <2> DEFINE compute == Compute(ArithInstr(op), "rax", Reg("rcx"))
             b == <<compute, Push(Reg("rax"))>>
  <2>1. ArithInstr(op) \in {"add", "sub", "imul"}
    BY <1>4 DEF ArithInstr
  <2>2. compute \in S
    BY <2>1, FixedOps, RegistersAre
  <2>3. OpeArith(op) = Operands \o b
    BY <1>4 DEF OpeArith
  <2> HIDE DEF compute, S
  <2>4. b \in Seq(S)
    BY <1>1, <2>2
  <2> HIDE DEF b
  <2> QED  BY <1>2, <2>3, <2>4 DEF S
<1> QED  BY <1>3, <1>4

LEMMA OpeUnairePlain == ASSUME NEW F, NEW op PROVE OpeUnaire(op) \in Seq(Plain(F))
<1> DEFINE S == Plain(F)
<1>1. /\ Pop(Reg("rax")) \in S /\ <<"neg", Reg("rax")>> \in S /\ Push(Reg("rax")) \in S
  BY FixedOps, RegistersAre
<1> HIDE DEF S
<1>2. <<Pop(Reg("rax")), <<"neg", Reg("rax")>>, Push(Reg("rax"))>> \in Seq(S) /\ <<>> \in Seq(S)
  BY <1>1
<1> QED  BY <1>2 DEF OpeUnaire, S
-----------------------------------------------------------------------------
(* The texts with labels and jumps                                         *)

LEMMA LocalIs == ASSUME NEW F, NEW f, f.func.ident \in F, NEW name \in LocalNames, NEW n \in Nat
                 PROVE  /\ Local(f, name, n) = <<f.func.ident, name, n>>
                        /\ Local(f, name, n) \in AnyLabel(F)
  BY DEF Local, AnyLabel

\* What the operation of an instruction is.
LEMMA CodeIs ==
    /\ \A x : Push(x)[1] = "push" /\ Pop(x)[1] = "pop"
    /\ \A r, x : Compare(r, x)[1] = "cmp"
    /\ \A c, l : Jump(c, l)[1] = c /\ Jump(c, l)[2] = l
    /\ \A l : Label(l)[1] = "label" /\ Label(l)[2] = l
    /\ "push" \notin Jumps /\ "pop" \notin Jumps /\ "cmp" \notin Jumps /\ "label" \notin Jumps
    /\ \A c \in Jumps : c # "label"
<1>1. \A x : Push(x)[1] = "push" /\ Pop(x)[1] = "pop"
  BY DEF Push, Pop
<1>2. \A r, x : Compare(r, x)[1] = "cmp"
  BY DEF Compare
<1>3. \A c, l : Jump(c, l)[1] = c /\ Jump(c, l)[2] = l
  BY DEF Jump
<1>4. \A l : Label(l)[1] = "label" /\ Label(l)[2] = l
  BY DEF Label
<1>5. /\ "push" \notin Jumps /\ "pop" \notin Jumps /\ "cmp" \notin Jumps /\ "label" \notin Jumps
      /\ \A c \in Jumps : c # "label"
  BY DEF Jumps
<1> QED  BY <1>1, <1>2, <1>3, <1>4, <1>5

LEMMA LabelText ==
    ASSUME NEW F, NEW l \in AnyLabel(F)
    PROVE  /\ <<Label(l)>> \in Seq(Ops(F)) /\ Unique(<<Label(l)>>)
           /\ LabelSet(<<Label(l)>>) = {l} /\ JumpSet(<<Label(l)>>) = {}
<1> DEFINE o == Label(l)
           t == <<o>>
<1>1. o \in Ops(F) /\ o[1] = "label" /\ o[2] = l /\ "label" \notin Jumps
  BY OpsAre, CodeIs
<1>2. DOMAIN t = 1 .. 1 /\ t[1] = o
  OBVIOUS
<1> HIDE DEF o
<1>3. t \in Seq(Ops(F))
  BY <1>1
<1> HIDE DEF t
<1>4. Labels(t) = {1} /\ JumpsOf(t) = {}
  BY <1>1, <1>2 DEF Labels, JumpsOf
<1> QED  BY <1>1, <1>2, <1>3, <1>4 DEF Unique, LabelSet, JumpSet, t, o

\* A test of the word on top of the stack.
LEMMA TestText ==
    ASSUME NEW F, NEW l \in AnyLabel(F), NEW c \in Jumps
    PROVE  LET t == <<Pop(Reg("rax")), Compare("rax", Imm(0)), Jump(c, l)>>
           IN t \in Seq(Ops(F)) /\ Unique(t) /\ LabelSet(t) = {} /\ JumpSet(t) = {l}
<1> DEFINE o1 == Pop(Reg("rax"))
           o2 == Compare("rax", Imm(0))
           o3 == Jump(c, l)
           t == <<o1, o2, o3>>
<1>1. o1 \in Ops(F) /\ o1[1] \notin Jumps /\ o1[1] # "label"
  <2>1. o1 \in Plain(F)
    BY FixedOps, RegistersAre
  <2> HIDE DEF o1
  <2> QED  BY <2>1, OpsAre, PlainIsNoLabel
<1>2. o2 \in Ops(F) /\ o2[1] \notin Jumps /\ o2[1] # "label"
  <2>1. o2 \in Plain(F)
    BY FixedOps, RegistersAre
  <2> HIDE DEF o2
  <2> QED  BY <2>1, OpsAre, PlainIsNoLabel
<1>3. o3 \in Ops(F) /\ o3[1] \in Jumps /\ o3[1] # "label" /\ o3[2] = l
  <2>1. c \in Jumps
    BY DEF Jumps
  <2> QED  BY <2>1, OpsAre, CodeIs
<1> HIDE DEF o1, o2, o3
<1>4. DOMAIN t = 1 .. 3 /\ t[1] = o1 /\ t[2] = o2 /\ t[3] = o3
  OBVIOUS
<1>5. t \in Seq(Ops(F))
  BY <1>1, <1>2, <1>3
<1> HIDE DEF t
<1>6. \A i \in DOMAIN t : i \in {1, 2, 3}
  BY <1>4
<1>7. Labels(t) = {}
  BY <1>1, <1>2, <1>3, <1>4, <1>6 DEF Labels
<1>8. JumpsOf(t) = {3}
  BY <1>1, <1>2, <1>3, <1>4, <1>6 DEF JumpsOf
<1>9. LabelSet(t) = {}
  BY <1>1, <1>2, <1>3, <1>4, <1>7 DEF LabelSet
<1>10. JumpSet(t) = {l}
  BY <1>1, <1>2, <1>3, <1>4, <1>8 DEF JumpSet
<1>11. Unique(t)
  BY <1>1, <1>2, <1>3, <1>4, <1>7 DEF Unique
<1> QED  BY <1>5, <1>9, <1>10, <1>11 DEF t, o1, o2, o3

\* Both outcomes of a Boolean operator.
LEMMA ShortcutText ==
    ASSUME NEW F, NEW l \in AnyLabel(F), NEW end \in AnyLabel(F), l # end,
           NEW m \in Int, NEW n \in Int
    PROVE  LET t == <<Push(Imm(m)), Jump("jmp", end), Label(l), Push(Imm(n)), Label(end)>>
           IN t \in Seq(Ops(F)) /\ Unique(t) /\ LabelSet(t) = {l, end} /\ JumpSet(t) = {end}
<1> DEFINE o1 == Push(Imm(m))
           o2 == Jump("jmp", end)
           o3 == Label(l)
           o4 == Push(Imm(n))
           o5 == Label(end)
           t == <<o1, o2, o3, o4, o5>>
<1>1. o1 \in Ops(F) /\ o1[1] \notin Jumps /\ o1[1] # "label"
  <2>1. o1 \in Plain(F)
    BY FixedOps, RegistersAre
  <2> HIDE DEF o1
  <2> QED  BY <2>1, OpsAre, PlainIsNoLabel
<1>2. o2 \in Ops(F) /\ o2[1] \in Jumps /\ o2[1] # "label" /\ o2[2] = end
  <2>1. "jmp" \in Jumps
    BY DEF Jumps
  <2> QED  BY <2>1, OpsAre, CodeIs
<1>3. o3 \in Ops(F) /\ o3[1] \notin Jumps /\ o3[1] = "label" /\ o3[2] = l
  BY OpsAre, CodeIs
<1>4. o4 \in Ops(F) /\ o4[1] \notin Jumps /\ o4[1] # "label"
  <2>1. o4 \in Plain(F)
    BY FixedOps, RegistersAre
  <2> HIDE DEF o4
  <2> QED  BY <2>1, OpsAre, PlainIsNoLabel
<1>5. o5 \in Ops(F) /\ o5[1] \notin Jumps /\ o5[1] = "label" /\ o5[2] = end
  BY OpsAre, CodeIs
<1> HIDE DEF o1, o2, o3, o4, o5
<1>6. DOMAIN t = 1 .. 5 /\ t[1] = o1 /\ t[2] = o2 /\ t[3] = o3 /\ t[4] = o4 /\ t[5] = o5
  OBVIOUS
<1>7. t \in Seq(Ops(F))
  BY <1>1, <1>2, <1>3, <1>4, <1>5
<1> HIDE DEF t
<1>8. \A i \in DOMAIN t : i \in {1, 2, 3, 4, 5}
  BY <1>6
<1>9. Labels(t) = {3, 5}
  BY <1>1, <1>2, <1>3, <1>4, <1>5, <1>6, <1>8 DEF Labels
<1>10. JumpsOf(t) = {2}
  BY <1>1, <1>2, <1>3, <1>4, <1>5, <1>6, <1>8 DEF JumpsOf
<1>11. LabelSet(t) = {l, end}
  BY <1>1, <1>2, <1>3, <1>4, <1>5, <1>6, <1>9 DEF LabelSet
<1>12. JumpSet(t) = {end}
  BY <1>1, <1>2, <1>3, <1>4, <1>5, <1>6, <1>10 DEF JumpSet
<1>13. Unique(t)
  BY <1>1, <1>2, <1>3, <1>4, <1>5, <1>6, <1>9 DEF Unique
<1> QED  BY <1>7, <1>11, <1>12, <1>13 DEF t, o1, o2, o3, o4, o5

\* Both outcomes of a comparison.
LEMMA OutcomesText ==
    ASSUME NEW F, NEW l \in AnyLabel(F), NEW end \in AnyLabel(F), l # end, NEW c \in Jumps
    PROVE  LET t == <<Pop(Reg("rax")), Pop(Reg("rcx")), Compare("rcx", Reg("rax")), Jump(c, l), Push(Imm(0)),
                  Jump("jmp", end), Label(l), Push(Imm(1)), Jump("jmp", end), Label(end)>>
           IN t \in Seq(Ops(F)) /\ Unique(t) /\ LabelSet(t) = {l, end} /\ JumpSet(t) = {l, end}
<1> DEFINE o1 == Pop(Reg("rax"))
           o2 == Pop(Reg("rcx"))
           o3 == Compare("rcx", Reg("rax"))
           o4 == Jump(c, l)
           o5 == Push(Imm(0))
           o6 == Jump("jmp", end)
           o7 == Label(l)
           o8 == Push(Imm(1))
           o9 == Jump("jmp", end)
           o10 == Label(end)
           t == <<o1, o2, o3, o4, o5, o6, o7, o8, o9, o10>>
<1>1. o1 \in Ops(F) /\ o1[1] \notin Jumps /\ o1[1] # "label"
  <2>1. o1 \in Plain(F)
    BY FixedOps, RegistersAre
  <2> HIDE DEF o1
  <2> QED  BY <2>1, OpsAre, PlainIsNoLabel
<1>2. o2 \in Ops(F) /\ o2[1] \notin Jumps /\ o2[1] # "label"
  <2>1. o2 \in Plain(F)
    BY FixedOps, RegistersAre
  <2> HIDE DEF o2
  <2> QED  BY <2>1, OpsAre, PlainIsNoLabel
<1>3. o3 \in Ops(F) /\ o3[1] \notin Jumps /\ o3[1] # "label"
  <2>1. o3 \in Plain(F)
    BY FixedOps, RegistersAre
  <2> HIDE DEF o3
  <2> QED  BY <2>1, OpsAre, PlainIsNoLabel
<1>4. o4 \in Ops(F) /\ o4[1] \in Jumps /\ o4[1] # "label" /\ o4[2] = l
  <2>1. c \in Jumps
    BY DEF Jumps
  <2> QED  BY <2>1, OpsAre, CodeIs
<1>5. o5 \in Ops(F) /\ o5[1] \notin Jumps /\ o5[1] # "label"
  <2>1. o5 \in Plain(F)
    BY FixedOps, RegistersAre
  <2> HIDE DEF o5
  <2> QED  BY <2>1, OpsAre, PlainIsNoLabel
<1>6. o6 \in Ops(F) /\ o6[1] \in Jumps /\ o6[1] # "label" /\ o6[2] = end
  <2>1. "jmp" \in Jumps
    BY DEF Jumps
  <2> QED  BY <2>1, OpsAre, CodeIs
<1>7. o7 \in Ops(F) /\ o7[1] \notin Jumps /\ o7[1] = "label" /\ o7[2] = l
  BY OpsAre, CodeIs
<1>8. o8 \in Ops(F) /\ o8[1] \notin Jumps /\ o8[1] # "label"
  <2>1. o8 \in Plain(F)
    BY FixedOps, RegistersAre
  <2> HIDE DEF o8
  <2> QED  BY <2>1, OpsAre, PlainIsNoLabel
<1>9. o9 \in Ops(F) /\ o9[1] \in Jumps /\ o9[1] # "label" /\ o9[2] = end
  <2>1. "jmp" \in Jumps
    BY DEF Jumps
  <2> QED  BY <2>1, OpsAre, CodeIs
<1>10. o10 \in Ops(F) /\ o10[1] \notin Jumps /\ o10[1] = "label" /\ o10[2] = end
  BY OpsAre, CodeIs
<1> HIDE DEF o1, o2, o3, o4, o5, o6, o7, o8, o9, o10
<1>11. DOMAIN t = 1 .. 10 /\ t[1] = o1 /\ t[2] = o2 /\ t[3] = o3 /\ t[4] = o4 /\ t[5] = o5 /\ t[6] = o6 /\ t[7] = o7 /\ t[8] = o8 /\ t[9] = o9 /\ t[10] = o10
  OBVIOUS
<1>12. t \in Seq(Ops(F))
  BY <1>1, <1>2, <1>3, <1>4, <1>5, <1>6, <1>7, <1>8, <1>9, <1>10
<1> HIDE DEF t
<1>13. \A i \in DOMAIN t : i \in {1, 2, 3, 4, 5, 6, 7, 8, 9, 10}
  BY <1>11
<1>14. Labels(t) = {7, 10}
  BY <1>1, <1>2, <1>3, <1>4, <1>5, <1>6, <1>7, <1>8, <1>9, <1>10, <1>11, <1>13 DEF Labels
<1>15. JumpsOf(t) = {4, 6, 9}
  BY <1>1, <1>2, <1>3, <1>4, <1>5, <1>6, <1>7, <1>8, <1>9, <1>10, <1>11, <1>13 DEF JumpsOf
<1>16. LabelSet(t) = {l, end}
  BY <1>1, <1>2, <1>3, <1>4, <1>5, <1>6, <1>7, <1>8, <1>9, <1>10, <1>11, <1>14 DEF LabelSet
<1>17. JumpSet(t) = {l, end}
  BY <1>1, <1>2, <1>3, <1>4, <1>5, <1>6, <1>7, <1>8, <1>9, <1>10, <1>11, <1>15 DEF JumpSet
<1>18. Unique(t)
  BY <1>1, <1>2, <1>3, <1>4, <1>5, <1>6, <1>7, <1>8, <1>9, <1>10, <1>11, <1>14 DEF Unique
<1> QED  BY <1>12, <1>16, <1>17, <1>18 DEF t, o1, o2, o3, o4, o5, o6, o7, o8, o9, o10

\* The end of a branch.
LEMMA BranchText ==
    ASSUME NEW F, NEW l \in AnyLabel(F), NEW to \in AnyLabel(F)
    PROVE  LET t == <<Jump("jmp", to), Label(l)>>
           IN t \in Seq(Ops(F)) /\ Unique(t) /\ LabelSet(t) = {l} /\ JumpSet(t) = {to}
<1> DEFINE o1 == Jump("jmp", to)
           o2 == Label(l)
           t == <<o1, o2>>
<1>1. o1 \in Ops(F) /\ o1[1] \in Jumps /\ o1[1] # "label" /\ o1[2] = to
  <2>1. "jmp" \in Jumps
    BY DEF Jumps
  <2> QED  BY <2>1, OpsAre, CodeIs
<1>2. o2 \in Ops(F) /\ o2[1] \notin Jumps /\ o2[1] = "label" /\ o2[2] = l
  BY OpsAre, CodeIs
<1> HIDE DEF o1, o2
<1>3. DOMAIN t = 1 .. 2 /\ t[1] = o1 /\ t[2] = o2
  OBVIOUS
<1>4. t \in Seq(Ops(F))
  BY <1>1, <1>2
<1> HIDE DEF t
<1>5. \A i \in DOMAIN t : i \in {1, 2}
  BY <1>3
<1>6. Labels(t) = {2}
  BY <1>1, <1>2, <1>3, <1>5 DEF Labels
<1>7. JumpsOf(t) = {1}
  BY <1>1, <1>2, <1>3, <1>5 DEF JumpsOf
<1>8. LabelSet(t) = {l}
  BY <1>1, <1>2, <1>3, <1>6 DEF LabelSet
<1>9. JumpSet(t) = {to}
  BY <1>1, <1>2, <1>3, <1>7 DEF JumpSet
<1>10. Unique(t)
  BY <1>1, <1>2, <1>3, <1>6 DEF Unique
<1> QED  BY <1>4, <1>8, <1>9, <1>10 DEF t, o1, o2
-----------------------------------------------------------------------------
(* Variables and calls, in the function x                                  *)

InFunction(F, x, f) == InTables(f) /\ DOMAIN f.functions = F /\ f.func.ident = x /\ x \in F

LEMMA CellIs ==
    ASSUME NEW F, NEW x, NEW f, InFunction(F, x, f), NEW y, Resolves(f, y)
    PROVE  \E b \in Registers \cup {"global_vars"}, n \in Int : Cell(f, y) = Mem(b, n)
<1>1. Symbol(f, y).addr \in Int
  BY SymbolIs DEF InFunction
<1>2. "rbp" \in Registers
  BY RegistersAre
<1> QED  BY <1>1, <1>2 DEF Cell

LEMMA CellOps ==
    ASSUME NEW F, NEW x, NEW f, InFunction(F, x, f), NEW y, Resolves(f, y)
    PROVE  Push(Cell(f, y)) \in Plain(F) /\ Mov(Cell(f, y), Reg("rax")) \in Plain(F)
<1>1. PICK b \in Registers \cup {"global_vars"}, n \in Int : Cell(f, y) = Mem(b, n)
  BY CellIs
<1>2. Push(Mem(b, n)) \in Plain(F)
  BY FixedOps
<1>3. Mov(Mem(b, n), Reg("rax")) \in Plain(F)
  BY FixedOps, RegistersAre
<1> QED  BY <1>1, <1>2, <1>3

LEMMA ArrayAddressPlain ==
    ASSUME NEW F, NEW x, NEW f, InFunction(F, x, f), NEW y, Resolves(f, y)
    PROVE  ArrayAddress(f, y) \in Seq(Plain(F))
<1> DEFINE addr == Symbol(f, y).addr
           home == Home(f, y).type
           S == Plain(F)
           o1 == Mov(Reg("rdx"), Static(addr))
           o2 == Push(Mem("rbp", addr))
           o3 == Pop(Reg("rdx"))
           o4 == Lea("rdx", Mem("rbp", addr))
<1>1. addr \in Int /\ home \in {"global", "param", "local"}
  BY SymbolIs DEF InFunction
<1>2. ArrayAddress(f, y) = CASE home = "global" -> <<o1>>
                             [] home = "param" -> <<o2, o3>>
                             [] home = "local" -> <<o4>>
  BY DEF ArrayAddress
<1> HIDE DEF addr, home
<1>3. o1 \in S
  BY <1>1, FixedOps, RegistersAre
<1>4. o2 \in S
  BY <1>1, FixedOps, RegistersAre
<1>5. o3 \in S
  BY FixedOps, RegistersAre
<1>6. o4 \in S
  BY <1>1, FixedOps, RegistersAre
<1> HIDE DEF S, o1, o2, o3, o4
<1>7. <<o1>> \in Seq(S) /\ <<o2, o3>> \in Seq(S) /\ <<o4>> \in Seq(S)
  BY <1>3, <1>4, <1>5, <1>6
<1> QED  BY <1>1, <1>2, <1>7 DEF S

LEMMA ElementAddressClosed ==
    ASSUME NEW F, NEW x, NEW f, InFunction(F, x, f), NEW E, NEW S, ClosedBelow(F, x, E, S),
           NEW e, e.child[1] \in S, Resolves(f, e.ident), NEW out \in Counters
    PROVE  Closed(F, x, out, ElementAddress(f, E, e, out))
<1> DEFINE a == <<Pop(Reg("rax"))>>
           o1 == Lea("rax", Element)
           o2 == Push(Reg("rax"))
           b == <<o1, o2>>
           T == Plain(F)
           t == a \o ArrayAddress(f, e.ident) \o b
<1>1. Closed(F, x, out, E[e.child[1], out])
  BY DEF ClosedBelow
<1>2. ElementAddress(f, E, e, out) = Emit(E[e.child[1], out], t)
  BY DEF ElementAddress, Element
<1>3. t \in Seq(T)
  <2>1. Pop(Reg("rax")) \in T
    BY FixedOps, RegistersAre
  <2>2. o1 \in T
    BY FixedOps, RegistersAre
  <2>3. o2 \in T
    BY FixedOps, RegistersAre
  <2>4. ArrayAddress(f, e.ident) \in Seq(T)
    BY ArrayAddressPlain
  <2> HIDE DEF T, o1, o2
  <2>5. a \in Seq(T) /\ b \in Seq(T)
    BY <2>1, <2>2, <2>3
  <2> HIDE DEF a, b
  <2>6. a \o ArrayAddress(f, e.ident) \in Seq(T)
    BY <2>4, <2>5
  <2> QED  BY <2>5, <2>6
<1> HIDE DEF t
<1> QED  BY <1>1, <1>2, <1>3, EmitClosed

LEMMA LoadArrayClosed ==
    ASSUME NEW F, NEW x, NEW f, InFunction(F, x, f), NEW E, NEW S, ClosedBelow(F, x, E, S),
           NEW e, e.child[1] \in S, Resolves(f, e.ident), NEW out \in Counters
    PROVE  Closed(F, x, out, LoadArray(f, E, e, out))
<1> DEFINE o1 == Pop(Reg("rax"))
           o2 == Push(Mem("rax", 0))
           t == <<o1, o2>>
<1>1. t \in Seq(Plain(F))
  <2>1. o1 \in Plain(F)
    BY FixedOps, RegistersAre
  <2>2. o2 \in Plain(F)
    BY FixedOps, RegistersAre
  <2> HIDE DEF o1, o2
  <2> QED  BY <2>1, <2>2
<1>2. LoadArray(f, E, e, out) = Emit(ElementAddress(f, E, e, out), t)
  BY DEF LoadArray
<1> HIDE DEF t
<1> QED  BY <1>1, <1>2, ElementAddressClosed, EmitClosed

\* The names of a scope are those of the tables.
LEMMA ScopeIs ==
    ASSUME NEW f
    PROVE  /\ \A y \in Scope(f).values : Resolves(f, y) /\ Symbol(f, y).kind = "value"
           /\ \A y \in Scope(f).arrays : Resolves(f, y) /\ Symbol(f, y).kind = "array"
           /\ \A c \in Scope(f).calls : Resolves(f, c[1]) /\ Symbol(f, c[1]).kind = "function"
           /\ Narrower(Scope(f), AnyScope)
  BY DEF Scope, Narrower, AnyScope

LEMMA WriteVarClosed ==
    ASSUME NEW F, NEW x, NEW f, InFunction(F, x, f), NEW E, NEW S, ClosedBelow(F, x, E, S),
           NEW e, IsTarget(Scope(f), S, e), NEW out \in Counters
    PROVE  Closed(F, x, out, WriteVar(f, E, e, out))
<1>1. CASE e.label = "ArrayLR"
  <2> DEFINE o1 == Pop(Reg("rax"))
             o2 == Pop(Mem("rax", 0))
             t == <<o1, o2>>
  <2>1. e.child[1] \in S /\ Resolves(f, e.ident)
    BY <1>1, ScopeIs DEF IsTarget, IsUnary
  <2>2. t \in Seq(Plain(F))
    <3>1. o1 \in Plain(F)
      BY FixedOps, RegistersAre
    <3>2. o2 \in Plain(F)
      BY FixedOps, RegistersAre
    <3> HIDE DEF o1, o2
    <3> QED  BY <3>1, <3>2
  <2>3. WriteVar(f, E, e, out) = Emit(ElementAddress(f, E, e, out), t)
    BY <1>1 DEF WriteVar
  <2> HIDE DEF t
  <2> QED  BY <2>1, <2>2, <2>3, ElementAddressClosed, EmitClosed
<1>2. CASE e.label # "ArrayLR"
  <2> DEFINE o1 == Pop(Reg("rax"))
             o2 == Mov(Cell(f, e.ident), Reg("rax"))
             t == <<o1, o2>>
  <2>1. Resolves(f, e.ident)
    BY <1>2, ScopeIs DEF IsTarget, IsUnary
  <2>2. t \in Seq(Plain(F))
    <3>1. o1 \in Plain(F)
      BY FixedOps, RegistersAre
    <3>2. o2 \in Plain(F)
      BY <2>1, CellOps
    <3> HIDE DEF o1, o2
    <3> QED  BY <3>1, <3>2
  <2>3. WriteVar(f, E, e, out) = Write(t, out)
    BY <1>2 DEF WriteVar
  <2> HIDE DEF t
  <2> QED  BY <2>2, <2>3, WritePlain
<1> QED  BY <1>1, <1>2

\* The registers that a call fills.
LEMMA ParamRegIs == \A i \in 1 .. NbRegs : ParamReg[i] \in Registers
<1>1. Len(ParamReg) = 6
  BY DEF ParamReg
<1>2. \A i \in 1 .. 6 : ParamReg[i] \in Registers
  BY DEF ParamReg, Registers
<1>3. \A i \in 1 .. NbRegs : i \in 1 .. 6
  BY <1>1, NbRegsAssumption, RegistersAssumption
<1> QED  BY <1>2, <1>3

LEMMA InRegistersIs ==
    ASSUME NEW fst, ParamCount(fst) \in Nat
    PROVE  InRegisters(fst) \in Nat /\ InRegisters(fst) <= NbRegs /\ InRegisters(fst) <= ParamCount(fst)
  BY NbRegsAssumption DEF InRegisters

LEMMA CallClosed ==
    ASSUME NEW F, NEW x, NEW f, InFunction(F, x, f), NEW E, NEW S, ClosedBelow(F, x, E, S),
           NEW e, IsCallOver(Scope(f), S, e), NEW out \in Counters
    PROVE  Closed(F, x, out, Call(f, E, e, out))
<1> DEFINE callee == f.functions[e.ident]
           pops == [i \in 1 .. InRegisters(callee) |-> Pop(Reg(ParamReg[i]))]
           args == e.child[1].child
           back == [i \in 1 .. Len(args) |-> args[Len(args) + 1 - i]]
           ready == IF e.child[1].label = "EmptyArgs" THEN Write(<<>>, out)
                    ELSE Emit(Arguments(E, args, out), pops)
           t == <<<<"call", FunctionLabel(e.ident)>>>>
           T == Plain(F)
<1>1. Resolves(f, e.ident) /\ Symbol(f, e.ident).kind = "function"
  <2>1. <<e.ident, Len(args)>> \in Scope(f).calls
    BY DEF IsCallOver
  <2> QED  BY <2>1, ScopeIs
<1>2. e.ident \in F /\ ParamCount(callee) \in Nat
  BY <1>1, SymbolIs DEF InFunction
<1>3. Call(f, E, e, out) = Emit(ready, t \o DropArguments(callee))
  BY DEF Call
<1>4. args \in Seq(S)
  BY DEF IsCallOver
<1> HIDE DEF callee, args
<1>5. back \in Seq(S)
  <2> DEFINE n == Len(args)
  <2>1. n \in Nat /\ \A i \in 1 .. n : n + 1 - i \in 1 .. n /\ args[n + 1 - i] \in S
    BY <1>4
  <2> HIDE DEF n
  <2>2. [i \in 1 .. n |-> args[n + 1 - i]] \in [1 .. n -> S]
    BY <2>1
  <2>3. [i \in 1 .. n |-> args[n + 1 - i]] \in Seq(S)
    BY <2>1, <2>2
  <2> QED  BY <2>3 DEF n
<1>6. Closed(F, x, out, Arguments(E, args, out))
  <2>1. Arguments(E, args, out) = Each(E, back, out)
    BY DEF Arguments
  <2> HIDE DEF back
  <2> QED  BY <1>5, <2>1, EachClosed
<1>7. pops \in Seq(T)
  <2> DEFINE n == InRegisters(callee)
  <2>1. n \in Nat /\ \A i \in 1 .. n : i \in 1 .. NbRegs
    BY <1>2, InRegistersIs, NbRegsAssumption
  <2>2. \A i \in 1 .. n : Pop(Reg(ParamReg[i])) \in T
    BY <2>1, ParamRegIs, FixedOps
  <2> HIDE DEF n, T
  <2>3. [i \in 1 .. n |-> Pop(Reg(ParamReg[i]))] \in [1 .. n -> T]
    BY <2>2
  <2>4. [i \in 1 .. n |-> Pop(Reg(ParamReg[i]))] \in Seq(T)
    BY <2>1, <2>3
  <2> QED  BY <2>4 DEF n
<1> HIDE DEF pops
<1>8. Closed(F, x, out, ready)
  <2>1. Closed(F, x, out, Emit(Arguments(E, args, out), pops))
    BY <1>6, <1>7, EmitClosed
  <2>2. <<>> \in Seq(Plain(F))
    OBVIOUS
  <2>3. Closed(F, x, out, Write(<<>>, out))
    BY <2>2, WritePlain
  <2> QED  BY <2>1, <2>3
<1> HIDE DEF ready
<1>9. t \o DropArguments(callee) \in Seq(T)
  <2>1. <<"call", FunctionLabel(e.ident)>> \in T
    BY <1>2, PlainIs
  <2>2. DropArguments(callee) \in Seq(T)
    <3> DEFINE n == (ParamCount(callee) - NbRegs) * WordSize
               o == Compute("add", "rsp", Imm(n))
    <3>1. n \in Int
      BY <1>2, NbRegsAssumption DEF WordSize
    <3> HIDE DEF n
    <3>2. o \in T
      BY <3>1, FixedOps, RegistersAre
    <3>3. DropArguments(callee) = <<o>> \/ DropArguments(callee) = <<>>
      BY DEF DropArguments, n
    <3> HIDE DEF o, T
    <3>4. <<o>> \in Seq(T) /\ <<>> \in Seq(T)
      BY <3>2
    <3> QED  BY <3>3, <3>4
  <2> HIDE DEF T
  <2>3. t \in Seq(T)
    BY <2>1
  <2> HIDE DEF t
  <2> QED  BY <2>2, <2>3
<1> HIDE DEF t
<1> QED  BY <1>3, <1>8, <1>9, EmitClosed
-----------------------------------------------------------------------------
(* Expressions, in the function x                                          *)

LEMMA LoadVarClosed ==
    ASSUME NEW F, NEW x, NEW f, InFunction(F, x, f), NEW E, NEW S, ClosedBelow(F, x, E, S),
           NEW e, \/ IsCallOver(Scope(f), S, e)
                  \/ e.child = <<>> /\ e.ident \in Scope(f).values \cup Scope(f).arrays
                  \/ e.child # <<>> /\ e.child[1] \in S /\ e.ident \in Scope(f).arrays,
           NEW out \in Counters
    PROVE  Closed(F, x, out, LoadVar(f, E, e, out))
<1>1. CASE IsCallOver(Scope(f), S, e)
  <2> DEFINE o == Push(Reg("rax"))
             t == <<o>>
  <2>1. <<e.ident, Len(e.child[1].child)>> \in Scope(f).calls
    BY <1>1 DEF IsCallOver
  <2>2. Symbol(f, e.ident).kind = "function"
    BY <2>1, ScopeIs
  <2>3. LoadVar(f, E, e, out) = Emit(Call(f, E, e, out), t)
    BY <2>2 DEF LoadVar
  <2>4. t \in Seq(Plain(F))
    <3>1. o \in Plain(F)
      BY FixedOps, RegistersAre
    <3> HIDE DEF o
    <3> QED  BY <3>1
  <2> HIDE DEF t
  <2> QED  BY <1>1, <2>3, <2>4, CallClosed, EmitClosed
<1>2. CASE e.child = <<>> /\ e.ident \in Scope(f).values
  <2> DEFINE o == Push(Cell(f, e.ident))
             t == <<o>>
  <2>1. Resolves(f, e.ident) /\ Symbol(f, e.ident).kind = "value"
    BY <1>2, ScopeIs
  <2>2. LoadVar(f, E, e, out) = Write(t, out)
    BY <2>1 DEF LoadVar
  <2>3. o \in Plain(F)
    BY <2>1, CellOps
  <2>4. t \in Seq(Plain(F))
    <3> HIDE DEF o
    <3> QED  BY <2>3
  <2> HIDE DEF t
  <2> QED  BY <2>2, <2>4, WritePlain
<1>3. CASE e.child = <<>> /\ e.ident \in Scope(f).arrays
  <2> DEFINE o == Push(Reg("rdx"))
             t == <<o>>
             a == ArrayAddress(f, e.ident)
  <2>1. Resolves(f, e.ident) /\ Symbol(f, e.ident).kind = "array"
    BY <1>3, ScopeIs
  <2>2. LoadVar(f, E, e, out) = Write(a \o t, out)
    BY <1>3, <2>1 DEF LoadVar
  <2>3. t \in Seq(Plain(F))
    <3>1. o \in Plain(F)
      BY FixedOps, RegistersAre
    <3> HIDE DEF o
    <3> QED  BY <3>1
  <2>4. a \in Seq(Plain(F))
    BY <2>1, ArrayAddressPlain
  <2> HIDE DEF t, a
  <2>5. a \o t \in Seq(Plain(F))
    BY <2>3, <2>4
  <2> QED  BY <2>2, <2>5, WritePlain
<1>4. CASE e.child # <<>> /\ e.child[1] \in S /\ e.ident \in Scope(f).arrays
  <2>1. Resolves(f, e.ident) /\ Symbol(f, e.ident).kind = "array"
    BY <1>4, ScopeIs
  <2>2. LoadVar(f, E, e, out) = LoadArray(f, E, e, out)
    BY <1>4, <2>1 DEF LoadVar
  <2> QED  BY <1>4, <2>1, <2>2, LoadArrayClosed
<1> QED  BY <1>1, <1>2, <1>3, <1>4

\* Both operands are there, then the operation: its labels take the number that
\* the first of them was written behind.
LEMMA OpeBoolClosed ==
    ASSUME NEW F, NEW x, NEW f, InFunction(F, x, f), NEW E, NEW S, ClosedBelow(F, x, E, S),
           NEW e, e.child[1] \in S, e.child[2] \in S, NEW out \in Counters
    PROVE  Closed(F, x, out, OpeBool(f, E, e, out))
<1> DEFINE and == e.label = "And"
           n == out.bool
           name == IF and THEN "bool_false" ELSE "bool_true"
           shortcut == Local(f, name, n)
           end == Local(f, "bool_end", n)
           cond == IF and THEN "je" ELSE "jne"
           test == <<Pop(Reg("rax")), Compare("rax", Imm(0)), Jump(cond, shortcut)>>
           outcomes == <<Push(Imm(IF and THEN 1 ELSE 0)), Jump("jmp", end), Label(shortcut),
                         Push(Imm(IF and THEN 0 ELSE 1)), Label(end)>>
           from == [out EXCEPT !.bool = n + 1]
           fst == E[e.child[1], from]
           left == Emit(fst, test)
           snd == E[e.child[2], Behind(left)]
           both == Then(left, snd)
           right == Emit(both, test)
           whole == Emit(right, outcomes)
<1>1. OpeBool(f, E, e, out) = whole
  BY DEF OpeBool, Followed
<1>2. n \in Nat /\ out.cmp \in Nat
  BY CountersAre
<1>3. name \in BoolNames /\ "bool_end" \in BoolNames /\ name # "bool_end" /\ BoolNames \subseteq LocalNames
  BY DEF BoolNames, LocalNames
<1>4. /\ shortcut = <<x, name, n>> /\ end = <<x, "bool_end", n>> /\ shortcut # end
      /\ shortcut \in AnyLabel(F) /\ end \in AnyLabel(F)
  <2>1. f.func.ident \in F /\ f.func.ident = x
    BY DEF InFunction
  <2> HIDE DEF name, n
  <2> QED  BY <1>2, <1>3, <2>1, LocalIs
<1>5. from \in Counters /\ from.cmp = out.cmp /\ from.bool = n + 1
  BY CountersGrow
<1>6. test \in Seq(Ops(F)) /\ Unique(test) /\ LabelSet(test) = {} /\ JumpSet(test) = {shortcut}
  <2>1. cond \in Jumps
    BY DEF Jumps
  <2> HIDE DEF cond, shortcut
  <2> QED  BY <1>4, <2>1, TestText
<1>7. /\ outcomes \in Seq(Ops(F)) /\ Unique(outcomes)
      /\ LabelSet(outcomes) = {shortcut, end} /\ JumpSet(outcomes) = {end}
  <2> DEFINE p == IF and THEN 1 ELSE 0
             q == IF and THEN 0 ELSE 1
  <2>1. p \in Int /\ q \in Int
    OBVIOUS
  <2> HIDE DEF p, q, shortcut, end
  <2>2. LET t == <<Push(Imm(p)), Jump("jmp", end), Label(shortcut), Push(Imm(q)), Label(end)>>
        IN /\ t \in Seq(Ops(F)) /\ Unique(t)
           /\ LabelSet(t) = {shortcut, end} /\ JumpSet(t) = {end}
    <3>1. shortcut \in AnyLabel(F) /\ end \in AnyLabel(F) /\ shortcut # end
      BY <1>4
    <3> QED  BY <2>1, <3>1, ShortcutText
  <2> QED  BY <2>2 DEF p, q
<1> HIDE DEF and, name, shortcut, end, cond, test, outcomes, from
<1>8. Piece(F, x, {}, {}, from, fst)
  BY <1>5 DEF ClosedBelow, Closed
<1> HIDE DEF fst
<1>9. Piece(F, x, {}, {shortcut}, from, left)
  <2>1. Piece(F, x, {} \cup LabelSet(test), {} \cup JumpSet(test), from, left)
    BY <1>6, <1>8, EmitPiece
  <2>2. {} \cup LabelSet(test) = {} /\ {} \cup JumpSet(test) = {shortcut}
    BY <1>6
  <2> QED  BY <2>1, <2>2
<1> HIDE DEF left
<1>10. Piece(F, x, {}, {}, Behind(left), snd)
  <2>1. Behind(left) \in Counters
    BY <1>9, PieceIs DEF Piece
  <2> QED  BY <2>1 DEF ClosedBelow, Closed
<1> HIDE DEF snd
<1>11. Piece(F, x, {}, {shortcut}, from, both)
  <2>1. Piece(F, x, {} \cup {}, {shortcut} \cup {}, from, both)
    BY <1>9, <1>10, ThenPiece
  <2>2. {} \cup {} = {} /\ {shortcut} \cup {} = {shortcut}
    OBVIOUS
  <2> QED  BY <2>1, <2>2
<1> HIDE DEF both
<1>12. Piece(F, x, {}, {shortcut}, from, right)
  <2>1. Piece(F, x, {} \cup LabelSet(test), {shortcut} \cup JumpSet(test), from, right)
    BY <1>6, <1>11, EmitPiece
  <2>2. {} \cup LabelSet(test) = {} /\ {shortcut} \cup JumpSet(test) = {shortcut}
    BY <1>6
  <2> QED  BY <2>1, <2>2
<1> HIDE DEF right
<1>13. Piece(F, x, {shortcut, end}, {shortcut, end}, from, whole)
  <2>1. right.cmp \in Nat /\ right.bool \in Nat
    BY <1>12, PieceIs DEF Piece
  <2>2. shortcut \notin Fresh(x, from, right) /\ end \notin Fresh(x, from, right)
    <3>1. n < from.bool
      BY <1>2, <1>5
    <3> HIDE DEF n
    <3>2. <<x, name, n>> \notin Fresh(x, from, right)
      BY <1>2, <1>3, <1>5, <2>1, <3>1, OutsideBool
    <3>3. <<x, "bool_end", n>> \notin Fresh(x, from, right)
      BY <1>2, <1>3, <1>5, <2>1, <3>1, OutsideBool
    <3> QED  BY <1>4, <3>2, <3>3
  <2>3. \A l \in LabelSet(outcomes) : l \notin Fresh(x, from, right) \cup {}
    BY <1>7, <2>2
  <2>4. Piece(F, x, {} \cup LabelSet(outcomes), {shortcut} \cup JumpSet(outcomes), from, whole)
    BY <1>7, <1>12, <2>3, EmitPiece
  <2>5. {} \cup LabelSet(outcomes) = {shortcut, end} /\ {shortcut} \cup JumpSet(outcomes) = {shortcut, end}
    BY <1>7
  <2> QED  BY <2>4, <2>5
<1> HIDE DEF whole
<1>14. Closed(F, x, out, whole)
  <2>1. whole \in Pieces(F) /\ from.bool <= whole.bool /\ whole.bool \in Nat /\ whole.cmp \in Nat
    BY <1>13, PieceIs DEF Piece
  <2>2. out.cmp <= from.cmp /\ out.bool <= from.bool /\ n \in out.bool .. whole.bool - 1
    BY <1>2, <1>5, <2>1
  <2> HIDE DEF n
  <2>3. {shortcut, end} \subseteq Fresh(x, out, whole)
    BY <1>3, <1>4, <2>2 DEF Fresh
  <2>4. whole.cmp <= whole.cmp /\ whole.bool <= whole.bool
    BY <2>1
  <2> QED  BY <1>13, <2>1, <2>2, <2>3, <2>4, ClosePiece
<1> QED  BY <1>1, <1>14

LEMMA TwoOperandsClosed ==
    ASSUME NEW F, NEW x, NEW E, NEW S, ClosedBelow(F, x, E, S),
           NEW e, e.child[1] \in S, e.child[2] \in S, NEW out \in Counters
    PROVE  Closed(F, x, out, TwoOperands(E, e, out))
<1>1. Closed(F, x, out, E[e.child[1], out])
  BY DEF ClosedBelow
<1> QED  BY <1>1, FollowedClosed DEF TwoOperands

\* A comparison numbers its labels behind both operands.
LEMMA ComparisonClosed ==
    ASSUME NEW F, NEW x, NEW f, InFunction(F, x, f), NEW out, NEW r, Closed(F, x, out, r),
           NEW op \in {"==", "!=", "<", "<=", ">", ">="}
    PROVE  Closed(F, x, out, Emit([r EXCEPT !.cmp = @ + 1], Cmp(f, op, r.cmp)))
<1> DEFINE n == r.cmp
           true == Local(f, "cmp", n)
           end == Local(f, "cmp_end", n)
           t == Cmp(f, op, n)
           next == [r EXCEPT !.cmp = @ + 1]
           short == Emit(r, t)
           whole == Emit(next, t)
<1>1. /\ r \in Pieces(F) /\ out \in Counters /\ r.text \in Seq(Ops(F)) /\ n \in Nat /\ r.bool \in Nat
      /\ r = [text |-> r.text, cmp |-> n, bool |-> r.bool]
  BY DEF Closed, Piece, Pieces
<1>2. out.cmp \in Nat /\ out.bool \in Nat /\ out.cmp <= n /\ out.bool <= r.bool
  BY CountersAre DEF Closed, Piece
<1>3. "cmp" \in CmpNames /\ "cmp_end" \in CmpNames /\ CmpNames \subseteq LocalNames
  BY DEF CmpNames, LocalNames
<1>4. /\ true = <<x, "cmp", n>> /\ end = <<x, "cmp_end", n>> /\ true # end
      /\ true \in AnyLabel(F) /\ end \in AnyLabel(F)
  <2>1. f.func.ident \in F /\ f.func.ident = x
    BY DEF InFunction
  <2> HIDE DEF n
  <2> QED  BY <1>1, <1>3, <2>1, LocalIs
<1>5. /\ t \in Seq(Ops(F)) /\ Unique(t) /\ LabelSet(t) = {true, end} /\ JumpSet(t) = {true, end}
  <2>1. Jcc(op) \in Jumps
    BY DEF Jcc, Jumps
  <2>2. t = <<Pop(Reg("rax")), Pop(Reg("rcx")), Compare("rcx", Reg("rax")), Jump(Jcc(op), true),
              Push(Imm(0)), Jump("jmp", end), Label(true),
              Push(Imm(1)), Jump("jmp", end), Label(end)>>
    BY DEF Cmp
  <2> HIDE DEF true, end, t
  <2> QED  BY <1>4, <2>1, <2>2, OutcomesText
<1> HIDE DEF n, true, end, t
<1>6. /\ next = [text |-> r.text, cmp |-> n + 1, bool |-> r.bool] /\ next \in Pieces(F)
  BY <1>1 DEF Pieces, n
<1> HIDE DEF next
<1>7. /\ short = [text |-> r.text \o t, cmp |-> n, bool |-> r.bool]
      /\ whole = [text |-> r.text \o t, cmp |-> n + 1, bool |-> r.bool]
  <2>1. short = [text |-> r.text \o t, cmp |-> r.cmp, bool |-> r.bool]
    BY <1>1, PieceIs
  <2>2. whole = [text |-> next.text \o t, cmp |-> next.cmp, bool |-> next.bool]
    BY <1>6, PieceIs
  <2>3. next.text = r.text /\ next.cmp = n + 1 /\ next.bool = r.bool
    BY <1>6
  <2> QED  BY <2>1, <2>2, <2>3 DEF n
<1>8. Piece(F, x, {true, end}, {true, end}, out, short)
  <2>1. true \notin Fresh(x, out, r) /\ end \notin Fresh(x, out, r)
    <3>1. n >= r.cmp /\ r.cmp \in Nat
      BY <1>1 DEF n
    <3>2. <<x, "cmp", n>> \notin Fresh(x, out, r)
      BY <1>1, <1>3, <3>1, OutsideCmp
    <3>3. <<x, "cmp_end", n>> \notin Fresh(x, out, r)
      BY <1>1, <1>3, <3>1, OutsideCmp
    <3> QED  BY <1>4, <3>2, <3>3
  <2>2. \A l \in LabelSet(t) : l \notin Fresh(x, out, r) \cup {}
    BY <1>5, <2>1
  <2>3. Piece(F, x, {}, {}, out, r)
    BY DEF Closed
  <2>4. Piece(F, x, {} \cup LabelSet(t), {} \cup JumpSet(t), out, short)
    BY <1>5, <2>2, <2>3, EmitPiece
  <2>5. {} \cup LabelSet(t) = {true, end} /\ {} \cup JumpSet(t) = {true, end}
    BY <1>5
  <2> QED  BY <2>4, <2>5
<1> HIDE DEF short, whole
<1>9. /\ whole.text = short.text /\ whole.cmp = n + 1 /\ short.cmp = n
      /\ whole.bool = r.bool /\ short.bool = r.bool
  BY <1>7
<1>10. whole \in Pieces(F)
  <2>1. short.text \in Seq(Ops(F))
    BY <1>8, PieceIs DEF Piece
  <2>2. whole = [text |-> short.text, cmp |-> n + 1, bool |-> r.bool]
    BY <1>7, <1>9
  <2> QED  BY <1>1, <2>1, <2>2 DEF Pieces
<1>11. {true, end} \subseteq Fresh(x, out, whole)
  <2>1. n \in out.cmp .. whole.cmp - 1
    BY <1>1, <1>2, <1>9
  <2> QED  BY <1>3, <1>4, <2>1 DEF Fresh
<1>12. /\ out.cmp <= out.cmp /\ out.bool <= out.bool
       /\ short.cmp <= whole.cmp /\ short.bool <= whole.bool
  BY <1>1, <1>2, <1>9
<1>13. Closed(F, x, out, whole)
  BY <1>1, <1>8, <1>9, <1>10, <1>11, <1>12, ClosePiece
<1> QED  BY <1>13 DEF whole, next, t, n

LEMMA ExprOverClosed ==
    ASSUME NEW F, NEW x, NEW f, InFunction(F, x, f), NEW E, NEW lower, ClosedBelow(F, x, E, lower),
           NEW e \in ExpNodes(Scope(f), lower), NEW out \in Counters
    PROVE  Closed(F, x, out, ExprOver(f, E, e, out))
<1> DEFINE s == Scope(f)
<1>1. IsLeaf(s, e) \/ IsCallOver(s, lower, e) \/ IsUnary(s, lower, e) \/ IsBinary(lower, e)
  BY ExpNodesAre
<1> HIDE DEF s
<1>2. CASE e.label \in {"Num", "Character"}
  <2> DEFINE o == Push(Imm(e.num))
             t == <<o>>
  <2>1. e.num \in Int
    BY <1>1, <1>2 DEF IsLeaf, IsCallOver, IsUnary, IsBinary
  <2>2. ExprOver(f, E, e, out) = Write(t, out)
    BY <1>2 DEF ExprOver
  <2>3. o \in Plain(F)
    BY <2>1, FixedOps
  <2> HIDE DEF o
  <2>4. t \in Seq(Plain(F))
    BY <2>3
  <2> HIDE DEF t
  <2> QED  BY <2>2, <2>4, WritePlain
<1>3. CASE e.label \in {"Ident", "ArrayLR"}
  <2>1. \/ IsCallOver(s, lower, e)
        \/ e.child = <<>> /\ e.ident \in s.values \cup s.arrays
        \/ e.child # <<>> /\ e.child[1] \in lower /\ e.ident \in s.arrays
    BY <1>1, <1>3 DEF IsLeaf, IsUnary, IsBinary
  <2>2. ExprOver(f, E, e, out) = LoadVar(f, E, e, out)
    BY <1>3 DEF ExprOver
  <2> QED  BY <2>1, <2>2, LoadVarClosed DEF s
<1>4. CASE e.label = "AddsubU"
  <2>1. e.child[1] \in lower
    BY <1>1, <1>4 DEF IsLeaf, IsCallOver, IsUnary, IsBinary
  <2>2. ExprOver(f, E, e, out) = Emit(E[e.child[1], out], OpeUnaire(e.ident))
    BY <1>4 DEF ExprOver
  <2>3. Closed(F, x, out, E[e.child[1], out])
    BY <2>1 DEF ClosedBelow
  <2> QED  BY <2>2, <2>3, OpeUnairePlain, EmitClosed
<1>5. CASE e.label = "Not"
  <2>1. e.child[1] \in lower
    BY <1>1, <1>5 DEF IsLeaf, IsCallOver, IsUnary, IsBinary
  <2>2. ExprOver(f, E, e, out) = Emit(E[e.child[1], out], Not)
    BY <1>5 DEF ExprOver
  <2>3. Closed(F, x, out, E[e.child[1], out])
    BY <2>1 DEF ClosedBelow
  <2> QED  BY <2>2, <2>3, EndingsPlain, EmitClosed
<1>6. CASE e.label \in {"Or", "And"}
  <2>1. e.child[1] \in lower /\ e.child[2] \in lower
    BY <1>1, <1>6 DEF IsLeaf, IsCallOver, IsUnary, IsBinary
  <2>2. ExprOver(f, E, e, out) = OpeBool(f, E, e, out)
    BY <1>6 DEF ExprOver
  <2> QED  BY <2>1, <2>2, OpeBoolClosed
<1>7. CASE e.label \in {"Addsub", "Divstar"}
  <2>1. e.child[1] \in lower /\ e.child[2] \in lower /\ e.ident \in {"+", "-", "*", "/", "%"}
    BY <1>1, <1>7 DEF IsLeaf, IsCallOver, IsUnary, IsBinary
  <2>2. ExprOver(f, E, e, out) = Emit(TwoOperands(E, e, out), OpeArith(e.ident))
    BY <1>7 DEF ExprOver
  <2>3. Closed(F, x, out, TwoOperands(E, e, out))
    BY <2>1, TwoOperandsClosed
  <2>4. OpeArith(e.ident) \in Seq(Plain(F))
    BY <2>1, OpeArithPlain
  <2> QED  BY <2>2, <2>3, <2>4, EmitClosed
<1>8. CASE e.label \in {"Eq", "Order"}
  <2>1. /\ e.child[1] \in lower /\ e.child[2] \in lower
        /\ e.ident \in {"==", "!=", "<", "<=", ">", ">="}
    BY <1>1, <1>8 DEF IsLeaf, IsCallOver, IsUnary, IsBinary
  <2> DEFINE r == TwoOperands(E, e, out)
  <2>2. ExprOver(f, E, e, out) = Emit([r EXCEPT !.cmp = @ + 1], Cmp(f, e.ident, r.cmp))
    BY <1>8 DEF ExprOver
  <2>3. Closed(F, x, out, r)
    BY <2>1, TwoOperandsClosed
  <2> HIDE DEF r
  <2> QED  BY <2>1, <2>2, <2>3, ComparisonClosed
<1>9. e.label \in {"Num", "Character", "Ident", "ArrayLR", "AddsubU", "Not", "Or", "And", "Addsub",
                   "Divstar", "Eq", "Order"}
  BY <1>1 DEF IsLeaf, IsCallOver, IsUnary, IsBinary
<1> QED  BY <1>2, <1>3, <1>4, <1>5, <1>6, <1>7, <1>8, <1>9
-----------------------------------------------------------------------------
(* Levels                                                                  *)

\* g gives the code of the expressions of the heights up to k.
ExprCode(f, k, g) ==
    /\ g = [h \in 0 .. k |-> g[h]] /\ g[0] = [x \in {} |-> x]
    /\ \A h \in 1 .. k :
         g[h] = [x \in ExpsUpTo(AnyScope)[h] \X Counters |-> ExprOver(f, g[h - 1], x[1], x[2])]

LEMMA ExprCodeExist == ASSUME NEW f, NEW n \in Nat PROVE \E g : ExprCode(f, n, g)
<1> DEFINE S == {k \in 0 .. n : \E g : ExprCode(f, k, g)}
<1>1. 0 \in S
  <2>1. ExprCode(f, 0, [h \in 0 .. 0 |-> [x \in {} |-> x]])
    BY DEF ExprCode
  <2> QED  BY <2>1
<1>2. ASSUME NEW k \in 0 .. n, k + 1 \in 0 .. n, k \in S PROVE k + 1 \in S
  <2>1. PICK g : ExprCode(f, k, g)
    BY <1>2
  <2> DEFINE v == [x \in ExpsUpTo(AnyScope)[k + 1] \X Counters |-> ExprOver(f, g[k], x[1], x[2])]
             u == [h \in 0 .. k + 1 |-> IF h = k + 1 THEN v ELSE g[h]]
  <2> HIDE DEF v
  <2>2. u = [h \in 0 .. k + 1 |-> u[h]] /\ u[k + 1] = v /\ \A h \in 0 .. k : u[h] = g[h]
    OBVIOUS
  <2> HIDE DEF u
  <2>3. u[0] = [x \in {} |-> x]
    <3>1. 0 \in 0 .. k /\ g[0] = [x \in {} |-> x]
      BY <2>1 DEF ExprCode
    <3> QED  BY <2>2, <3>1
  <2>4. ASSUME NEW h \in 1 .. k + 1
        PROVE  u[h] = [x \in ExpsUpTo(AnyScope)[h] \X Counters |-> ExprOver(f, u[h - 1], x[1], x[2])]
    <3>1. CASE h = k + 1
      <4>1. h - 1 = k /\ k \in 0 .. k
        BY <3>1
      <4>2. u[h - 1] = g[k]
        BY <2>2, <4>1
      <4> QED  BY <2>2, <3>1, <4>2 DEF v
    <3>2. CASE h # k + 1
      <4>1. h \in 1 .. k /\ h - 1 \in 0 .. k /\ h \in 0 .. k
        BY <3>2
      <4>2. u[h] = g[h] /\ u[h - 1] = g[h - 1]
        BY <2>2, <4>1
      <4> QED  BY <2>1, <4>1, <4>2 DEF ExprCode
    <3> QED  BY <3>1, <3>2
  <2>5. ExprCode(f, k + 1, u)
    BY <2>2, <2>3, <2>4 DEF ExprCode
  <2> QED  BY <1>2, <2>5
<1> HIDE DEF S
<1>3. 0 .. n \subseteq S
  BY <1>1, <1>2, Reaches
<1> QED  BY <1>3 DEF S

LEMMA ExprCodeAre ==
    ASSUME NEW f, NEW h \in 1 .. Height, NEW n \in ExpsUpTo(AnyScope)[h], NEW out \in Counters
    PROVE  ExprUpTo(f)[h][n, out] = ExprOver(f, ExprUpTo(f)[h - 1], n, out)
<1> DEFINE At(g, k) == [x \in ExpsUpTo(AnyScope)[k] \X Counters |-> ExprOver(f, g[k - 1], x[1], x[2])]
           Rec(g) == g = [k \in 0 .. Height |-> At(g, k)]
           v == CHOOSE g : Rec(g)
<1>1. ExprUpTo(f) = v
  BY DEF ExprUpTo
<1>2. Rec(v)
  <2>1. PICK g : ExprCode(f, Height, g)
    BY HeightAssumption, ExprCodeExist
  <2>2. \A k \in 0 .. Height : g[k] = At(g, k)
    <3> SUFFICES ASSUME NEW k \in 0 .. Height PROVE g[k] = At(g, k)
      OBVIOUS
    <3>1. CASE k = 0
      <4>1. ExpsUpTo(AnyScope)[0] = {}
        BY ExpLevelsAre DEF ExpLevels
      <4>2. g[0] = [x \in {} |-> x]
        BY <2>1 DEF ExprCode
      <4>3. [x \in {} \X Counters |-> ExprOver(f, g[0 - 1], x[1], x[2])] = [x \in {} |-> x]
        <5>1. {} \X Counters = {}
          OBVIOUS
        <5> QED  BY <5>1
      <4> QED  BY <3>1, <4>1, <4>2, <4>3
    <3>2. CASE k # 0
      <4>1. k \in 1 .. Height
        BY <3>2, HeightAssumption
      <4> QED  BY <2>1, <4>1 DEF ExprCode
    <3> QED  BY <3>1, <3>2
  <2>3. g = [k \in 0 .. Height |-> g[k]]
    BY <2>1 DEF ExprCode
  <2> HIDE DEF At
  <2>4. Rec(g)
    BY <2>2, <2>3
  <2> HIDE DEF Rec
  <2> QED  BY <2>4
<1> HIDE DEF v
<1>3. v[h] = At(v, h)
  <2>1. h \in 0 .. Height
    BY HeightAssumption
  <2> HIDE DEF At
  <2> QED  BY <1>2, <2>1
<1>4. At(v, h)[<<n, out>>] = ExprOver(f, v[h - 1], n, out)
  OBVIOUS
<1> HIDE DEF At
<1> QED  BY <1>1, <1>3, <1>4

\* g gives the code of the instructions of the heights up to k.
InstrCode(f, k, g) ==
    /\ g = [h \in 0 .. k |-> g[h]] /\ g[0] = [x \in {} |-> x]
    /\ \A h \in 1 .. k :
         g[h] = [x \in InstrsUpTo(AnyScope)[h] \X Counters |-> InstrOver(f, g[h - 1], x[1], x[2])]

LEMMA InstrCodeExist == ASSUME NEW f, NEW n \in Nat PROVE \E g : InstrCode(f, n, g)
<1> DEFINE S == {k \in 0 .. n : \E g : InstrCode(f, k, g)}
<1>1. 0 \in S
  <2>1. InstrCode(f, 0, [h \in 0 .. 0 |-> [x \in {} |-> x]])
    BY DEF InstrCode
  <2> QED  BY <2>1
<1>2. ASSUME NEW k \in 0 .. n, k + 1 \in 0 .. n, k \in S PROVE k + 1 \in S
  <2>1. PICK g : InstrCode(f, k, g)
    BY <1>2
  <2> DEFINE v == [x \in InstrsUpTo(AnyScope)[k + 1] \X Counters |-> InstrOver(f, g[k], x[1], x[2])]
             u == [h \in 0 .. k + 1 |-> IF h = k + 1 THEN v ELSE g[h]]
  <2> HIDE DEF v
  <2>2. u = [h \in 0 .. k + 1 |-> u[h]] /\ u[k + 1] = v /\ \A h \in 0 .. k : u[h] = g[h]
    OBVIOUS
  <2> HIDE DEF u
  <2>3. u[0] = [x \in {} |-> x]
    <3>1. 0 \in 0 .. k /\ g[0] = [x \in {} |-> x]
      BY <2>1 DEF InstrCode
    <3> QED  BY <2>2, <3>1
  <2>4. ASSUME NEW h \in 1 .. k + 1
        PROVE  u[h] = [x \in InstrsUpTo(AnyScope)[h] \X Counters |-> InstrOver(f, u[h - 1], x[1], x[2])]
    <3>1. CASE h = k + 1
      <4>1. h - 1 = k /\ k \in 0 .. k
        BY <3>1
      <4>2. u[h - 1] = g[k]
        BY <2>2, <4>1
      <4> QED  BY <2>2, <3>1, <4>2 DEF v
    <3>2. CASE h # k + 1
      <4>1. h \in 1 .. k /\ h - 1 \in 0 .. k /\ h \in 0 .. k
        BY <3>2
      <4>2. u[h] = g[h] /\ u[h - 1] = g[h - 1]
        BY <2>2, <4>1
      <4> QED  BY <2>1, <4>1, <4>2 DEF InstrCode
    <3> QED  BY <3>1, <3>2
  <2>5. InstrCode(f, k + 1, u)
    BY <2>2, <2>3, <2>4 DEF InstrCode
  <2> QED  BY <1>2, <2>5
<1> HIDE DEF S
<1>3. 0 .. n \subseteq S
  BY <1>1, <1>2, Reaches
<1> QED  BY <1>3 DEF S

LEMMA InstrCodeAre ==
    ASSUME NEW f, NEW h \in 1 .. Height, NEW n \in InstrsUpTo(AnyScope)[h], NEW out \in Counters
    PROVE  InstrUpTo(f)[h][n, out] = InstrOver(f, InstrUpTo(f)[h - 1], n, out)
<1> DEFINE At(g, k) == [x \in InstrsUpTo(AnyScope)[k] \X Counters |-> InstrOver(f, g[k - 1], x[1], x[2])]
           Rec(g) == g = [k \in 0 .. Height |-> At(g, k)]
           v == CHOOSE g : Rec(g)
<1>1. InstrUpTo(f) = v
  BY DEF InstrUpTo
<1>2. Rec(v)
  <2>1. PICK g : InstrCode(f, Height, g)
    BY HeightAssumption, InstrCodeExist
  <2>2. \A k \in 0 .. Height : g[k] = At(g, k)
    <3> SUFFICES ASSUME NEW k \in 0 .. Height PROVE g[k] = At(g, k)
      OBVIOUS
    <3>1. CASE k = 0
      <4>1. InstrsUpTo(AnyScope)[0] = {}
        BY InstrLevelsAre DEF InstrLevels
      <4>2. g[0] = [x \in {} |-> x]
        BY <2>1 DEF InstrCode
      <4>3. [x \in {} \X Counters |-> InstrOver(f, g[0 - 1], x[1], x[2])] = [x \in {} |-> x]
        <5>1. {} \X Counters = {}
          OBVIOUS
        <5> QED  BY <5>1
      <4> QED  BY <3>1, <4>1, <4>2, <4>3
    <3>2. CASE k # 0
      <4>1. k \in 1 .. Height
        BY <3>2, HeightAssumption
      <4> QED  BY <2>1, <4>1 DEF InstrCode
    <3> QED  BY <3>1, <3>2
  <2>3. g = [k \in 0 .. Height |-> g[k]]
    BY <2>1 DEF InstrCode
  <2> HIDE DEF At
  <2>4. Rec(g)
    BY <2>2, <2>3
  <2> HIDE DEF Rec
  <2> QED  BY <2>4
<1> HIDE DEF v
<1>3. v[h] = At(v, h)
  <2>1. h \in 0 .. Height
    BY HeightAssumption
  <2> HIDE DEF At
  <2> QED  BY <1>2, <2>1
<1>4. At(v, h)[<<n, out>>] = InstrOver(f, v[h - 1], n, out)
  OBVIOUS
<1> HIDE DEF At
<1> QED  BY <1>1, <1>3, <1>4
-----------------------------------------------------------------------------
(* The code of every expression                                            *)

LEMMA ExprClosed ==
    ASSUME NEW F, NEW x, NEW f, InFunction(F, x, f)
    PROVE  ClosedBelow(F, x, Expr(f), Exps(Scope(f)))
<1> DEFINE exps == ExpsUpTo(Scope(f))
           upTo == ExprUpTo(f)
           S == {h \in 0 .. Height : ClosedBelow(F, x, upTo[h], exps[h])}
<1>1. ExpLevels(Scope(f), Height, exps)
  BY ExpLevelsAre
<1>2. 0 \in S
  <2>1. exps[0] = {} /\ 0 \in 0 .. Height
    BY <1>1, HeightAssumption DEF ExpLevels
  <2>2. ClosedBelow(F, x, upTo[0], exps[0])
    BY <2>1 DEF ClosedBelow
  <2> QED  BY <2>1, <2>2
<1>3. ASSUME NEW k \in 0 .. Height, k + 1 \in 0 .. Height, k \in S PROVE k + 1 \in S
  <2>1. k + 1 \in 1 .. Height /\ (k + 1) - 1 = k
    BY <1>3, HeightAssumption
  <2>2. exps[k + 1] = ExpNodes(Scope(f), exps[k])
    BY <1>1, <2>1 DEF ExpLevels
  <2>3. exps[k + 1] \subseteq ExpsUpTo(AnyScope)[k + 1]
    <3>1. Narrower(Scope(f), AnyScope)
      BY ScopeIs
    <3> QED  BY <1>3, <3>1, ExpsGrow
  <2>4. ASSUME NEW n \in exps[k + 1], NEW out \in Counters PROVE Closed(F, x, out, upTo[k + 1][n, out])
    <3>1. upTo[k + 1][n, out] = ExprOver(f, upTo[k], n, out)
      BY <2>1, <2>3, ExprCodeAre
    <3>2. n \in ExpNodes(Scope(f), exps[k]) /\ ClosedBelow(F, x, upTo[k], exps[k])
      BY <1>3, <2>2
    <3> HIDE DEF exps, upTo
    <3>3. Closed(F, x, out, ExprOver(f, upTo[k], n, out))
      BY <3>2, ExprOverClosed
    <3> QED  BY <3>1, <3>3
  <2> QED  BY <1>3, <2>4 DEF ClosedBelow
<1> HIDE DEF S
<1>4. 0 .. Height \subseteq S
  BY <1>2, <1>3, Reaches, HeightAssumption
<1> QED  BY <1>4, HeightAssumption DEF S, Expr, Exps
-----------------------------------------------------------------------------
(* Instructions, in the function x                                         *)

LEMMA ReturnClosed ==
    ASSUME NEW F, NEW x, NEW f, InFunction(F, x, f),
           NEW i, i.child = <<>> \/ i.child[1] \in Exps(Scope(f)), NEW out \in Counters
    PROVE  Closed(F, x, out, Return(f, i, out))
<1> DEFINE frame == FrameEnd \o Ret
           ret == <<Pop(Reg("rax"))>> \o FrameEnd \o Ret
<1>1. frame \in Seq(Plain(F)) /\ ret \in Seq(Plain(F)) /\ <<>> \in Seq(Plain(F))
  BY EndingsPlain
<1>2. \/ Return(f, i, out) = Write(frame, out)
      \/ Return(f, i, out) = Write(<<>>, out)
      \/ i.child # <<>> /\ Return(f, i, out) = Emit(Expr(f)[i.child[1], out], ret)
  BY DEF Return
<1> HIDE DEF frame, ret
<1>3. Closed(F, x, out, Write(frame, out)) /\ Closed(F, x, out, Write(<<>>, out))
  BY <1>1, WritePlain
<1>4. ASSUME i.child # <<>> PROVE Closed(F, x, out, Emit(Expr(f)[i.child[1], out], ret))
  <2>1. Closed(F, x, out, Expr(f)[i.child[1], out])
    BY <1>4, ExprClosed DEF ClosedBelow
  <2> QED  BY <1>1, <2>1, EmitClosed
<1> QED  BY <1>2, <1>3, <1>4

LEMMA AssignationClosed ==
    ASSUME NEW F, NEW x, NEW f, InFunction(F, x, f),
           NEW i, IsTarget(Scope(f), Exps(Scope(f)), i.child[1]), i.child[2] \in Exps(Scope(f)),
           NEW out \in Counters
    PROVE  Closed(F, x, out, Assignation(f, i, out))
<1> DEFINE value == Expr(f)[i.child[2], out]
           target == WriteVar(f, Expr(f), i.child[1], Behind(value))
<1>1. Assignation(f, i, out) = Then(value, target)
  BY DEF Assignation
<1>2. Closed(F, x, out, value)
  BY ExprClosed DEF ClosedBelow
<1> HIDE DEF value
<1>3. Behind(value) \in Counters
  BY <1>2, PieceIs DEF Closed, Piece
<1>4. Closed(F, x, Behind(value), target)
  BY <1>3, ExprClosed, WriteVarClosed
<1> HIDE DEF target
<1> QED  BY <1>1, <1>2, <1>4, ThenClosed

\* A condition, with the jump that it ends in.
LEMMA ConditionPiece ==
    ASSUME NEW F, NEW x, NEW out, NEW r, Closed(F, x, out, r), NEW l \in AnyLabel(F)
    PROVE  Piece(F, x, {}, {l}, out, Emit(r, Condition(l)))
<1> DEFINE t == Condition(l)
<1>1. t \in Seq(Ops(F)) /\ Unique(t) /\ LabelSet(t) = {} /\ JumpSet(t) = {l}
  <2>1. "je" \in Jumps
    BY DEF Jumps
  <2>2. t = <<Pop(Reg("rax")), Compare("rax", Imm(0)), Jump("je", l)>>
    BY DEF Condition
  <2> HIDE DEF t
  <2> QED  BY <2>1, <2>2, TestText
<1> HIDE DEF t
<1>2. Piece(F, x, {}, {}, out, r)
  BY DEF Closed
<1>3. \A k \in LabelSet(t) : k \notin Fresh(x, out, r) \cup {}
  BY <1>1
<1>4. Piece(F, x, {} \cup LabelSet(t), {} \cup JumpSet(t), out, Emit(r, t))
  <2>1. t \in Seq(Ops(F)) /\ Unique(t)
    BY <1>1
  <2> QED  BY <1>2, <1>3, <2>1, EmitPiece
<1>5. {} \cup LabelSet(t) = {} /\ {} \cup JumpSet(t) = {l}
  BY <1>1
<1> QED  BY <1>4, <1>5 DEF t

\* A branch, with the jump over the next one and the label of that one.
LEMMA BranchPiece ==
    ASSUME NEW F, NEW x, NEW out, NEW r, Closed(F, x, out, r),
           NEW l \in AnyLabel(F), NEW to \in AnyLabel(F), l \notin Fresh(x, out, r)
    PROVE  /\ Piece(F, x, {l}, {to}, out, Emit(r, <<Jump("jmp", to), Label(l)>>))
           /\ Emit(r, <<Jump("jmp", to), Label(l)>>).cmp = r.cmp
<1> DEFINE t == <<Jump("jmp", to), Label(l)>>
<1>1. t \in Seq(Ops(F)) /\ Unique(t) /\ LabelSet(t) = {l} /\ JumpSet(t) = {to}
  BY BranchText
<1> HIDE DEF t
<1>2. Piece(F, x, {}, {}, out, r)
  BY DEF Closed
<1>3. \A k \in LabelSet(t) : k \notin Fresh(x, out, r) \cup {}
  BY <1>1
<1>4. Piece(F, x, {} \cup LabelSet(t), {} \cup JumpSet(t), out, Emit(r, t))
  <2>1. t \in Seq(Ops(F)) /\ Unique(t)
    BY <1>1
  <2> QED  BY <1>2, <1>3, <2>1, EmitPiece
<1>5. Emit(r, t).cmp = r.cmp
  <2>1. r \in Pieces(F)
    BY <1>2 DEF Piece
  <2>2. Emit(r, t) = [text |-> r.text \o t, cmp |-> r.cmp, bool |-> r.bool]
    BY <2>1, PieceIs
  <2> QED  BY <2>2
<1>6. {} \cup LabelSet(t) = {l} /\ {} \cup JumpSet(t) = {to}
  BY <1>1
<1> QED  BY <1>4, <1>5, <1>6 DEF t

\* Pieces are laid with the numbers that they were given, in order.
LEMMA PieceOrder ==
    ASSUME NEW F, NEW x, NEW L, NEW J, NEW out, NEW r, Piece(F, x, L, J, out, r)
    PROVE  /\ out \in Counters /\ out.cmp \in Nat /\ out.bool \in Nat
           /\ r \in Pieces(F) /\ r.cmp \in Nat /\ r.bool \in Nat
           /\ Behind(r) \in Counters /\ Behind(r).cmp = r.cmp /\ Behind(r).bool = r.bool
           /\ out.cmp <= r.cmp /\ out.bool <= r.bool
<1>1. r \in Pieces(F) /\ out \in Counters /\ out.cmp <= r.cmp /\ out.bool <= r.bool
  BY DEF Piece
<1>2. Behind(r) = [cmp |-> r.cmp, bool |-> r.bool] /\ Behind(r) \in Counters
  BY <1>1, PieceIs
<1>3. r.cmp \in Nat /\ r.bool \in Nat
  BY <1>1, PieceIs
<1>4. Behind(r).cmp = r.cmp /\ Behind(r).bool = r.bool
  BY <1>2
<1> QED  BY <1>1, <1>2, <1>3, <1>4, CountersAre

\* Its labels take the number that the counter had where the instruction begins.
LEMMA IfClosed ==
    ASSUME NEW F, NEW x, NEW f, InFunction(F, x, f), NEW I, NEW lower, ClosedBelow(F, x, I, lower),
           NEW i, i.child[1] \in Exps(Scope(f)), i.child[2] \in lower,
           Len(i.child) = 2 \/ (Len(i.child) = 3 /\ i.child[3] \in lower), NEW out \in Counters
    PROVE  Closed(F, x, out, If(f, I, i, out))
<1> DEFINE n == out.cmp
           else == Local(f, "else", n)
           end == Local(f, "end_if", n)
           from == [out EXCEPT !.cmp = @ + 1]
           test == Expr(f)[i.child[1], from]
           cond == Emit(test, Condition(else))
           branch == I[i.child[2], Behind(cond)]
           then == Emit(branch, <<Jump("jmp", end), Label(else)>>)
           other == IF Len(i.child) = 3 THEN I[i.child[3], Behind(then)] ELSE Write(<<>>, then)
           rest == Then(then, other)
           all == Then(cond, rest)
           t == <<Label(end)>>
           whole == Emit(all, t)
<1>1. If(f, I, i, out) = whole
  BY DEF If
<1>2. n \in Nat /\ out.bool \in Nat
  BY CountersAre
<1>3. "else" \in CmpNames /\ "end_if" \in CmpNames /\ CmpNames \subseteq LocalNames
  BY DEF CmpNames, LocalNames
<1>4. /\ else = <<x, "else", n>> /\ end = <<x, "end_if", n>> /\ else # end
      /\ else \in AnyLabel(F) /\ end \in AnyLabel(F)
  <2>1. f.func.ident \in F /\ f.func.ident = x
    BY DEF InFunction
  <2> HIDE DEF n
  <2> QED  BY <1>2, <1>3, <2>1, LocalIs
<1>5. from \in Counters /\ from.cmp = n + 1 /\ from.bool = out.bool
  <2>1. from = [cmp |-> out.cmp + 1, bool |-> out.bool] /\ from \in Counters
    BY CountersGrow
  <2> HIDE DEF from
  <2> QED  BY <2>1
<1>6. t \in Seq(Ops(F)) /\ Unique(t) /\ LabelSet(t) = {end} /\ JumpSet(t) = {}
  <2> HIDE DEF end
  <2> QED  BY <1>4, LabelText
<1> HIDE DEF n, else, end, from, t
<1>7. ASSUME NEW o \in Counters, NEW r, r.cmp \in Nat, r.bool \in Nat, n < o.cmp
      PROVE  else \notin Fresh(x, o, r) /\ end \notin Fresh(x, o, r)
  <2>1. <<x, "else", n>> \notin Fresh(x, o, r)
    BY <1>2, <1>3, <1>7, OutsideCmp
  <2>2. <<x, "end_if", n>> \notin Fresh(x, o, r)
    BY <1>2, <1>3, <1>7, OutsideCmp
  <2> QED  BY <1>4, <2>1, <2>2
<1>8. Piece(F, x, {}, {else}, from, cond)
  <2>1. Closed(F, x, from, test)
    BY <1>5, ExprClosed DEF ClosedBelow
  <2> HIDE DEF test
  <2> QED  BY <1>4, <2>1, ConditionPiece
<1> HIDE DEF cond
<1>9. Piece(F, x, {else}, {end}, Behind(cond), then) /\ n < Behind(cond).cmp
  <2>1. Behind(cond) \in Counters /\ Behind(cond).cmp = cond.cmp /\ from.cmp <= cond.cmp /\ cond.cmp \in Nat
    BY <1>8, PieceOrder
  <2>2. n < Behind(cond).cmp
    BY <1>2, <1>5, <2>1
  <2>3. Closed(F, x, Behind(cond), branch)
    BY <2>1 DEF ClosedBelow
  <2> HIDE DEF branch
  <2>4. branch.cmp \in Nat /\ branch.bool \in Nat
    BY <2>3, PieceOrder DEF Closed
  <2>5. else \notin Fresh(x, Behind(cond), branch)
    BY <1>7, <2>1, <2>2, <2>4
  <2> QED  BY <1>4, <2>2, <2>3, <2>5, BranchPiece
<1> HIDE DEF then
<1>10. Piece(F, x, {}, {}, Behind(then), other) /\ n < Behind(then).cmp
  <2>1. /\ Behind(then) \in Counters /\ Behind(then).cmp = then.cmp /\ Behind(then).bool = then.bool
        /\ Behind(cond).cmp <= then.cmp /\ then.cmp \in Nat /\ Behind(cond).cmp \in Nat
    BY <1>9, PieceOrder
  <2>2. n < Behind(then).cmp
    BY <1>2, <1>9, <2>1
  <2>3. Closed(F, x, Behind(then), Write(<<>>, then))
    <3>1. Write(<<>>, then) = Write(<<>>, Behind(then))
      BY <2>1 DEF Write
    <3>2. <<>> \in Seq(Plain(F))
      OBVIOUS
    <3> QED  BY <2>1, <3>1, <3>2, WritePlain
  <2>4. CASE Len(i.child) = 3
    <3>1. Closed(F, x, Behind(then), I[i.child[3], Behind(then)])
      BY <2>1, <2>4 DEF ClosedBelow
    <3> QED  BY <2>2, <2>4, <3>1 DEF Closed
  <2>5. CASE Len(i.child) # 3
    BY <2>2, <2>3, <2>5 DEF Closed
  <2> QED  BY <2>4, <2>5
<1> HIDE DEF other
<1>11. Piece(F, x, {else}, {end}, Behind(cond), rest)
  <2>1. other.cmp \in Nat /\ other.bool \in Nat /\ Behind(then) \in Counters
    BY <1>10, PieceOrder
  <2>2. else \notin Fresh(x, Behind(then), other)
    BY <1>7, <1>10, <2>1
  <2>3. {} \cap ({else} \cup Fresh(x, Behind(cond), then)) = {} /\ {else} \cap Fresh(x, Behind(then), other) = {}
    BY <2>2
  <2>4. Piece(F, x, {else} \cup {}, {end} \cup {}, Behind(cond), rest)
    BY <1>9, <1>10, <2>3, ThenPiece
  <2>5. {else} \cup {} = {else} /\ {end} \cup {} = {end}
    OBVIOUS
  <2> QED  BY <2>4, <2>5
<1> HIDE DEF rest
<1>12. Piece(F, x, {else}, {else, end}, from, all)
  <2>1. cond.cmp \in Nat /\ cond.bool \in Nat /\ n < from.cmp
    BY <1>2, <1>5, <1>8, PieceOrder
  <2>2. else \notin Fresh(x, from, cond)
    BY <1>5, <1>7, <2>1
  <2>3. {else} \cap ({} \cup Fresh(x, from, cond)) = {} /\ {} \cap Fresh(x, Behind(cond), rest) = {}
    BY <2>2
  <2>4. Piece(F, x, {} \cup {else}, {else} \cup {end}, from, all)
    BY <1>8, <1>11, <2>3, ThenPiece
  <2>5. {} \cup {else} = {else} /\ {else} \cup {end} = {else, end}
    OBVIOUS
  <2> QED  BY <2>4, <2>5
<1> HIDE DEF all
<1>13. Piece(F, x, {else, end}, {else, end}, from, whole)
  <2>1. all.cmp \in Nat /\ all.bool \in Nat /\ n < from.cmp
    BY <1>2, <1>5, <1>12, PieceOrder
  <2>2. end \notin Fresh(x, from, all)
    BY <1>5, <1>7, <2>1
  <2>3. \A l \in LabelSet(t) : l \notin Fresh(x, from, all) \cup {else}
    BY <1>4, <1>6, <2>2
  <2>4. Piece(F, x, {else} \cup LabelSet(t), {else, end} \cup JumpSet(t), from, whole)
    BY <1>6, <1>12, <2>3, EmitPiece
  <2>5. {else} \cup LabelSet(t) = {else, end} /\ {else, end} \cup JumpSet(t) = {else, end}
    BY <1>6
  <2> QED  BY <2>4, <2>5
<1> HIDE DEF whole
<1>14. Closed(F, x, out, whole)
  <2>1. /\ whole \in Pieces(F) /\ whole.cmp \in Nat /\ whole.bool \in Nat
        /\ from.cmp <= whole.cmp /\ from.bool <= whole.bool
    BY <1>13, PieceOrder
  <2>2. n \in out.cmp .. whole.cmp - 1
    BY <1>2, <1>5, <2>1 DEF n
  <2>3. {else, end} \subseteq Fresh(x, out, whole)
    BY <1>3, <1>4, <2>2 DEF Fresh
  <2>4. out.cmp <= from.cmp /\ out.bool <= from.bool
    BY <1>2, <1>5 DEF n
  <2>5. whole.cmp <= whole.cmp /\ whole.bool <= whole.bool
    BY <2>1
  <2> QED  BY <1>13, <2>1, <2>3, <2>4, <2>5, ClosePiece
<1> QED  BY <1>1, <1>14

LEMMA WhileClosed ==
    ASSUME NEW F, NEW x, NEW f, InFunction(F, x, f), NEW I, NEW lower, ClosedBelow(F, x, I, lower),
           NEW i, i.child[1] \in Exps(Scope(f)), i.child[2] \in lower, NEW out \in Counters
    PROVE  Closed(F, x, out, While(f, I, i, out))
<1> DEFINE n == out.cmp
           start == Local(f, "while_start", n)
           end == Local(f, "end_while", n)
           from == [out EXCEPT !.cmp = @ + 1]
           t == <<Label(start)>>
           init == Write(t, from)
           test == Expr(f)[i.child[1], Behind(init)]
           cond == Emit(test, Condition(end))
           inside == I[i.child[2], Behind(cond)]
           body == Emit(inside, <<Jump("jmp", start), Label(end)>>)
           rest == Then(cond, body)
           whole == Then(init, rest)
<1>1. While(f, I, i, out) = whole
  BY DEF While
<1>2. n \in Nat /\ out.bool \in Nat
  BY CountersAre
<1>3. "while_start" \in CmpNames /\ "end_while" \in CmpNames /\ CmpNames \subseteq LocalNames
  BY DEF CmpNames, LocalNames
<1>4. /\ start = <<x, "while_start", n>> /\ end = <<x, "end_while", n>> /\ start # end
      /\ start \in AnyLabel(F) /\ end \in AnyLabel(F)
  <2>1. f.func.ident \in F /\ f.func.ident = x
    BY DEF InFunction
  <2> HIDE DEF n
  <2> QED  BY <1>2, <1>3, <2>1, LocalIs
<1>5. from \in Counters /\ from.cmp = n + 1 /\ from.bool = out.bool
  <2>1. from = [cmp |-> out.cmp + 1, bool |-> out.bool] /\ from \in Counters
    BY CountersGrow
  <2> HIDE DEF from
  <2> QED  BY <2>1
<1>6. t \in Seq(Ops(F)) /\ Unique(t) /\ LabelSet(t) = {start} /\ JumpSet(t) = {}
  <2> HIDE DEF start
  <2> QED  BY <1>4, LabelText
<1> HIDE DEF n, start, end, from, t
<1>7. ASSUME NEW o \in Counters, NEW r, r.cmp \in Nat, r.bool \in Nat, n < o.cmp
      PROVE  start \notin Fresh(x, o, r) /\ end \notin Fresh(x, o, r)
  <2>1. <<x, "while_start", n>> \notin Fresh(x, o, r)
    BY <1>2, <1>3, <1>7, OutsideCmp
  <2>2. <<x, "end_while", n>> \notin Fresh(x, o, r)
    BY <1>2, <1>3, <1>7, OutsideCmp
  <2> QED  BY <1>4, <2>1, <2>2
<1>8. Piece(F, x, {start}, {}, from, init)
  <2>1. Piece(F, x, LabelSet(t), JumpSet(t), from, init)
    BY <1>5, <1>6, WritePiece
  <2> QED  BY <1>6, <2>1
<1> HIDE DEF init
<1>9. Piece(F, x, {}, {end}, Behind(init), cond) /\ n < Behind(init).cmp
  <2>1. Behind(init) \in Counters /\ Behind(init).cmp = init.cmp /\ from.cmp <= init.cmp /\ init.cmp \in Nat
    BY <1>8, PieceOrder
  <2>2. n < Behind(init).cmp
    BY <1>2, <1>5, <2>1
  <2>3. Closed(F, x, Behind(init), test)
    BY <2>1, ExprClosed DEF ClosedBelow
  <2> HIDE DEF test
  <2> QED  BY <1>4, <2>2, <2>3, ConditionPiece
<1> HIDE DEF cond
<1>10. Piece(F, x, {end}, {start}, Behind(cond), body) /\ n < Behind(cond).cmp
  <2>1. /\ Behind(cond) \in Counters /\ Behind(cond).cmp = cond.cmp /\ Behind(init).cmp <= cond.cmp
        /\ cond.cmp \in Nat /\ Behind(init).cmp \in Nat
    BY <1>9, PieceOrder
  <2>2. n < Behind(cond).cmp
    BY <1>2, <1>9, <2>1
  <2>3. Closed(F, x, Behind(cond), inside)
    BY <2>1 DEF ClosedBelow
  <2> HIDE DEF inside
  <2>4. inside.cmp \in Nat /\ inside.bool \in Nat
    BY <2>3, PieceOrder DEF Closed
  <2>5. end \notin Fresh(x, Behind(cond), inside)
    BY <1>7, <2>1, <2>2, <2>4
  <2> QED  BY <1>4, <2>2, <2>3, <2>5, BranchPiece
<1> HIDE DEF body
<1>11. Piece(F, x, {end}, {start, end}, Behind(init), rest)
  <2>1. cond.cmp \in Nat /\ cond.bool \in Nat /\ Behind(init) \in Counters
    BY <1>9, PieceOrder
  <2>2. end \notin Fresh(x, Behind(init), cond)
    BY <1>7, <1>9, <2>1
  <2>3. {end} \cap ({} \cup Fresh(x, Behind(init), cond)) = {} /\ {} \cap Fresh(x, Behind(cond), body) = {}
    BY <2>2
  <2>4. Piece(F, x, {} \cup {end}, {end} \cup {start}, Behind(init), rest)
    BY <1>9, <1>10, <2>3, ThenPiece
  <2>5. {} \cup {end} = {end} /\ {end} \cup {start} = {start, end}
    OBVIOUS
  <2> QED  BY <2>4, <2>5
<1> HIDE DEF rest
<1>12. Piece(F, x, {start, end}, {start, end}, from, whole)
  <2>1. /\ init.cmp \in Nat /\ init.bool \in Nat /\ n < from.cmp
        /\ rest.cmp \in Nat /\ rest.bool \in Nat /\ Behind(init) \in Counters
    BY <1>2, <1>5, <1>8, <1>11, PieceOrder
  <2>2. end \notin Fresh(x, from, init) /\ start \notin Fresh(x, Behind(init), rest)
    BY <1>5, <1>7, <1>9, <2>1
  <2>3. {end} \cap ({start} \cup Fresh(x, from, init)) = {} /\ {start} \cap Fresh(x, Behind(init), rest) = {}
    BY <1>4, <2>2
  <2>4. Piece(F, x, {start} \cup {end}, {} \cup {start, end}, from, whole)
    BY <1>8, <1>11, <2>3, ThenPiece
  <2>5. {start} \cup {end} = {start, end} /\ {} \cup {start, end} = {start, end}
    OBVIOUS
  <2> QED  BY <2>4, <2>5
<1> HIDE DEF whole
<1>13. Closed(F, x, out, whole)
  <2>1. /\ whole \in Pieces(F) /\ whole.cmp \in Nat /\ whole.bool \in Nat
        /\ from.cmp <= whole.cmp /\ from.bool <= whole.bool
    BY <1>12, PieceOrder
  <2>2. n \in out.cmp .. whole.cmp - 1
    BY <1>2, <1>5, <2>1 DEF n
  <2>3. {start, end} \subseteq Fresh(x, out, whole)
    BY <1>3, <1>4, <2>2 DEF Fresh
  <2>4. out.cmp <= from.cmp /\ out.bool <= from.bool
    BY <1>2, <1>5 DEF n
  <2>5. whole.cmp <= whole.cmp /\ whole.bool <= whole.bool
    BY <2>1
  <2> QED  BY <1>12, <2>1, <2>3, <2>4, <2>5, ClosePiece
<1> QED  BY <1>1, <1>13

LEMMA InstrOverClosed ==
    ASSUME NEW F, NEW x, NEW f, InFunction(F, x, f), NEW I, NEW lower, ClosedBelow(F, x, I, lower),
           NEW i \in InstrNodes(Scope(f), Exps(Scope(f)), lower), NEW out \in Counters
    PROVE  Closed(F, x, out, InstrOver(f, I, i, out))
<1> DEFINE exps == Exps(Scope(f))
<1>1. InstrForm(Scope(f), exps, lower, i)
  BY InstrNodesAre
<1> HIDE DEF exps
<1>2. CASE i.label = "EmptyInstr"
  <2>1. InstrOver(f, I, i, out) = Write(<<>>, out)
    BY <1>2 DEF InstrOver
  <2>2. <<>> \in Seq(Plain(F))
    OBVIOUS
  <2> QED  BY <2>1, <2>2, WritePlain
<1>3. CASE i.label = "Return"
  <2>1. i.child = <<>> \/ i.child[1] \in exps
    BY <1>1, <1>3 DEF InstrForm, IsCallOver
  <2>2. InstrOver(f, I, i, out) = Return(f, i, out)
    BY <1>3 DEF InstrOver
  <2> QED  BY <2>1, <2>2, ReturnClosed DEF exps
<1>4. CASE i.label = "Assignation"
  <2>1. IsTarget(Scope(f), exps, i.child[1]) /\ i.child[2] \in exps
    BY <1>1, <1>4 DEF InstrForm, IsCallOver
  <2>2. InstrOver(f, I, i, out) = Assignation(f, i, out)
    BY <1>4 DEF InstrOver
  <2> QED  BY <2>1, <2>2, AssignationClosed DEF exps
<1>5. CASE i.label = "Ident"
  <2>1. IsCallOver(Scope(f), exps, i)
    BY <1>1, <1>5 DEF InstrForm
  <2>2. InstrOver(f, I, i, out) = Call(f, Expr(f), i, out)
    BY <1>5 DEF InstrOver
  <2>3. ClosedBelow(F, x, Expr(f), exps)
    BY ExprClosed DEF exps
  <2> QED  BY <2>1, <2>2, <2>3, CallClosed
<1>6. CASE i.label = "If"
  <2>1. /\ i.child[1] \in exps /\ i.child[2] \in lower
        /\ Len(i.child) = 2 \/ (Len(i.child) = 3 /\ i.child[3] \in lower)
    BY <1>1, <1>6 DEF InstrForm, IsCallOver
  <2>2. InstrOver(f, I, i, out) = If(f, I, i, out)
    BY <1>6 DEF InstrOver
  <2> QED  BY <2>1, <2>2, IfClosed DEF exps
<1>7. CASE i.label = "While"
  <2>1. i.child[1] \in exps /\ i.child[2] \in lower
    BY <1>1, <1>7 DEF InstrForm, IsCallOver
  <2>2. InstrOver(f, I, i, out) = While(f, I, i, out)
    BY <1>7 DEF InstrOver
  <2> QED  BY <2>1, <2>2, WhileClosed DEF exps
<1>8. CASE i.label = "SuiteInstr"
  <2>1. i.child \in Seq(lower)
    BY <1>1, <1>8 DEF InstrForm, IsCallOver
  <2>2. InstrOver(f, I, i, out) = Each(I, i.child, out)
    BY <1>8 DEF InstrOver, SuiteInst
  <2> QED  BY <2>1, <2>2, EachClosed
<1>9. i.label \in {"EmptyInstr", "Return", "Assignation", "Ident", "If", "While", "SuiteInstr"}
  BY <1>1 DEF InstrForm, IsCallOver
<1> QED  BY <1>2, <1>3, <1>4, <1>5, <1>6, <1>7, <1>8, <1>9

LEMMA InstrClosed ==
    ASSUME NEW F, NEW x, NEW f, InFunction(F, x, f)
    PROVE  ClosedBelow(F, x, Instr(f), Instrs(Scope(f)))
<1> DEFINE s == Scope(f)
           instrs == InstrsUpTo(Scope(f))
           upTo == InstrUpTo(f)
           S == {h \in 0 .. Height : ClosedBelow(F, x, upTo[h], instrs[h])}
<1>1. InstrLevels(Scope(f), Exps(Scope(f)), Height, instrs)
  BY InstrLevelsAre
<1>2. 0 \in S
  <2>1. instrs[0] = {} /\ 0 \in 0 .. Height
    BY <1>1, HeightAssumption DEF InstrLevels
  <2>2. ClosedBelow(F, x, upTo[0], instrs[0])
    BY <2>1 DEF ClosedBelow
  <2> QED  BY <2>1, <2>2
<1>3. ASSUME NEW k \in 0 .. Height, k + 1 \in 0 .. Height, k \in S PROVE k + 1 \in S
  <2>1. k + 1 \in 1 .. Height /\ (k + 1) - 1 = k
    BY <1>3, HeightAssumption
  <2>2. instrs[k + 1] = InstrNodes(Scope(f), Exps(Scope(f)), instrs[k])
    BY <1>1, <2>1 DEF InstrLevels
  <2>3. instrs[k + 1] \subseteq InstrsUpTo(AnyScope)[k + 1]
    <3>1. Narrower(Scope(f), AnyScope)
      BY ScopeIs
    <3> QED  BY <1>3, <3>1, InstrsGrow
  <2>4. ASSUME NEW n \in instrs[k + 1], NEW out \in Counters PROVE Closed(F, x, out, upTo[k + 1][n, out])
    <3>1. upTo[k + 1][n, out] = InstrOver(f, upTo[k], n, out)
      BY <2>1, <2>3, InstrCodeAre
    <3>2. n \in InstrNodes(Scope(f), Exps(Scope(f)), instrs[k]) /\ ClosedBelow(F, x, upTo[k], instrs[k])
      BY <1>3, <2>2
    <3> HIDE DEF instrs, upTo
    <3>3. Closed(F, x, out, InstrOver(f, upTo[k], n, out))
      BY <3>2, InstrOverClosed
    <3> QED  BY <3>1, <3>3
  <2> QED  BY <1>3, <2>4 DEF ClosedBelow
<1> HIDE DEF S
<1>4. 0 .. Height \subseteq S
  BY <1>2, <1>3, Reaches, HeightAssumption
<1> QED  BY <1>4, HeightAssumption DEF S, Instr, Instrs
-----------------------------------------------------------------------------
(* Functions                                                               *)

Ending(text) == text # <<>> /\ text[Len(text)] = <<"ret">>

LEMMA EndsAlike ==
    ASSUME NEW S, NEW a \in Seq(S), NEW b \in Seq(S), Ending(b)
    PROVE  Ending(a \o b)
<1> DEFINE c == a \o b
           m == Len(a)
           n == Len(b)
<1>1. m \in Nat /\ n \in Nat /\ n # 0 /\ b[n] = <<"ret">>
  <2>1. b # <<>> /\ b[n] = <<"ret">>
    BY DEF Ending
  <2>2. n \in Nat /\ m \in Nat /\ n # 0
    BY <2>1
  <2> QED  BY <2>1, <2>2
<1>2. Len(c) = m + n /\ c \in Seq(S) /\ \A i \in 1 .. m + n : c[i] = IF i <= m THEN a[i] ELSE b[i - m]
  OBVIOUS
<1> HIDE DEF c, m, n
<1>3. m + n \in 1 .. m + n /\ ~(m + n <= m) /\ (m + n) - m = n /\ Len(c) # 0
  BY <1>1, <1>2
<1>4. c[Len(c)] = b[n]
  BY <1>2, <1>3
<1>5. c # <<>>
  <2>1. Len(<<>>) = 0
    OBVIOUS
  <2> QED  BY <1>3, <2>1
<1> QED  BY <1>1, <1>4, <1>5 DEF Ending, c

LEMMA FrameStartPlain ==
    ASSUME NEW F, NEW fst, NEW x, IsFunctionST(fst, x)
    PROVE  FrameStart(fst) \in Seq(Plain(F))
<1> DEFINE T == Plain(F)
           o1 == Push(Reg("rbp"))
           o2 == Mov(Reg("rbp"), Reg("rsp"))
           o3 == Compute("sub", "rsp", Imm(fst.locals.next_addr))
           a == <<o1, o2, o3>>
           n == InRegisters(fst)
           b == [i \in 1 .. n |-> Mov(Mem("rbp", Param(fst, i - 1).addr), Reg(ParamReg[i]))]
<1>1. FrameStart(fst) = a \o b
  BY DEF FrameStart
<1>2. a \in Seq(T)
  <2>1. o1 \in T
    BY FixedOps, RegistersAre
  <2>2. o2 \in T
    BY FixedOps, RegistersAre
  <2>3. fst.locals.next_addr \in Int
    BY DEF IsFunctionST, Grown
  <2>4. o3 \in T
    BY <2>3, FixedOps, RegistersAre
  <2> HIDE DEF T, o1, o2, o3
  <2> QED  BY <2>1, <2>2, <2>4
<1>3. b \in Seq(T)
  <2>1. ParamCount(fst) \in Nat
    BY DEF IsFunctionST, Grown, ParamCount
  <2>2. n \in Nat /\ \A i \in 1 .. n : i \in 1 .. NbRegs /\ i - 1 \in 0 .. ParamCount(fst) - 1
    BY <2>1, InRegistersIs, NbRegsAssumption
  <2>3. ASSUME NEW i \in 1 .. n PROVE Mov(Mem("rbp", Param(fst, i - 1).addr), Reg(ParamReg[i])) \in T
    <3>1. Param(fst, i - 1).addr \in Int
      <4> DEFINE k == i - 1
      <4>1. k \in 0 .. fst.parameters.len - 1
        BY <2>2 DEF ParamCount
      <4> HIDE DEF k
      <4>2. \E s \in fst.parameters.symbols : s.index = k
        BY <4>1 DEF IsFunctionST, Grown
      <4>3. Param(fst, k) \in fst.parameters.symbols
        BY <4>2 DEF Param
      <4>4. fst.parameters.symbols \subseteq Symbols({})
        BY DEF IsFunctionST, Grown
      <4> QED  BY <4>3, <4>4 DEF Symbols, k
    <3>2. ParamReg[i] \in Registers
      BY <2>2, ParamRegIs
    <3> DEFINE addr == Param(fst, i - 1).addr
               r == ParamReg[i]
    <3> HIDE DEF addr, r
    <3>3. Mov(Mem("rbp", addr), Reg(r)) \in T
      <4>1. addr \in Int /\ r \in Registers
        BY <3>1, <3>2 DEF addr, r
      <4> QED  BY <4>1, FixedOps, RegistersAre
    <3> QED  BY <3>3 DEF addr, r
  <2> HIDE DEF n, T
  <2>4. b \in [1 .. n -> T]
    BY <2>3
  <2> QED  BY <2>2, <2>4
<1> HIDE DEF a, b
<1> QED  BY <1>1, <1>2, <1>3

\* The names of a program's functions, those of builtins.asm among them.
FunctionNames(p) == BuiltinNames \cup DefinedNames(p)

LEMMA WithinIs ==
    ASSUME NEW p, p.globals \in Seq(Declarations), p.functions \in Seq(Definitions),
           NEW i \in DOMAIN p.functions
    PROVE  LET f == Within(ProgramTables(p), p.functions[i])
           IN InFunction(FunctionNames(p), p.functions[i].ident, f) /\ IsFunctionST(f.func, p.functions[i].ident)
<1> DEFINE t == ProgramTables(p)
           x == p.functions[i].ident
           f == Within(t, p.functions[i])
<1>1. /\ DOMAIN t.functions = FunctionNames(p) /\ t.globals \in Grown("global", DOMAIN t.functions)
      /\ \A y \in DOMAIN t.functions : IsFunctionST(t.functions[y], y)
  BY ProgramTablesAre DEF FunctionNames
<1>2. x \in FunctionNames(p)
  BY DEF FunctionNames, DefinedNames
<1> HIDE DEF t, x
<1>3. f.globals = t.globals /\ f.functions = t.functions /\ f.func = t.functions[x]
  BY DEF Within, x
<1> HIDE DEF f
<1>4. IsFunctionST(f.func, x)
  BY <1>1, <1>2, <1>3
<1>5. InTables(f)
  BY <1>1, <1>3, <1>4 DEF InTables
<1>6. f.func.ident = x
  BY <1>4 DEF IsFunctionST
<1> QED  BY <1>1, <1>2, <1>3, <1>4, <1>5, <1>6 DEF InFunction, f, t, x

LEMMA FunctionLabelIs ==
    ASSUME NEW x
    PROVE  /\ FunctionLabel(x)[1] = x
           /\ \A F : x \in F \cup {"_start"} => FunctionLabel(x) \in AnyLabel(F)
           /\ \A out, r : FunctionLabel(x) \notin Fresh(x, out, r)
           /\ \A out, r : \A l \in Fresh(x, out, r) : l[1] = x
<1>1. FunctionLabel(x)[1] = x
  BY DEF FunctionLabel
<1>2. \A F : x \in F \cup {"_start"} => FunctionLabel(x) \in AnyLabel(F)
  BY DEF FunctionLabel, AnyLabel
<1>3. \A out, r : FunctionLabel(x) \notin Fresh(x, out, r)
  <2>1. "" \notin CmpNames /\ "" \notin BoolNames
    BY DEF CmpNames, BoolNames
  <2> QED  BY <2>1 DEF FunctionLabel, Fresh
<1>4. \A out, r : \A l \in Fresh(x, out, r) : l[1] = x
  BY DEF Fresh
<1> QED  BY <1>1, <1>2, <1>3, <1>4

LEMMA DeclFonctPiece ==
    ASSUME NEW p, p.globals \in Seq(Declarations), p.functions \in Seq(Definitions),
           Translatable(p), NEW i \in DOMAIN p.functions, NEW out \in Counters
    PROVE  LET d == p.functions[i]
               r == DeclFonct(ProgramTables(p), d, out)
           IN Piece(FunctionNames(p), d.ident, {FunctionLabel(d.ident)}, {}, out, r) /\ Ending(r.text)
<1> DEFINE F == FunctionNames(p)
           d == p.functions[i]
           x == d.ident
           lab == FunctionLabel(x)
           f == Within(ProgramTables(p), d)
           start == FrameStart(f.func)
           t == <<Label(lab)>>
           end == FrameEnd \o Ret
           head == Write(t \o start, out)
           suite == SuiteInst(Instr(f), d.body.child, out)
           body == Emit(suite, end)
           whole == Then(head, body)
<1>1. DeclFonct(ProgramTables(p), d, out) = whole
  BY DEF DeclFonct
<1>2. InFunction(F, x, f) /\ IsFunctionST(f.func, x)
  BY WithinIs
<1>3. d.body.child \in Seq(Instrs(Scope(f)))
  <2>1. d.body \in Bodies(Scope(f))
    BY DEF Translatable
  <2> HIDE DEF d, f
  <2> QED  BY <2>1 DEF Bodies, Nodes
<1> HIDE DEF F, d, x, lab, f
<1>4. lab \in AnyLabel(F) /\ \A r : lab \notin Fresh(x, out, r)
  <2>1. x \in F
    BY <1>2 DEF InFunction
  <2> QED  BY <2>1, FunctionLabelIs DEF lab
<1>5. t \in Seq(Ops(F)) /\ Unique(t) /\ LabelSet(t) = {lab} /\ JumpSet(t) = {}
  BY <1>4, LabelText
<1>6. start \in Seq(Ops(F)) /\ Unique(start) /\ LabelSet(start) = {} /\ JumpSet(start) = {}
  <2>1. start \in Seq(Plain(F))
    BY <1>2, FrameStartPlain
  <2> HIDE DEF start
  <2> QED  BY <2>1, PlainText
<1> HIDE DEF t, start
<1>7. /\ t \o start \in Seq(Ops(F)) /\ LabelSet(t \o start) = {lab} /\ JumpSet(t \o start) = {}
      /\ Unique(t \o start)
  <2>1. LabelSet(t) \cap LabelSet(start) = {}
    BY <1>6
  <2>2. /\ t \o start \in Seq(Ops(F)) /\ LabelSet(t \o start) = LabelSet(t) \cup LabelSet(start)
        /\ JumpSet(t \o start) = JumpSet(t) \cup JumpSet(start)
        /\ Unique(t \o start)
    BY <1>5, <1>6, <2>1, BothTexts
  <2> QED  BY <1>5, <1>6, <2>2
<1>8. Piece(F, x, {lab}, {}, out, head) /\ Behind(head) = out
  <2>1. Piece(F, x, LabelSet(t \o start), JumpSet(t \o start), out, head)
    BY <1>7, WritePiece
  <2>2. Piece(F, x, {lab}, {}, out, head)
    BY <1>7, <2>1
  <2>3. Behind(head) = [cmp |-> out.cmp, bool |-> out.bool]
    BY DEF Behind, Write
  <2>4. out = [cmp |-> out.cmp, bool |-> out.bool]
    BY DEF Counters
  <2> QED  BY <2>2, <2>3, <2>4
<1>9. head.text \in Seq(Ops(F))
  BY <1>8, PieceIs DEF Piece
<1> HIDE DEF head
<1>10. Closed(F, x, out, suite)
  <2>1. ClosedBelow(F, x, Instr(f), Instrs(Scope(f)))
    BY <1>2, InstrClosed
  <2> QED  BY <1>3, <2>1, EachClosed DEF SuiteInst
<1> HIDE DEF suite
<1>11. end \in Seq(Plain(F)) /\ end \in Seq(Ops(F)) /\ Ending(end)
  <2>1. FrameEnd \in Seq(Plain(F)) /\ Ret \in Seq(Plain(F)) /\ end \in Seq(Plain(F))
    BY EndingsPlain
  <2>2. Ending(Ret)
    BY DEF Ending, Ret
  <2>3. Ending(end)
    BY <2>1, <2>2, EndsAlike
  <2>4. end \in Seq(Ops(F))
    <3> HIDE DEF end
    <3> QED  BY <2>1, PlainText
  <2> QED  BY <2>1, <2>3, <2>4
<1> HIDE DEF end
<1>12. /\ Closed(F, x, out, body) /\ body.text \in Seq(Ops(F)) /\ Ending(body.text)
  <2>1. Closed(F, x, out, body)
    BY <1>10, <1>11, EmitClosed
  <2>2. suite \in Pieces(F)
    BY <1>10 DEF Closed, Piece
  <2>3. suite.text \in Seq(Ops(F)) /\ body = [text |-> suite.text \o end, cmp |-> suite.cmp, bool |-> suite.bool]
    BY <2>2, PieceIs
  <2>4. body.text = suite.text \o end
    BY <2>3
  <2>5. Ending(suite.text \o end)
    BY <1>11, <2>3, EndsAlike
  <2>6. body.text \in Seq(Ops(F))
    BY <2>1, PieceIs DEF Closed, Piece
  <2> QED  BY <2>1, <2>4, <2>5, <2>6
<1> HIDE DEF body
<1>13. Piece(F, x, {lab}, {}, out, whole)
  <2>1. Piece(F, x, {}, {}, Behind(head), body)
    BY <1>8, <1>12 DEF Closed
  <2>2. {} \cap ({lab} \cup Fresh(x, out, head)) = {} /\ {lab} \cap Fresh(x, Behind(head), body) = {}
    BY <1>4, <1>8
  <2>3. Piece(F, x, {lab} \cup {}, {} \cup {}, out, whole)
    BY <1>8, <2>1, <2>2, ThenPiece
  <2>4. {lab} \cup {} = {lab} /\ {} \cup {} = {}
    OBVIOUS
  <2> QED  BY <2>3, <2>4
<1>14. Ending(whole.text)
  <2>1. body \in Pieces(F)
    BY <1>12 DEF Closed, Piece
  <2>2. whole = [text |-> head.text \o body.text, cmp |-> body.cmp, bool |-> body.bool]
    BY <2>1, PieceIs
  <2>3. Ending(head.text \o body.text)
    BY <1>9, <1>12, EndsAlike
  <2> HIDE DEF whole
  <2>4. whole.text = head.text \o body.text
    BY <2>2
  <2> QED  BY <2>3, <2>4
<1> HIDE DEF whole
<1> QED  BY <1>1, <1>13, <1>14 DEF F, d, x, lab
-----------------------------------------------------------------------------
(* Programs                                                                *)

\* r is the text of the first k functions of p.
FunctionsUpTo(p, k, r) ==
    /\ r \in Pieces(FunctionNames(p)) /\ Unique(r.text)
    /\ \A l \in LabelSet(r.text) : \E i \in 1 .. k : l[1] = p.functions[i].ident
    /\ \A i \in 1 .. k : FunctionLabel(p.functions[i].ident) \in LabelSet(r.text)
    /\ JumpSet(r.text) \subseteq LabelSet(r.text)
    /\ k > 0 => Ending(r.text)

LEMMA NextFunction ==
    ASSUME NEW p, p.globals \in Seq(Declarations), p.functions \in Seq(Definitions), Translatable(p),
           \A i, j \in DOMAIN p.functions : p.functions[i].ident = p.functions[j].ident => i = j,
           NEW k \in Nat, k + 1 \in 1 .. Len(p.functions), NEW r, FunctionsUpTo(p, k, r)
    PROVE  FunctionsUpTo(p, k + 1,
                         Then(r, DeclFonct(ProgramTables(p), p.functions[k + 1], Behind(r))))
<1> DEFINE F == FunctionNames(p)
           x == p.functions[k + 1].ident
           out == Behind(r)
           s == DeclFonct(ProgramTables(p), p.functions[k + 1], out)
           q == Then(r, s)
<1>1. k + 1 \in DOMAIN p.functions /\ \A i \in 1 .. k : i \in DOMAIN p.functions /\ i # k + 1
  BY DEF FunctionsUpTo
<1>2. r \in Pieces(F) /\ out \in Counters /\ r.text \in Seq(Ops(F))
  BY PieceIs DEF FunctionsUpTo
<1> HIDE DEF F, out
<1>3. Piece(F, x, {FunctionLabel(x)}, {}, out, s) /\ Ending(s.text)
  BY <1>1, <1>2, DeclFonctPiece DEF F
<1> HIDE DEF s
<1>4. /\ s \in Pieces(F) /\ Unique(s.text) /\ FunctionLabel(x) \in LabelSet(s.text)
      /\ LabelSet(s.text) \subseteq Fresh(x, out, s) \cup {FunctionLabel(x)}
      /\ JumpSet(s.text) \subseteq LabelSet(s.text) \cup {}
  BY <1>3 DEF Piece
<1>5. \A l \in LabelSet(s.text) : l[1] = x
  BY <1>4, FunctionLabelIs
<1>6. s.text \in Seq(Ops(F)) /\ q = [text |-> r.text \o s.text, cmp |-> s.cmp, bool |-> s.bool]
  BY <1>4, PieceIs
<1>7. s.cmp \in Nat /\ s.bool \in Nat
  BY <1>4, PieceIs
<1> HIDE DEF q
<1>8. q.text = r.text \o s.text
  BY <1>6
<1>9. LabelSet(r.text) \cap LabelSet(s.text) = {}
  <2> SUFFICES ASSUME NEW l \in LabelSet(r.text), l \in LabelSet(s.text) PROVE FALSE
    OBVIOUS
  <2>1. PICK i \in 1 .. k : l[1] = p.functions[i].ident
    BY DEF FunctionsUpTo
  <2>2. p.functions[i].ident = p.functions[k + 1].ident
    BY <1>5, <2>1 DEF x
  <2> QED  BY <1>1, <2>2
<1>10. /\ q.text \in Seq(Ops(F)) /\ LabelSet(q.text) = LabelSet(r.text) \cup LabelSet(s.text)
       /\ JumpSet(q.text) = JumpSet(r.text) \cup JumpSet(s.text)
       /\ Unique(q.text)
  <2>1. Unique(r.text)
    BY DEF FunctionsUpTo
  <2> QED  BY <1>2, <1>4, <1>6, <1>8, <1>9, <2>1, BothTexts
<1>11. q \in Pieces(F)
  BY <1>6, <1>7, <1>8, <1>10 DEF Pieces
<1>12. ASSUME NEW l \in LabelSet(q.text) PROVE \E i \in 1 .. k + 1 : l[1] = p.functions[i].ident
  <2>1. CASE l \in LabelSet(r.text)
    <3>1. PICK i \in 1 .. k : l[1] = p.functions[i].ident
      BY <2>1 DEF FunctionsUpTo
    <3>2. i \in 1 .. k + 1
      OBVIOUS
    <3> QED  BY <3>1, <3>2
  <2>2. CASE l \in LabelSet(s.text)
    <3>1. k + 1 \in 1 .. k + 1
      OBVIOUS
    <3> QED  BY <1>5, <2>2, <3>1 DEF x
  <2> QED  BY <1>10, <2>1, <2>2
<1>13. ASSUME NEW i \in 1 .. k + 1 PROVE FunctionLabel(p.functions[i].ident) \in LabelSet(q.text)
  <2>1. i \in 1 .. k \/ i = k + 1
    OBVIOUS
  <2>2. CASE i \in 1 .. k
    <3>1. FunctionLabel(p.functions[i].ident) \in LabelSet(r.text)
      BY <2>2 DEF FunctionsUpTo
    <3> QED  BY <1>10, <3>1
  <2>3. CASE i = k + 1
    BY <1>4, <1>10, <2>3 DEF x
  <2> QED  BY <2>1, <2>2, <2>3
<1>14. JumpSet(q.text) \subseteq LabelSet(q.text)
  BY <1>4, <1>10 DEF FunctionsUpTo
<1>15. Ending(q.text)
  BY <1>2, <1>3, <1>6, <1>8, EndsAlike
<1> QED  BY <1>10, <1>11, <1>12, <1>13, <1>14, <1>15 DEF FunctionsUpTo, F, q, s, out

LEMMA EachFunction ==
    ASSUME NEW p, p.globals \in Seq(Declarations), p.functions \in Seq(Definitions), Translatable(p),
           \A i, j \in DOMAIN p.functions : p.functions[i].ident = p.functions[j].ident => i = j
    PROVE  LET defined == {p.functions[i] : i \in DOMAIN p.functions}
               pieces == [x \in defined \X Counters |-> DeclFonct(ProgramTables(p), x[1], x[2])]
           IN FunctionsUpTo(p, Len(p.functions), Each(pieces, p.functions, [cmp |-> 0, bool |-> 0]))
<1> DEFINE defined == {p.functions[i] : i \in DOMAIN p.functions}
           tables == ProgramTables(p)
           pieces == [x \in defined \X Counters |-> DeclFonct(tables, x[1], x[2])]
           out == [cmp |-> 0, bool |-> 0]
           list == p.functions
           n == Len(list)
           F == FunctionNames(p)
<1>1. n \in Nat /\ DOMAIN list = 1 .. n
  OBVIOUS
<1>2. out \in Counters
  BY DEF Counters
<1> HIDE DEF tables, out, list
<1>3. \A d \in defined, o \in Counters : pieces[d, o] = DeclFonct(tables, d, o)
  <2> HIDE DEF defined
  <2> QED  OBVIOUS
<1> HIDE DEF pieces, defined
<1>4. PICK g : /\ g[0] = Write(<<>>, out)
               /\ \A k \in 1 .. n : g[k] = Followed(g[k - 1], pieces, list[k])
               /\ Each(pieces, list, out) = g[n]
  <2>1. Len(list) \in Nat
    BY <1>1
  <2> QED  BY <2>1, EachIs
<1> HIDE DEF n
<1> DEFINE R == {k \in 0 .. n : FunctionsUpTo(p, k, g[k])}
<1>5. 0 \in R
  <2> DEFINE w == Write(<<>>, out)
  <2>1. <<>> \in Seq(Plain(F)) /\ <<>> \in Seq(Ops(F))
    OBVIOUS
  <2>2. w = [text |-> <<>>, cmp |-> out.cmp, bool |-> out.bool]
    BY DEF Write
  <2>3. out.cmp \in Nat /\ out.bool \in Nat
    BY <1>2, CountersAre
  <2>4. w \in Pieces(F) /\ w.text = <<>>
    <3> HIDE DEF w, F
    <3> QED  BY <2>1, <2>2, <2>3 DEF Pieces
  <2>5. Unique(<<>>) /\ LabelSet(<<>>) = {} /\ JumpSet(<<>>) = {}
    BY <2>1, PlainText
  <2> HIDE DEF w, F
  <2>6. Unique(w.text) /\ LabelSet(w.text) = {} /\ JumpSet(w.text) = {}
    BY <2>4, <2>5
  <2>7. FunctionsUpTo(p, 0, w)
    <3>1. \A i : i \notin 1 .. 0
      OBVIOUS
    <3> QED  BY <2>4, <2>6, <3>1 DEF FunctionsUpTo, F
  <2>8. 0 \in 0 .. n
    BY <1>1
  <2> QED  BY <1>4, <2>7, <2>8 DEF w
<1>6. ASSUME NEW k \in 0 .. n, k + 1 \in 0 .. n, k \in R PROVE k + 1 \in R
  <2>1. k + 1 \in 1 .. n /\ (k + 1) - 1 = k /\ k \in Nat
    BY <1>1, <1>6
  <2>2. g[k + 1] = Followed(g[k], pieces, list[k + 1])
    BY <1>4, <2>1
  <2>3. FunctionsUpTo(p, k, g[k])
    BY <1>6
  <2>4. Behind(g[k]) \in Counters
    BY <2>3, PieceIs DEF FunctionsUpTo
  <2>5. list[k + 1] \in defined
    <3>1. k + 1 \in DOMAIN list
      BY <1>1, <2>1
    <3> QED  BY <3>1 DEF defined, list
  <2>6. g[k + 1] = Then(g[k], DeclFonct(tables, list[k + 1], Behind(g[k])))
    BY <1>3, <2>2, <2>4, <2>5 DEF Followed
  <2>7. FunctionsUpTo(p, k + 1, g[k + 1])
    BY <2>1, <2>3, <2>6, NextFunction DEF tables, list, n
  <2> QED  BY <1>6, <2>7
<1> HIDE DEF R
<1>7. n \in R
  <2>1. 0 .. n \subseteq R
    BY <1>1, <1>5, <1>6, Reaches
  <2> QED  BY <1>1, <2>1
<1> QED  BY <1>4, <1>7 DEF R, pieces, defined, tables, out, list, n

\* The text of a program: its labels are all different and those of its functions
\* are among them, it jumps to labels that it has, and a `ret' comes last.
ProgText(p, text) ==
    /\ text \in Seq(Ops(FunctionNames(p))) /\ Unique(text)
    /\ JumpSet(text) \subseteq LabelSet(text)
    /\ \A x \in DefinedNames(p) : FunctionLabel(x) \in LabelSet(text)
    /\ text # <<>> /\ Ending(text)

LEMMA EntryPointText ==
    ASSUME NEW F, "main" \in F
    PROVE  /\ EntryPoint \in Seq(Ops(F)) /\ Unique(EntryPoint)
           /\ LabelSet(EntryPoint) = {FunctionLabel("_start")} /\ JumpSet(EntryPoint) = {}
<1> DEFINE l == FunctionLabel("_start")
           o1 == Label(l)
           o2 == <<"call", FunctionLabel("main")>>
           o3 == Mov(Reg("rdi"), Reg("rax"))
           o4 == Mov(Reg("rax"), Imm(60))
           o5 == <<"syscall">>
           t == <<o1, o2, o3, o4, o5>>
<1>1. o1 \in Ops(F) /\ o1[1] \notin Jumps /\ o1[1] = "label" /\ o1[2] = l
  <2>1. l \in AnyLabel(F)
    BY FunctionLabelIs
  <2> HIDE DEF l
  <2> QED  BY <2>1, OpsAre, CodeIs
<1>2. o2 \in Ops(F) /\ o2[1] \notin Jumps /\ o2[1] # "label"
  <2>1. o2 \in Plain(F)
    BY PlainIs
  <2> HIDE DEF o2
  <2> QED  BY <2>1, OpsAre, PlainIsNoLabel
<1>3. o3 \in Ops(F) /\ o3[1] \notin Jumps /\ o3[1] # "label"
  <2>1. o3 \in Plain(F)
    BY FixedOps, RegistersAre
  <2> HIDE DEF o3
  <2> QED  BY <2>1, OpsAre, PlainIsNoLabel
<1>4. o4 \in Ops(F) /\ o4[1] \notin Jumps /\ o4[1] # "label"
  <2>1. o4 \in Plain(F)
    BY FixedOps, RegistersAre
  <2> HIDE DEF o4
  <2> QED  BY <2>1, OpsAre, PlainIsNoLabel
<1>5. o5 \in Ops(F) /\ o5[1] \notin Jumps /\ o5[1] # "label"
  <2>1. o5 \in Plain(F)
    BY PlainIs
  <2> HIDE DEF o5
  <2> QED  BY <2>1, OpsAre, PlainIsNoLabel
<1>6. EntryPoint = t
  BY DEF EntryPoint
<1> HIDE DEF l, o1, o2, o3, o4, o5
<1>7. DOMAIN t = 1 .. 5 /\ t[1] = o1 /\ t[2] = o2 /\ t[3] = o3 /\ t[4] = o4 /\ t[5] = o5
  OBVIOUS
<1>8. t \in Seq(Ops(F))
  BY <1>1, <1>2, <1>3, <1>4, <1>5
<1> HIDE DEF t
<1>9. \A i \in DOMAIN t : i \in {1, 2, 3, 4, 5}
  BY <1>7
<1>10. Labels(t) = {1}
  BY <1>1, <1>2, <1>3, <1>4, <1>5, <1>7, <1>9 DEF Labels
<1>11. JumpsOf(t) = {}
  BY <1>1, <1>2, <1>3, <1>4, <1>5, <1>7, <1>9 DEF JumpsOf
<1>12. LabelSet(t) = {l}
  BY <1>1, <1>7, <1>10 DEF LabelSet
<1>13. JumpSet(t) = {} /\ Unique(t)
  BY <1>10, <1>11 DEF JumpSet, Unique
<1> QED  BY <1>6, <1>8, <1>12, <1>13 DEF l

\* The text of any program of Programs: no label twice, every jump to
\* one that is there, a label for every function, a ret at the end
\* (treeReader.c:146, codeWriter.c:83, :176, :199, :298).
THEOREM ProgramText == ASSUME NEW p \in Programs PROVE ProgText(p, Prog(p).text)
<1> DEFINE tables == ProgramTables(p)
           defined == {p.functions[i] : i \in DOMAIN p.functions}
           pieces == [x \in defined \X Counters |-> DeclFonct(tables, x[1], x[2])]
           r == Each(pieces, p.functions, [cmp |-> 0, bool |-> 0])
           a == EntryPoint
           n == Len(p.functions)
           F == FunctionNames(p)
<1>1. /\ p.globals \in Seq(Declarations) /\ p.functions \in Seq(Definitions) /\ Translatable(p)
      /\ \A i, j \in DOMAIN p.functions : p.functions[i].ident = p.functions[j].ident => i = j
      /\ \A i \in DOMAIN p.functions : p.functions[i].ident # "_start"
      /\ \E i \in DOMAIN p.functions : p.functions[i].ident = "main"
  BY ProgramsAssumption
<1>2. Prog(p).text = a \o r.text
  BY DEF Prog
<1>3. FunctionsUpTo(p, n, r)
  BY <1>1, EachFunction
<1> HIDE DEF r
<1>4. n \in Nat /\ DOMAIN p.functions = 1 .. n
  BY <1>1
<1>5. n > 0
  <2>1. PICK i \in 1 .. n : TRUE
    BY <1>1, <1>4
  <2> HIDE DEF n
  <2> QED  BY <1>4, <2>1
<1>6. r.text \in Seq(Ops(F))
  BY <1>3, PieceIs DEF FunctionsUpTo
<1>7. /\ a \in Seq(Ops(F)) /\ Unique(a) /\ LabelSet(a) = {FunctionLabel("_start")} /\ JumpSet(a) = {}
  <2>1. "main" \in F
    BY <1>1 DEF FunctionNames, DefinedNames
  <2> HIDE DEF F
  <2> QED  BY <2>1, EntryPointText
<1> HIDE DEF a, F
<1>8. LabelSet(a) \cap LabelSet(r.text) = {}
  <2> SUFFICES ASSUME FunctionLabel("_start") \in LabelSet(r.text) PROVE FALSE
    BY <1>7
  <2>1. PICK i \in 1 .. n : FunctionLabel("_start")[1] = p.functions[i].ident
    BY <1>3 DEF FunctionsUpTo
  <2>2. p.functions[i].ident = "_start"
    BY <2>1, FunctionLabelIs
  <2> QED  BY <1>1, <1>4, <2>2
<1>9. /\ a \o r.text \in Seq(Ops(F)) /\ LabelSet(a \o r.text) = LabelSet(a) \cup LabelSet(r.text)
      /\ JumpSet(a \o r.text) = JumpSet(a) \cup JumpSet(r.text)
      /\ Unique(a \o r.text)
  <2> DEFINE b == r.text
             S == Ops(F)
  <2>1. a \in Seq(S) /\ b \in Seq(S)
    BY <1>6, <1>7
  <2>2. Unique(a) /\ Unique(b)
    BY <1>3, <1>7 DEF FunctionsUpTo
  <2>3. LabelSet(a) \cap LabelSet(b) = {}
    BY <1>8
  <2> HIDE DEF b, S
  <2>4. /\ a \o b \in Seq(S) /\ LabelSet(a \o b) = LabelSet(a) \cup LabelSet(b)
        /\ JumpSet(a \o b) = JumpSet(a) \cup JumpSet(b)
        /\ Unique(a \o b)
    BY <2>1, <2>2, <2>3, BothTexts
  <2> QED  BY <2>4 DEF b, S
<1>10. Ending(a \o r.text)
  <2>1. Ending(r.text)
    BY <1>3, <1>5 DEF FunctionsUpTo
  <2> QED  BY <1>6, <1>7, <2>1, EndsAlike
<1>11. JumpSet(a \o r.text) \subseteq LabelSet(a \o r.text)
  BY <1>3, <1>7, <1>9 DEF FunctionsUpTo
<1>12. ASSUME NEW x \in DefinedNames(p) PROVE FunctionLabel(x) \in LabelSet(a \o r.text)
  <2>1. PICK i \in 1 .. n : x = p.functions[i].ident
    BY <1>4 DEF DefinedNames
  <2>2. FunctionLabel(p.functions[i].ident) \in LabelSet(r.text)
    BY <1>3 DEF FunctionsUpTo
  <2> QED  BY <1>9, <2>1, <2>2
<1> DEFINE text == a \o r.text
<1>13. Prog(p).text = text
  BY <1>2
<1> HIDE DEF text
<1>14. ProgText(p, text)
  <2>1. text # <<>> /\ Ending(text)
    BY <1>10 DEF Ending, text
  <2>2. text \in Seq(Ops(F)) /\ Unique(text) /\ JumpSet(text) \subseteq LabelSet(text)
    BY <1>9, <1>11 DEF text
  <2>3. \A x \in DefinedNames(p) : FunctionLabel(x) \in LabelSet(text)
    BY <1>12 DEF text
  <2> QED  BY <2>1, <2>2, <2>3 DEF ProgText, F
<1> QED  BY <1>13, <1>14
-----------------------------------------------------------------------------
(* Words                                                                   *)

LEMMA ModuloIn == \A n \in Int, d \in Nat \ {0} : n % d \in 0 .. d - 1
  OBVIOUS

\* Wrap gives a word, whatever the integer.
LEMMA Wrapped == ASSUME NEW n \in Int PROVE Wrap(n) \in Word
<1> USE WordMaxAssumption
<1>1. CASE n \in Word
  BY <1>1 DEF Wrap
<1>2. CASE n \notin Word
  <2> DEFINE m == (n + WordMax + 1) % (2 * (WordMax + 1))
  <2>1. m \in 0 .. 2 * (WordMax + 1) - 1
    <3>1. n + WordMax + 1 \in Int /\ 2 * (WordMax + 1) \in Nat \ {0}
      OBVIOUS
    <3> QED  BY <3>1, ModuloIn
  <2>2. Wrap(n) = m - WordMax - 1
    BY <1>2 DEF Wrap
  <2> HIDE DEF m
  <2> QED  BY <2>1, <2>2 DEF Word
<1> QED  BY <1>1, <1>2

LEMMA WordsAre ==
    /\ \A n \in Word : n \in Int
    /\ 0 \in Word /\ -1 \in Word /\ 0 .. 255 \subseteq Word
    /\ \A n \in 0 .. WordMax : n \in Word
<1>1. WordMax \in Nat /\ WordMax >= 32767
  BY WordMaxAssumption, MachineAssumption
<1> QED  BY <1>1 DEF Word

\* What is left of a division by a word.
LEMMA RemainderWord ==
    ASSUME NEW n \in Int, NEW d \in Word, d # 0
    PROVE  Remainder(n, d) \in Word
<1> DEFINE a == Abs(n)
           b == Abs(d)
           q == a \div b
           r == a % b
<1>1. d \in Int /\ a \in Nat /\ b \in Nat \ {0} /\ b <= WordMax + 1
  BY WordMaxAssumption DEF Abs, Word
<1>2. /\ (n < 0 /\ a = -n) \/ (~(n < 0) /\ a = n)
      /\ (d < 0 /\ b = -d) \/ (~(d < 0) /\ b = d)
  BY DEF Abs
<1>3. /\ (n < 0) = (d < 0) => Remainder(n, d) = n - d * q
      /\ (n < 0) # (d < 0) => Remainder(n, d) = n - d * (-q)
  BY DEF Remainder, Quotient
<1> HIDE DEF a, b
<1>4. q \in Int /\ r \in 0 .. b - 1 /\ a = b * q + r
  BY <1>1
<1> HIDE DEF q, r
<1>5. Remainder(n, d) = r \/ Remainder(n, d) = -r
  <2>1. CASE n < 0 /\ d < 0
    <3>1. n = -a /\ d = -b
      BY <1>1, <1>2, <2>1
    <3>2. Remainder(n, d) = n - d * q
      BY <1>3, <2>1
    <3>3. d * q = -(b * q)
      BY <1>1, <1>4, <3>1
    <3> QED  BY <1>1, <1>4, <3>1, <3>2, <3>3
  <2>2. CASE n < 0 /\ ~(d < 0)
    <3>1. n = -a /\ d = b
      BY <1>1, <1>2, <2>2
    <3>2. Remainder(n, d) = n - d * (-q)
      BY <1>3, <2>2
    <3>3. d * (-q) = -(b * q)
      BY <1>1, <1>4, <3>1
    <3> QED  BY <1>1, <1>4, <3>1, <3>2, <3>3
  <2>3. CASE ~(n < 0) /\ d < 0
    <3>1. n = a /\ d = -b
      BY <1>1, <1>2, <2>3
    <3>2. Remainder(n, d) = n - d * (-q)
      BY <1>3, <2>3
    <3>3. d * (-q) = b * q
      BY <1>1, <1>4, <3>1
    <3> QED  BY <1>1, <1>4, <3>1, <3>2, <3>3
  <2>4. CASE ~(n < 0) /\ ~(d < 0)
    <3>1. n = a /\ d = b
      BY <1>1, <1>2, <2>4
    <3>2. Remainder(n, d) = n - d * q
      BY <1>3, <2>4
    <3> QED  BY <1>1, <1>4, <3>1, <3>2
  <2> QED  BY <2>1, <2>2, <2>3, <2>4
<1>6. r \in Word /\ -r \in Word
  BY <1>1, <1>4, WordMaxAssumption DEF Word
<1> QED  BY <1>5, <1>6
-----------------------------------------------------------------------------
(* Operands of an instruction                                              *)

LEMMA OperandForms ==
    /\ \A x \in Regs : x[1] = "reg" /\ x[2] \in Registers
    /\ \A x \in Numbers : x[1] = "imm" /\ x[2] \in Int
    /\ \A x \in Statics : x[1] = "static" /\ x[2] \in Int
    /\ \A x \in Cells : x[1] = "mem" /\ x[2] \in Registers \cup {"global_vars"} /\ x[3] \in Int
    /\ Element[1] = "index" /\ Element[2] = "rdx" /\ Element[3] = "rax" /\ Element[4] = WordSize
<1>1. \A x \in Regs : x[1] = "reg" /\ x[2] \in Registers
  BY DEF Regs
<1>2. \A x \in Numbers : x[1] = "imm" /\ x[2] \in Int
  BY DEF Numbers
<1>3. \A x \in Statics : x[1] = "static" /\ x[2] \in Int
  BY DEF Statics
<1>4. \A x \in Cells : x[1] = "mem" /\ x[2] \in Registers \cup {"global_vars"} /\ x[3] \in Int
  BY DEF Cells
<1>5. Element[1] = "index" /\ Element[2] = "rdx" /\ Element[3] = "rax" /\ Element[4] = WordSize
  BY DEF Element
<1> QED  BY <1>1, <1>2, <1>3, <1>4, <1>5

\* The operands that each operation may have.
OpForm(F, o) ==
    /\ o[1] = "push" => Len(o) = 2 /\ o[2] \in Regs \cup Numbers \cup Cells
    /\ o[1] = "pop" => Len(o) = 2 /\ o[2] \in Regs \cup Cells
    /\ o[1] = "mov" => Len(o) = 3 /\ o[2] \in Regs \cup Cells /\ o[3] \in Regs \cup Numbers \cup Statics
    /\ o[1] = "lea" => o[2] \in Regs /\ o[3] \in Cells \cup {Element}
    /\ o[1] \in {"add", "sub", "imul", "cmp"} => o[2] \in Regs /\ o[3] \in Regs \cup Numbers
    /\ o[1] \in {"neg", "idiv"} => o[2] \in Regs
    /\ o[1] = "call" => o[2] \in Callees(F)
    /\ o[1] \in Jumps => o[2] \in AnyLabel(F)

LEMMA OpForms == ASSUME NEW F, NEW o \in Ops(F) PROVE OpForm(F, o)
<1>1. CASE o \in {"push"} \X (Regs \cup Numbers \cup Cells)
  <2>1. o[1] = "push" /\ Len(o) = 2 /\ o[2] \in Regs \cup Numbers \cup Cells
    BY <1>1
  <2> QED  BY <2>1 DEF OpForm, Jumps
<1>2. CASE o \in {"pop"} \X (Regs \cup Cells)
  <2>1. o[1] = "pop" /\ Len(o) = 2 /\ o[2] \in Regs \cup Cells
    BY <1>2
  <2> QED  BY <2>1 DEF OpForm, Jumps
<1>3. CASE o \in {"mov"} \X (Regs \cup Cells) \X (Regs \cup Numbers \cup Statics)
  <2>1. o[1] = "mov" /\ Len(o) = 3 /\ o[2] \in Regs \cup Cells /\ o[3] \in Regs \cup Numbers \cup Statics
    BY <1>3
  <2> QED  BY <2>1 DEF OpForm, Jumps
<1>4. CASE o \in {"lea"} \X Regs \X (Cells \cup {Element})
  <2>1. o[1] = "lea" /\ o[2] \in Regs /\ o[3] \in Cells \cup {Element}
    BY <1>4
  <2> QED  BY <2>1 DEF OpForm, Jumps
<1>5. CASE o \in {"add", "sub", "imul", "cmp"} \X Regs \X (Regs \cup Numbers)
  <2>1. o[1] \in {"add", "sub", "imul", "cmp"} /\ o[2] \in Regs /\ o[3] \in Regs \cup Numbers
    BY <1>5
  <2> QED  BY <2>1 DEF OpForm, Jumps
<1>6. CASE o \in {"neg", "idiv"} \X Regs
  <2>1. o[1] \in {"neg", "idiv"} /\ o[2] \in Regs
    BY <1>6
  <2> QED  BY <2>1 DEF OpForm, Jumps
<1>7. CASE o \in {<<"cqo">>, <<"sete">>, <<"movzx">>, <<"ret">>, <<"syscall">>}
  <2>1. o[1] \in {"cqo", "sete", "movzx", "ret", "syscall"}
    BY <1>7
  <2> QED  BY <2>1 DEF OpForm, Jumps
<1>8. CASE o \in {"call"} \X Callees(F)
  <2>1. o[1] = "call" /\ o[2] \in Callees(F)
    BY <1>8
  <2> QED  BY <2>1 DEF OpForm, Jumps
<1>9. CASE o \in Jumps \X AnyLabel(F)
  <2>1. o[1] \in Jumps /\ o[2] \in AnyLabel(F)
    BY <1>9
  <2> QED  BY <2>1 DEF OpForm, Jumps
<1>10. CASE o \in {"label"} \X AnyLabel(F)
  <2>1. o[1] = "label"
    BY <1>10
  <2> QED  BY <2>1 DEF OpForm, Jumps
<1> QED  BY <1>1, <1>2, <1>3, <1>4, <1>5, <1>6, <1>7, <1>8, <1>9, <1>10 DEF Ops, Plain, Moves, Computes

\* The words that an instruction computes with.
LEMMA EffectiveWord ==
    ASSUME regs \in [Registers -> Word], NEW x \in Cells \cup {Element}
    PROVE  Effective(x) \in Word
<1>1. \A r \in Registers : regs[r] \in Int
  BY WordsAre
<1>2. GlobalVars \in Int /\ WordSize \in Int
  BY MachineAssumption, WordsAre DEF WordSize
<1>3. CASE x \in Cells
  <2>1. x[1] # "index" /\ x[2] \in Registers \cup {"global_vars"} /\ x[3] \in Int
    BY <1>3, OperandForms
  <2>2. CASE x[2] = "global_vars"
    <3>1. Effective(x) = Wrap(GlobalVars + x[3])
      BY <2>1, <2>2 DEF Effective
    <3>2. GlobalVars + x[3] \in Int
      BY <1>2, <2>1
    <3> QED  BY <3>1, <3>2, Wrapped
  <2>3. CASE x[2] # "global_vars"
    <3>1. Effective(x) = Wrap(regs[x[2]] + x[3])
      BY <2>1, <2>3 DEF Effective
    <3>2. regs[x[2]] + x[3] \in Int
      BY <1>1, <2>1, <2>3
    <3> QED  BY <3>1, <3>2, Wrapped
  <2> QED  BY <2>2, <2>3
<1>4. CASE x = Element
  <2>1. Effective(x) = Wrap(regs["rdx"] + regs["rax"] * WordSize)
    BY <1>4, OperandForms DEF Effective
  <2>2. regs["rdx"] \in Int /\ regs["rax"] \in Int
    BY <1>1, RegistersAre
  <2>3. regs["rdx"] + regs["rax"] * WordSize \in Int
    BY <1>2, <2>2
  <2> QED  BY <2>1, <2>3, Wrapped
<1> QED  BY <1>3, <1>4

LEMMA FetchWord ==
    ASSUME regs \in [Registers -> Word], NEW A, memory \in [A -> Word],
           NEW x \in Regs \cup Numbers \cup Statics \cup Cells, x \in Cells => Effective(x) \in A
    PROVE  Fetch(x) \in Word
<1>1. CASE x \in Regs
  <2>1. x[1] = "reg" /\ x[2] \in Registers
    BY <1>1, OperandForms
  <2> QED  BY <2>1 DEF Fetch
<1>2. CASE x \in Numbers
  <2>1. x[1] = "imm" /\ x[2] \in Int
    BY <1>2, OperandForms
  <2>2. Fetch(x) = Wrap(x[2])
    BY <2>1 DEF Fetch
  <2> QED  BY <2>1, <2>2, Wrapped
<1>3. CASE x \in Statics
  <2>1. x[1] = "static" /\ x[2] \in Int
    BY <1>3, OperandForms
  <2>2. Fetch(x) = Wrap(GlobalVars + x[2])
    BY <2>1 DEF Fetch
  <2>3. GlobalVars \in Int
    BY MachineAssumption, WordsAre
  <2>4. GlobalVars + x[2] \in Int
    BY <2>1, <2>3
  <2> QED  BY <2>2, <2>4, Wrapped
<1>4. CASE x \in Cells
  <2>1. x[1] = "mem"
    BY <1>4, OperandForms
  <2>2. Fetch(x) = memory[Effective(x)]
    BY <2>1 DEF Fetch
  <2> QED  BY <1>4, <2>2
<1> QED  BY <1>1, <1>2, <1>3, <1>4
-----------------------------------------------------------------------------
(* The inductive invariant                                                 *)

\* TypeOK, with the text that the code was made from and, before it is there,
\* what the registers and the counters start with.
MInv ==
    /\ source \in Programs /\ stdin \in Inputs /\ garbage \in Fills
    /\ ~Loaded => /\ regs \in [Registers -> Word]
                  /\ consumed = 0 /\ stdout = <<>> /\ rip = 1 /\ flags = 0 /\ callstack = <<>>
    /\ Loaded => code.text = Prog(source).text /\ code.place = Places(code.text)
    /\ TypeOK

Outputs == {"putint", "putchar"} \X Word
Frames == [back : DOMAIN code.text, rsp : Word, rbp : Word]

LEMMA LoadedIs ==
    ASSUME MInv, status = "running"
    PROVE  /\ Loaded /\ ProgText(source, code.text) /\ code.place = Places(code.text)
           /\ Len(code.text) \in Nat /\ DOMAIN code.text = 1 .. Len(code.text)
           /\ Len(code.text) <= WordMax
           /\ consumed \in 0 .. Len(stdin) /\ stdout \in Seq(Outputs) /\ rip \in DOMAIN code.text
           /\ regs \in [Registers -> Word] /\ flags \in {-1, 0, 1}
           /\ memory \in [code.bss \cup Stack -> Word] /\ callstack \in Seq(Frames)
           /\ stdin \in Seq(Word) /\ garbage \in Word
<1>1. Loaded
  BY DEF Loaded
<1>2. source \in Programs /\ code.text = Prog(source).text /\ code.place = Places(code.text)
  BY <1>1 DEF MInv
<1>3. ProgText(source, code.text)
  BY <1>2, ProgramText
<1>4. Len(code.text) \in Nat /\ DOMAIN code.text = 1 .. Len(code.text)
  BY <1>3 DEF ProgText
<1>5. Len(code.text) <= WordMax
  BY <1>2, ProgramsAssumption
<1>6. stdin \in Seq(Word) /\ garbage \in Word
  BY MachineAssumption DEF MInv
<1>7. /\ consumed \in 0 .. Len(stdin) /\ stdout \in Seq(Outputs) /\ rip \in DOMAIN code.text
      /\ regs \in [Registers -> Word] /\ flags \in {-1, 0, 1}
      /\ memory \in [code.bss \cup Stack -> Word] /\ callstack \in Seq(Frames)
  BY <1>1 DEF MInv, TypeOK, Outputs, Frames
<1> QED  BY <1>1, <1>2, <1>3, <1>4, <1>5, <1>6, <1>7

LEMMA AtInstruction ==
    ASSUME MInv, NEW ops, Is(ops)
    PROVE  /\ status = "running" /\ Instruction[1] \in ops
           /\ OpForm(FunctionNames(source), Instruction)
           /\ "ret" \notin ops => rip + 1 \in DOMAIN code.text /\ rip + 1 \in Word
<1>1. status = "running" /\ rip \in DOMAIN code.text /\ Instruction[1] \in ops
  BY DEF Is
<1> DEFINE text == code.text
           n == Len(text)
<1>2. /\ ProgText(source, text) /\ n \in Nat /\ DOMAIN text = 1 .. n /\ n <= WordMax
  BY <1>1, LoadedIs
<1>3. Instruction = text[rip]
  BY DEF Instruction
<1>4. OpForm(FunctionNames(source), Instruction)
  <2>1. text[rip] \in Ops(FunctionNames(source))
    BY <1>1, <1>2 DEF ProgText
  <2> HIDE DEF text
  <2> QED  BY <1>3, <2>1, OpForms
<1>5. ASSUME "ret" \notin ops PROVE rip + 1 \in DOMAIN text /\ rip + 1 \in Word
  <2>1. rip # n
    <3> SUFFICES ASSUME rip = n PROVE FALSE
      OBVIOUS
    <3>1. text[n] = <<"ret">>
      BY <1>2 DEF ProgText, Ending
    <3>2. Instruction[1] = "ret"
      <4>1. Instruction = <<"ret">>
        BY <1>3, <3>1
      <4> QED  BY <4>1
    <3> QED  BY <1>1, <1>5, <3>2
  <2> HIDE DEF text, n
  <2>2. rip + 1 \in 1 .. n /\ rip + 1 \in 0 .. WordMax
    BY <1>1, <1>2, <2>1, WordMaxAssumption DEF text
  <2> QED  BY <1>2, <2>2, WordsAre
<1> QED  BY <1>1, <1>4, <1>5

LEMMA StepKeeps ==
    ASSUME MInv, status = "running", Stays,
           consumed' \in 0 .. Len(stdin), stdout' \in Seq(Outputs), rip' \in DOMAIN code.text,
           regs' \in [Registers -> Word], flags' \in {-1, 0, 1},
           memory' \in [code.bss \cup Stack -> Word],
           status' \in {"running", "exited", "fault", "crashed"}, callstack' \in Seq(Frames)
    PROVE  MInv'
<1>1. source' = source /\ code' = code /\ stdin' = stdin /\ garbage' = garbage
  BY DEF Stays, chosen
<1>2. Loaded /\ Loaded'
  BY DEF Loaded
<1>3. TypeOK'
  BY <1>1, <1>2 DEF TypeOK, Outputs, Frames
<1>4. /\ source' \in Programs /\ stdin' \in Inputs /\ garbage' \in Fills
      /\ code'.text = Prog(source').text /\ code'.place = Places(code'.text)
  BY <1>1, <1>2 DEF MInv
<1> QED  BY <1>2, <1>3, <1>4 DEF MInv

\* A step that stops the program leaves the rest.
LEMMA StopKeeps ==
    ASSUME MInv, status = "running", Silent, UNCHANGED <<rip, regs, flags, memory, callstack>>,
           status' \in {"exited", "fault", "crashed"}
    PROVE  MInv'
<1>1. Stays /\ consumed' = consumed /\ stdout' = stdout
  BY DEF Silent
<1>2. /\ consumed \in 0 .. Len(stdin) /\ stdout \in Seq(Outputs) /\ rip \in DOMAIN code.text
      /\ regs \in [Registers -> Word] /\ flags \in {-1, 0, 1}
      /\ memory \in [code.bss \cup Stack -> Word] /\ callstack \in Seq(Frames)
  BY LoadedIs
<1> QED  BY <1>1, <1>2, StepKeeps

\* A step inside a function, with the registers and the memory that it gives.
LEMMA InnerKeeps ==
    ASSUME MInv, status = "running", Inner, rip' \in DOMAIN code.text,
           regs' \in [Registers -> Word], flags' \in {-1, 0, 1},
           memory' \in [code.bss \cup Stack -> Word]
    PROVE  MInv'
<1>1. /\ Stays /\ consumed' = consumed /\ stdout' = stdout /\ status' = status
      /\ callstack' = callstack
  BY DEF Inner, Silent
<1>2. consumed \in 0 .. Len(stdin) /\ stdout \in Seq(Outputs) /\ callstack \in Seq(Frames)
  BY LoadedIs
<1> QED  BY <1>1, <1>2, StepKeeps

LEMMA GoesKeeps ==
    ASSUME MInv, NEW ops, Is(ops), "ret" \notin ops, Inner, flags' \in {-1, 0, 1},
           NEW r \in [Registers -> Word], NEW m \in [code.bss \cup Stack -> Word], Goes(r, m)
    PROVE  MInv'
<1>1. status = "running" /\ rip + 1 \in DOMAIN code.text
  BY AtInstruction
<1>2. regs' = r /\ memory' = m /\ rip' = rip + 1
  BY DEF Goes
<1> QED  BY <1>1, <1>2, InnerKeeps
-----------------------------------------------------------------------------
(* Instructions of the processor                                           *)

LEMMA StackIs ==
    ASSUME regs \in [Registers -> Word]
    PROVE  /\ regs["rsp"] \in Word /\ regs["rbp"] \in Word /\ regs["rax"] \in Word /\ regs["rdx"] \in Word
           /\ Wrap(regs["rsp"] - WordSize) \in Word /\ Wrap(regs["rsp"] + WordSize) \in Word
<1>1. /\ regs["rsp"] \in Word /\ regs["rbp"] \in Word /\ regs["rax"] \in Word /\ regs["rdx"] \in Word
  BY RegistersAre
<1>2. regs["rsp"] - WordSize \in Int /\ regs["rsp"] + WordSize \in Int
  BY <1>1, WordsAre DEF WordSize
<1> QED  BY <1>1, <1>2, Wrapped

\* A word read through an operand is there when the instruction is valid.
LEMMA OperandThere ==
    ASSUME MInv, NEW ops, ops \in {{"push"}, {"pop"}, {"mov"}}, Is(ops), Valid,
           NEW k \in 2 .. Len(Instruction), Instruction[k] \in Cells
    PROVE  Effective(Instruction[k]) \in code.bss \cup Stack
<1>1. Instruction[k][1] = "mem"
  BY OperandForms
<1>2. Is({"push", "pop", "mov"})
  BY DEF Is
<1>3. Effective(Instruction[k]) \in Explicit
  BY <1>1, <1>2 DEF Explicit
<1>4. Explicit \subseteq DOMAIN memory
  BY DEF Valid
<1>5. memory \in [code.bss \cup Stack -> Word]
  BY LoadedIs DEF Is
<1> QED  BY <1>3, <1>4, <1>5

LEMMA PushKeeps == ASSUME MInv, PushStep PROVE MInv'
<1> DEFINE ops == {"push"}
           o == Instruction
           top == Wrap(regs["rsp"] - WordSize)
           v == Fetch(o[2])
           m == [memory EXCEPT ![top] = v]
           r == [regs EXCEPT !["rsp"] = top]
<1>1. Is(ops) /\ Valid /\ Goes(r, m) /\ Inner /\ flags' = flags
  BY DEF PushStep
<1>2. /\ status = "running" /\ o[1] = "push" /\ OpForm(FunctionNames(source), o)
  BY <1>1, AtInstruction
<1>3. Len(o) = 2 /\ o[2] \in Regs \cup Numbers \cup Cells
  BY <1>2 DEF OpForm
<1>4. /\ regs \in [Registers -> Word] /\ memory \in [code.bss \cup Stack -> Word] /\ flags \in {-1, 0, 1}
  BY <1>2, LoadedIs
<1>5. top \in Word
  BY <1>4, StackIs
<1>6. v \in Word
  <2>1. ASSUME o[2] \in Cells PROVE Effective(o[2]) \in code.bss \cup Stack
    <3>1. 2 \in 2 .. Len(o)
      BY <1>3
    <3> QED  BY <1>1, <2>1, <3>1, OperandThere
  <2>2. o[2] \in Regs \cup Numbers \cup Statics \cup Cells
    BY <1>3
  <2> QED  BY <1>4, <2>1, <2>2, FetchWord
<1> HIDE DEF top, v
<1>7. r \in [Registers -> Word] /\ m \in [code.bss \cup Stack -> Word]
  BY <1>4, <1>5, <1>6
<1> HIDE DEF r, m
<1>8. "ret" \notin ops /\ flags' \in {-1, 0, 1}
  BY <1>1, <1>4
<1> HIDE DEF ops
<1> QED  BY <1>1, <1>7, <1>8, GoesKeeps

LEMMA PopKeeps == ASSUME MInv, PopStep PROVE MInv'
<1> DEFINE ops == {"pop"}
           to == Instruction[2]
           v == memory[regs["rsp"]]
           up == [regs EXCEPT !["rsp"] = Wrap(@ + WordSize)]
           r == IF to[1] = "reg" THEN [up EXCEPT ![to[2]] = v] ELSE up
           m == IF to[1] = "reg" THEN memory ELSE [memory EXCEPT ![Effective(to)] = v]
<1>1. Is(ops) /\ Valid /\ Goes(r, m) /\ Inner /\ flags' = flags
  BY DEF PopStep
<1>2. status = "running" /\ OpForm(FunctionNames(source), Instruction) /\ Instruction[1] = "pop"
  BY <1>1, AtInstruction
<1>3. to \in Regs \cup Cells
  BY <1>2 DEF OpForm
<1>4. /\ regs \in [Registers -> Word] /\ memory \in [code.bss \cup Stack -> Word] /\ flags \in {-1, 0, 1}
  BY <1>2, LoadedIs
<1>5. v \in Word
  <2>1. regs["rsp"] \in Implicit
    <3>1. Is({"pop", "ret"}) /\ ~Is({"push", "call"})
      BY <1>1, <1>2 DEF Is
    <3> QED  BY <3>1 DEF Implicit
  <2>2. regs["rsp"] \in DOMAIN memory
    BY <1>1, <2>1 DEF Valid
  <2> QED  BY <1>4, <2>2
<1>6. up \in [Registers -> Word]
  <2>1. Wrap(regs["rsp"] + WordSize) \in Word
    BY <1>4, StackIs
  <2> QED  BY <1>4, <2>1
<1>7. to[1] = "reg" => to[2] \in Registers
  BY <1>3, OperandForms
<1> HIDE DEF v, up, to
<1>8. r \in [Registers -> Word] /\ m \in [code.bss \cup Stack -> Word]
  BY <1>4, <1>5, <1>6, <1>7
<1> HIDE DEF r, m
<1>9. "ret" \notin ops /\ flags' \in {-1, 0, 1}
  BY <1>1, <1>4
<1> HIDE DEF ops
<1> QED  BY <1>1, <1>8, <1>9, GoesKeeps

LEMMA MovKeeps == ASSUME MInv, MovStep PROVE MInv'
<1> DEFINE ops == {"mov"}
           to == Instruction[2]
           v == Fetch(Instruction[3])
           r == IF to[1] = "reg" THEN [regs EXCEPT ![to[2]] = v] ELSE regs
           m == IF to[1] = "reg" THEN memory ELSE [memory EXCEPT ![Effective(to)] = v]
<1>1. Is(ops) /\ Goes(r, m) /\ Inner /\ flags' = flags
  BY DEF MovStep
<1>2. status = "running" /\ OpForm(FunctionNames(source), Instruction) /\ Instruction[1] = "mov"
  BY <1>1, AtInstruction
<1>3. to \in Regs \cup Cells /\ Instruction[3] \in Regs \cup Numbers \cup Statics
  BY <1>2 DEF OpForm
<1>4. /\ regs \in [Registers -> Word] /\ memory \in [code.bss \cup Stack -> Word] /\ flags \in {-1, 0, 1}
  BY <1>2, LoadedIs
<1>5. v \in Word
  <2>1. Instruction[3] \notin Cells /\ Instruction[3] \in Regs \cup Numbers \cup Statics \cup Cells
    BY <1>3, OperandForms
  <2> QED  BY <1>4, <2>1, FetchWord
<1>6. to[1] = "reg" => to[2] \in Registers
  BY <1>3, OperandForms
<1> HIDE DEF v, to
<1>7. r \in [Registers -> Word] /\ m \in [code.bss \cup Stack -> Word]
  BY <1>4, <1>5, <1>6
<1> HIDE DEF r, m
<1>8. "ret" \notin ops /\ flags' \in {-1, 0, 1}
  BY <1>1, <1>4
<1> HIDE DEF ops
<1> QED  BY <1>1, <1>7, <1>8, GoesKeeps

\* An instruction that gives a word to one register.
LEMMA SetsRegister ==
    ASSUME MInv, NEW ops, Is(ops), "ret" \notin ops, Inner, flags' = flags,
           NEW r, r \in Registers, NEW v \in Word, Goes([regs EXCEPT ![r] = v], memory)
    PROVE  MInv'
<1> DEFINE q == [regs EXCEPT ![r] = v]
<1>1. status = "running"
  BY DEF Is
<1>2. /\ regs \in [Registers -> Word] /\ memory \in [code.bss \cup Stack -> Word] /\ flags \in {-1, 0, 1}
  BY <1>1, LoadedIs
<1>3. q \in [Registers -> Word] /\ flags' \in {-1, 0, 1}
  BY <1>2
<1> HIDE DEF q
<1>4. Goes(q, memory)
  BY DEF q
<1> QED  BY <1>2, <1>3, <1>4, GoesKeeps

LEMMA LeaKeeps == ASSUME MInv, LeaStep PROVE MInv'
<1> DEFINE r == Instruction[2][2]
           v == Effective(Instruction[3])
<1>1. Is({"lea"}) /\ Goes([regs EXCEPT ![r] = v], memory) /\ Inner /\ flags' = flags
  BY DEF LeaStep
<1>2. status = "running" /\ OpForm(FunctionNames(source), Instruction) /\ Instruction[1] = "lea"
  BY <1>1, AtInstruction
<1>3. Instruction[2] \in Regs /\ Instruction[3] \in Cells \cup {Element}
  BY <1>2 DEF OpForm
<1>4. regs \in [Registers -> Word]
  BY <1>2, LoadedIs
<1>5. r \in Registers /\ v \in Word
  BY <1>3, <1>4, OperandForms, EffectiveWord
<1> HIDE DEF r, v
<1>6. "ret" \notin {"lea"}
  OBVIOUS
<1> QED  BY <1>1, <1>5, <1>6, SetsRegister

LEMMA ComputeKeeps == ASSUME MInv, ComputeStep PROVE MInv'
<1> DEFINE ops == {"add", "sub", "imul"}
           op == Instruction[1]
           r == Instruction[2][2]
           v == Fetch(Instruction[3])
           result == CASE op = "add" -> regs[r] + v
                       [] op = "sub" -> regs[r] - v
                       [] op = "imul" -> regs[r] * v
           w == Wrap(result)
<1>1. Is(ops) /\ Goes([regs EXCEPT ![r] = w], memory) /\ Inner /\ flags' = flags
  BY DEF ComputeStep
<1>2. status = "running" /\ OpForm(FunctionNames(source), Instruction) /\ op \in ops
  BY <1>1, AtInstruction
<1>3. Instruction[2] \in Regs /\ Instruction[3] \in Regs \cup Numbers
  BY <1>2 DEF OpForm
<1>4. regs \in [Registers -> Word] /\ memory \in [code.bss \cup Stack -> Word]
  BY <1>2, LoadedIs
<1>5. r \in Registers /\ v \in Word
  <2>1. r \in Registers
    BY <1>3, OperandForms
  <2>2. Instruction[3] \in Regs \cup Numbers \cup Statics \cup Cells /\ Instruction[3] \notin Cells
    BY <1>3, OperandForms
  <2>3. v \in Word
    BY <1>4, <2>2, FetchWord
  <2> QED  BY <2>1, <2>3
<1> HIDE DEF r, v
<1>6. regs[r] \in Int /\ v \in Int
  BY <1>4, <1>5, WordsAre
<1>7. result \in Int
  <2> DEFINE u == regs[r]
  <2>1. u \in Int /\ v \in Int
    BY <1>6
  <2> HIDE DEF u
  <2>2. u + v \in Int /\ u - v \in Int /\ u * v \in Int
    BY <2>1
  <2> HIDE DEF op
  <2> QED  BY <1>2, <2>2 DEF u
<1> HIDE DEF result
<1>8. w \in Word
  BY <1>7, Wrapped
<1> HIDE DEF w
<1>9. "ret" \notin ops
  OBVIOUS
<1> HIDE DEF ops
<1> QED  BY <1>1, <1>5, <1>8, <1>9, SetsRegister

LEMMA NegKeeps == ASSUME MInv, NegStep PROVE MInv'
<1> DEFINE r == Instruction[2][2]
           w == Wrap(-regs[r])
<1>1. Is({"neg"}) /\ Goes([regs EXCEPT ![r] = Wrap(-@)], memory) /\ Inner /\ flags' = flags
  BY DEF NegStep
<1>2. status = "running" /\ OpForm(FunctionNames(source), Instruction) /\ Instruction[1] = "neg"
  BY <1>1, AtInstruction
<1>3. Instruction[2] \in Regs
  BY <1>2 DEF OpForm
<1>4. regs \in [Registers -> Word]
  BY <1>2, LoadedIs
<1>5. r \in Registers
  BY <1>3, OperandForms
<1> HIDE DEF r
<1>6. w \in Word
  <2>1. regs[r] \in Int
    BY <1>4, <1>5, WordsAre
  <2>2. -regs[r] \in Int
    BY <2>1
  <2> QED  BY <2>2, Wrapped
<1>7. [regs EXCEPT ![r] = Wrap(-@)] = [regs EXCEPT ![r] = w]
  OBVIOUS
<1> HIDE DEF w
<1>8. "ret" \notin {"neg"}
  OBVIOUS
<1> QED  BY <1>1, <1>5, <1>6, <1>7, <1>8, SetsRegister

LEMMA CqoKeeps == ASSUME MInv, CqoStep PROVE MInv'
<1> DEFINE w == IF regs["rax"] < 0 THEN -1 ELSE 0
<1>1. Is({"cqo"}) /\ Goes([regs EXCEPT !["rdx"] = w], memory) /\ Inner /\ flags' = flags
  BY DEF CqoStep
<1>2. w \in Word
  BY WordsAre
<1> HIDE DEF w
<1>3. "ret" \notin {"cqo"}
  OBVIOUS
<1> QED  BY <1>1, <1>2, <1>3, RegistersAre, SetsRegister

LEMMA SeteKeeps == ASSUME MInv, SeteStep PROVE MInv'
<1> DEFINE a == regs["rax"]
           w == Wrap(a - (a % 256) + Truth(flags = 0))
<1>1. /\ Is({"sete"}) /\ Inner /\ flags' = flags
      /\ Goes([regs EXCEPT !["rax"] = Wrap(@ - (@ % 256) + Truth(flags = 0))], memory)
  BY DEF SeteStep
<1>2. [regs EXCEPT !["rax"] = Wrap(@ - (@ % 256) + Truth(flags = 0))] = [regs EXCEPT !["rax"] = w]
  OBVIOUS
<1>3. a \in Int
  BY <1>1, LoadedIs, StackIs, WordsAre DEF Is
<1> HIDE DEF a
<1>4. w \in Word
  <2>1. Truth(flags = 0) \in Int
    BY DEF Truth
  <2> DEFINE b == Truth(flags = 0)
  <2> HIDE DEF b
  <2>2. a - (a % 256) + b \in Int
    BY <1>3, <2>1 DEF b
  <2> QED  BY <2>2, Wrapped DEF b
<1> HIDE DEF w
<1>5. "ret" \notin {"sete"}
  OBVIOUS
<1> QED  BY <1>1, <1>2, <1>4, <1>5, RegistersAre, SetsRegister

LEMMA MovzxKeeps == ASSUME MInv, MovzxStep PROVE MInv'
<1> DEFINE a == regs["rax"]
           w == a % 256
<1>1. /\ Is({"movzx"}) /\ Inner /\ flags' = flags
      /\ Goes([regs EXCEPT !["rax"] = @ % 256], memory)
  BY DEF MovzxStep
<1>2. [regs EXCEPT !["rax"] = @ % 256] = [regs EXCEPT !["rax"] = w]
  OBVIOUS
<1>3. a \in Int
  BY <1>1, LoadedIs, StackIs, WordsAre DEF Is
<1> HIDE DEF a
<1>4. w \in Word
  <2>1. w \in 0 .. 255
    BY <1>3, ModuloIn
  <2> HIDE DEF w
  <2> QED  BY <2>1, WordsAre
<1> HIDE DEF w
<1>5. "ret" \notin {"movzx"}
  OBVIOUS
<1> QED  BY <1>1, <1>2, <1>4, <1>5, RegistersAre, SetsRegister

\* The quotient is a word when the division is no fault, the remainder always.
LEMMA IdivKeeps == ASSUME MInv, IdivStep PROVE MInv'
<1> DEFINE ops == {"idiv"}
           d == Fetch(Instruction[2])
           quo == Quotient(Dividend, d)
           rem == Remainder(Dividend, d)
           r == [regs EXCEPT !["rax"] = quo, !["rdx"] = rem]
<1>1. Is(ops) /\ Divides(d) /\ Goes(r, memory) /\ Inner /\ flags' = flags
  BY DEF IdivStep
<1>2. status = "running" /\ OpForm(FunctionNames(source), Instruction) /\ Instruction[1] = "idiv"
  BY <1>1, AtInstruction
<1>3. Instruction[2] \in Regs
  BY <1>2 DEF OpForm
<1>4. /\ regs \in [Registers -> Word] /\ memory \in [code.bss \cup Stack -> Word] /\ flags \in {-1, 0, 1}
  BY <1>2, LoadedIs
<1>5. d \in Word
  <2>1. Instruction[2] \in Regs \cup Numbers \cup Statics \cup Cells /\ Instruction[2] \notin Cells
    BY <1>3, OperandForms
  <2> QED  BY <1>4, <2>1, FetchWord
<1>6. Dividend \in Int
  <2> DEFINE words == 2 * (WordMax + 1)
             a == regs["rax"]
             b == regs["rdx"]
  <2>1. words \in Nat \ {0} /\ a \in Int /\ b \in Int
    BY <1>4, StackIs, WordsAre, WordMaxAssumption
  <2>2. Dividend = b * words + (a % words)
    BY DEF Dividend
  <2> HIDE DEF words, a, b
  <2>3. a % words \in Int
    BY <2>1, ModuloIn
  <2>4. b * words + (a % words) \in Int
    BY <2>1, <2>3
  <2> QED  BY <2>2, <2>4
<1> HIDE DEF d
<1>7. quo \in Word /\ rem \in Word
  BY <1>1, <1>5, <1>6, RemainderWord DEF Divides
<1> HIDE DEF quo, rem
<1>8. r \in [Registers -> Word] /\ flags' \in {-1, 0, 1} /\ "ret" \notin ops
  BY <1>1, <1>4, <1>7
<1> HIDE DEF r, ops
<1> QED  BY <1>1, <1>4, <1>8, GoesKeeps

LEMMA CompareKeeps == ASSUME MInv, CompareStep PROVE MInv'
<1>1. /\ Is({"cmp"}) /\ Goes(regs, memory) /\ Inner
      /\ flags' \in {-1, 0, 1}
  BY DEF CompareStep
<1>2. regs \in [Registers -> Word] /\ memory \in [code.bss \cup Stack -> Word]
  BY <1>1, LoadedIs DEF Is
<1>3. "ret" \notin {"cmp"}
  OBVIOUS
<1> QED  BY <1>1, <1>2, <1>3, GoesKeeps

LEMMA LabelKeeps == ASSUME MInv, LabelStep PROVE MInv'
<1>1. Is({"label"}) /\ Goes(regs, memory) /\ Inner /\ flags' = flags
  BY DEF LabelStep
<1>2. /\ regs \in [Registers -> Word] /\ memory \in [code.bss \cup Stack -> Word] /\ flags \in {-1, 0, 1}
  BY <1>1, LoadedIs DEF Is
<1>3. "ret" \notin {"label"}
  OBVIOUS
<1> QED  BY <1>1, <1>2, <1>3, GoesKeeps
-----------------------------------------------------------------------------
(* Jumps, calls, returns                                                   *)

\* The place of a label is that of an instruction.
LEMMA PlaceIs ==
    ASSUME NEW text, NEW l \in LabelSet(text)
    PROVE  l \in DOMAIN Places(text) /\ Places(text)[l] \in DOMAIN text
<1>1. PICK i \in Labels(text) : text[i][2] = l
  BY DEF LabelSet
<1>2. (CHOOSE j \in Labels(text) : text[j][2] = l) \in Labels(text)
  BY <1>1
<1>3. DOMAIN Places(text) = LabelSet(text)
  BY DEF Places, LabelSet
<1>4. Places(text)[l] = CHOOSE j \in Labels(text) : text[j][2] = l
  BY DEF Places, LabelSet
<1>5. Labels(text) \subseteq DOMAIN text
  BY DEF Labels
<1> QED  BY <1>2, <1>3, <1>4, <1>5

LEMMA JumpKeeps == ASSUME MInv, JumpStep PROVE MInv'
<1> DEFINE ops == {"jmp", "je", "jne", "jl", "jle", "jg", "jge"}
<1>1. /\ Is(ops) /\ Inner /\ regs' = regs /\ flags' = flags /\ memory' = memory
      /\ rip' = code.place[Instruction[2]] \/ rip' = rip + 1
  BY DEF JumpStep
<1>2. status = "running" /\ rip + 1 \in DOMAIN code.text /\ Instruction[1] \in Jumps
  <2>1. "ret" \notin ops /\ ops = Jumps
    BY DEF Jumps
  <2> HIDE DEF ops
  <2> QED  BY <1>1, <2>1, AtInstruction
<1>3. /\ regs \in [Registers -> Word] /\ memory \in [code.bss \cup Stack -> Word] /\ flags \in {-1, 0, 1}
      /\ ProgText(source, code.text) /\ code.place = Places(code.text) /\ rip \in DOMAIN code.text
  BY <1>2, LoadedIs
<1>4. Instruction[2] \in LabelSet(code.text)
  <2>1. rip \in JumpsOf(code.text) /\ Instruction = code.text[rip]
    BY <1>2, <1>3 DEF JumpsOf, Instruction
  <2>2. Instruction[2] \in JumpSet(code.text)
    BY <2>1 DEF JumpSet
  <2> QED  BY <1>3, <2>2 DEF ProgText
<1>5. code.place[Instruction[2]] \in DOMAIN code.text
  BY <1>3, <1>4, PlaceIs
<1>6. rip' \in DOMAIN code.text
  BY <1>1, <1>2, <1>5
<1> QED  BY <1>1, <1>2, <1>3, <1>6, InnerKeeps

LEMMA CallKeeps == ASSUME MInv, CallStep PROVE MInv'
<1> DEFINE top == Wrap(regs["rsp"] - WordSize)
           frame == [back |-> rip + 1, rsp |-> regs["rsp"], rbp |-> regs["rbp"]]
<1>1. /\ Is({"call"}) /\ Instruction[2] \in DOMAIN code.place
      /\ regs' = [regs EXCEPT !["rsp"] = top] /\ memory' = [memory EXCEPT ![top] = rip + 1]
      /\ rip' = code.place[Instruction[2]] /\ callstack' = Append(callstack, frame)
      /\ Stays /\ consumed' = consumed /\ stdout' = stdout /\ flags' = flags /\ status' = status
  BY DEF CallStep, Silent
<1>2. status = "running" /\ rip + 1 \in DOMAIN code.text /\ rip + 1 \in Word
  <2>1. "ret" \notin {"call"}
    OBVIOUS
  <2> QED  BY <1>1, <2>1, AtInstruction
<1>3. /\ regs \in [Registers -> Word] /\ memory \in [code.bss \cup Stack -> Word] /\ flags \in {-1, 0, 1}
      /\ ProgText(source, code.text) /\ code.place = Places(code.text)
      /\ consumed \in 0 .. Len(stdin) /\ stdout \in Seq(Outputs) /\ callstack \in Seq(Frames)
  BY <1>2, LoadedIs
<1>4. top \in Word /\ regs["rsp"] \in Word /\ regs["rbp"] \in Word
  BY <1>3, StackIs
<1> HIDE DEF top
<1>5. regs' \in [Registers -> Word] /\ memory' \in [code.bss \cup Stack -> Word]
  <2>1. [regs EXCEPT !["rsp"] = top] \in [Registers -> Word]
    BY <1>3, <1>4
  <2>2. [memory EXCEPT ![top] = rip + 1] \in [code.bss \cup Stack -> Word]
    BY <1>2, <1>3
  <2> QED  BY <1>1, <2>1, <2>2
<1>6. rip' \in DOMAIN code.text
  <2>1. Instruction[2] \in LabelSet(code.text)
    BY <1>1, <1>3 DEF Places, LabelSet
  <2> QED  BY <1>1, <1>3, <2>1, PlaceIs
<1>7. callstack' \in Seq(Frames)
  <2>1. frame \in Frames
    BY <1>2, <1>4 DEF Frames
  <2> HIDE DEF frame
  <2> QED  BY <1>1, <1>3, <2>1
<1> QED  BY <1>1, <1>2, <1>3, <1>5, <1>6, <1>7, StepKeeps

LEMMA RetKeeps == ASSUME MInv, RetStep PROVE MInv'
<1>1. /\ Is({"ret"}) /\ Valid
      /\ regs' = [regs EXCEPT !["rsp"] = Wrap(@ + WordSize)]
      /\ rip' = memory[regs["rsp"]]
      /\ callstack' = IF callstack = <<>> THEN callstack ELSE SubSeq(callstack, 1, Len(callstack) - 1)
      /\ Stays /\ consumed' = consumed /\ stdout' = stdout
      /\ flags' = flags /\ memory' = memory /\ status' = status
  BY DEF RetStep, Silent
<1>2. status = "running"
  BY <1>1 DEF Is
<1>3. /\ regs \in [Registers -> Word] /\ memory \in [code.bss \cup Stack -> Word] /\ flags \in {-1, 0, 1}
      /\ consumed \in 0 .. Len(stdin) /\ stdout \in Seq(Outputs) /\ callstack \in Seq(Frames)
  BY <1>2, LoadedIs
<1>4. regs' \in [Registers -> Word]
  <2>1. Wrap(regs["rsp"] + WordSize) \in Word
    BY <1>3, StackIs
  <2> QED  BY <1>1, <1>3, <2>1
<1>5. rip' \in DOMAIN code.text
  BY <1>1 DEF Valid
<1>6. callstack' \in Seq(Frames)
  <2>1. CASE callstack = <<>>
    BY <1>1, <1>3, <2>1
  <2>2. CASE callstack # <<>>
    <3>1. Len(callstack) - 1 \in 0 .. Len(callstack)
      BY <1>3, <2>2
    <3>2. SubSeq(callstack, 1, Len(callstack) - 1) \in Seq(Frames)
      BY <1>3, <3>1
    <3> QED  BY <1>1, <2>2, <3>2
  <2> QED  BY <2>1, <2>2
<1> QED  BY <1>1, <1>2, <1>3, <1>4, <1>5, <1>6, StepKeeps

\* A function without a place is one of builtins.asm.
LEMMA BuiltinCall ==
    ASSUME MInv, Is({"call"}), Instruction[2] \notin DOMAIN code.place
    PROVE  Instruction[2][1] \in {"putchar", "putint", "getchar", "getint"}
<1> DEFINE l == Instruction[2]
<1>1. status = "running" /\ OpForm(FunctionNames(source), Instruction) /\ Instruction[1] = "call"
  BY AtInstruction
<1>2. ProgText(source, code.text) /\ code.place = Places(code.text)
  BY <1>1, LoadedIs
<1>3. l \in Callees(FunctionNames(source))
  BY <1>1 DEF OpForm
<1> HIDE DEF l
<1>4. PICK x \in FunctionNames(source) : l = FunctionLabel(x)
  BY <1>3 DEF Callees
<1>5. l \notin LabelSet(code.text)
  BY <1>2, PlaceIs DEF l
<1>6. x \notin DefinedNames(source)
  BY <1>2, <1>4, <1>5 DEF ProgText
<1>7. x \in BuiltinNames
  BY <1>6 DEF FunctionNames
<1>8. x \in {"putchar", "putint", "getchar", "getint"}
  <2>1. PICK i \in DOMAIN Builtins : x = Builtins[i].ident
    BY <1>7 DEF BuiltinNames
  <2>2. i = 1 \/ i = 2 \/ i = 3 \/ i = 4
    BY DEF Builtins
  <2>3. /\ Builtins[1].ident = "putchar" /\ Builtins[2].ident = "putint"
        /\ Builtins[3].ident = "getchar" /\ Builtins[4].ident = "getint"
    BY DEF Builtins
  <2> QED  BY <2>1, <2>2, <2>3
<1>9. l[1] = x
  BY <1>4, FunctionLabelIs
<1> QED  BY <1>8, <1>9 DEF l

LEMMA BuiltinKeeps == ASSUME MInv, BuiltinStep PROVE MInv'
<1> DEFINE name == Instruction[2][1]
           gets == name \in {"getint", "getchar"}
           answer == IF ~gets THEN garbage
                     ELSE IF consumed < Len(stdin) THEN stdin[consumed + 1] ELSE 0
           low == regs["rdi"] % 256
           word == regs["rdi"]
           r == [q \in Registers |-> IF q = "rax" THEN answer
                                     ELSE IF q \in {"rsp", "rbp", "r8", "r9"} THEN regs[q] ELSE garbage]
           m == [a \in DOMAIN memory |-> IF a \in Stack /\ a < regs["rsp"] THEN garbage ELSE memory[a]]
<1>1. /\ Is({"call"}) /\ Instruction[2] \notin DOMAIN code.place
      /\ stdout' = CASE name = "putint" -> Append(stdout, <<name, word>>)
                     [] name = "putchar" -> Append(stdout, <<name, low>>)
                     [] gets -> stdout
      /\ consumed' = IF gets /\ consumed < Len(stdin) THEN consumed + 1 ELSE consumed
      /\ regs' = r /\ memory' = m /\ rip' = rip + 1
      /\ Stays /\ flags' = flags /\ status' = status /\ callstack' = callstack
  BY DEF BuiltinStep
<1>2. status = "running" /\ rip + 1 \in DOMAIN code.text
  <2>1. "ret" \notin {"call"}
    OBVIOUS
  <2> QED  BY <1>1, <2>1, AtInstruction
<1>3. /\ regs \in [Registers -> Word] /\ memory \in [code.bss \cup Stack -> Word] /\ flags \in {-1, 0, 1}
      /\ consumed \in 0 .. Len(stdin) /\ stdout \in Seq(Outputs) /\ callstack \in Seq(Frames)
      /\ stdin \in Seq(Word) /\ garbage \in Word
  BY <1>2, LoadedIs
<1>4. name \in {"putchar", "putint", "getchar", "getint"}
  BY <1>1, BuiltinCall
<1>5. word \in Word /\ low \in Word
  <2>1. word \in Word
    BY <1>3, RegistersAre
  <2>2. word \in Int
    BY <2>1, WordsAre
  <2> HIDE DEF word
  <2>3. word % 256 \in 0 .. 255
    BY <2>2, ModuloIn
  <2>4. word % 256 \in Word
    BY <2>3, WordsAre
  <2> QED  BY <2>1, <2>4 DEF word
<1> HIDE DEF name, word, low
<1>6. stdout' \in Seq(Outputs)
  <2>1. CASE name = "putint"
    <3> DEFINE o == <<name, word>>
    <3>1. o \in Outputs
      BY <1>5, <2>1 DEF Outputs
    <3>2. stdout' = Append(stdout, o)
      BY <1>1, <2>1
    <3> HIDE DEF o
    <3> QED  BY <1>3, <3>1, <3>2
  <2>2. CASE name = "putchar"
    <3> DEFINE o == <<name, low>>
    <3>1. o \in Outputs
      BY <1>5, <2>2 DEF Outputs
    <3>2. stdout' = Append(stdout, o)
      BY <1>1, <2>2
    <3> HIDE DEF o
    <3> QED  BY <1>3, <3>1, <3>2
  <2>3. CASE gets
    <3>1. stdout' = stdout
      BY <1>1, <2>3
    <3> QED  BY <1>3, <3>1
  <2> QED  BY <1>4, <2>1, <2>2, <2>3
<1>7. consumed' \in 0 .. Len(stdin)
  <2>1. Len(stdin) \in Nat
    BY <1>3
  <2> QED  BY <1>1, <1>3, <2>1
<1>8. answer \in Word
  <2>1. 0 \in Word
    BY WordsAre
  <2>2. ASSUME consumed < Len(stdin) PROVE stdin[consumed + 1] \in Word
    <3>1. consumed + 1 \in 1 .. Len(stdin)
      BY <1>3, <2>2
    <3> QED  BY <1>3, <3>1
  <2> QED  BY <1>3, <2>1, <2>2
<1> HIDE DEF answer
<1>9. r \in [Registers -> Word]
  BY <1>3, <1>8
<1>10. m \in [code.bss \cup Stack -> Word]
  BY <1>3
<1> HIDE DEF r, m
<1> QED  BY <1>1, <1>2, <1>3, <1>6, <1>7, <1>9, <1>10, StepKeeps
-----------------------------------------------------------------------------
(* The specification                                                       *)

LEMMA InitM == ASSUME Init PROVE MInv
<1>1. status = "source" /\ ~Loaded /\ TypeOK
  BY DEF Init, Loaded, TypeOK
<1>2. regs \in [Registers -> Word]
  <2>1. StackTop + WordSize \in Word /\ garbage \in Word
    BY MachineAssumption DEF Init
  <2> DEFINE w == StackTop + WordSize
  <2> HIDE DEF w
  <2>2. regs = [r \in Registers |-> IF r = "rsp" THEN w ELSE garbage]
    BY DEF Init, w
  <2> QED  BY <2>1, <2>2 DEF w
<1> QED  BY <1>1, <1>2 DEF Init, MInv

LEMMA LoadKeeps == ASSUME MInv, Load PROVE MInv'
<1> DEFINE c == Prog(source)
           s == Bss(c.bss)
<1>1. /\ code' = [text |-> c.text, place |-> Places(c.text), bss |-> s,
                  globals |-> c.globals, frame |-> c.frame]
      /\ memory' = [a \in s \cup Stack |-> IF a \in Stack THEN garbage ELSE 0]
      /\ status = "source" /\ status' = "running" /\ source' = source /\ stdin' = stdin
      /\ garbage' = garbage /\ consumed' = consumed /\ stdout' = stdout /\ rip' = rip /\ regs' = regs
      /\ flags' = flags /\ callstack' = callstack
  BY DEF Load, Link
<1> HIDE DEF s
<1>2. code'.text = Prog(source).text /\ code'.place = Places(code'.text) /\ code'.bss = s
  BY <1>1
<1>3. /\ source \in Programs /\ stdin \in Inputs /\ garbage \in Fills
      /\ regs \in [Registers -> Word]
      /\ consumed = 0 /\ stdout = <<>> /\ rip = 1 /\ flags = 0 /\ callstack = <<>>
  BY <1>1 DEF MInv, Loaded
<1>4. stdin \in Seq(Word) /\ garbage \in Word /\ 0 \in Word
  BY <1>3, MachineAssumption, WordsAre
<1>5. rip' \in DOMAIN code'.text
  <2> DEFINE text == Prog(source).text
  <2>1. ProgText(source, text)
    BY <1>3, ProgramText
  <2> HIDE DEF text
  <2>2. text \in Seq(Ops(FunctionNames(source))) /\ text # <<>>
    BY <2>1 DEF ProgText
  <2>3. 1 \in DOMAIN text
    BY <2>2
  <2> QED  BY <1>1, <1>2, <1>3, <2>3 DEF text
<1> HIDE DEF c
<1>6. memory' \in [code'.bss \cup Stack -> Word]
  <2>1. memory' \in [s \cup Stack -> Word]
    BY <1>1, <1>4
  <2> QED  BY <1>2, <2>1
<1>7. consumed' \in 0 .. Len(stdin')
  <2>1. Len(stdin) \in Nat
    BY <1>4
  <2> QED  BY <1>1, <1>3, <2>1
<1>8. /\ stdout' \in Seq({"putint", "putchar"} \X Word)
      /\ callstack' \in Seq([back : DOMAIN code'.text, rsp : Word, rbp : Word])
  BY <1>1, <1>3
<1>9. TypeOK'
  BY <1>1, <1>3, <1>5, <1>6, <1>7, <1>8 DEF TypeOK
<1>10. Loaded'
  BY <1>1 DEF Loaded
<1> QED  BY <1>1, <1>2, <1>3, <1>9, <1>10 DEF MInv

LEMMA StepsKeep == ASSUME MInv, Step PROVE MInv'
<1>1. CASE PushStep
  BY <1>1, PushKeeps
<1>2. CASE PopStep
  BY <1>2, PopKeeps
<1>3. CASE MovStep
  BY <1>3, MovKeeps
<1>4. CASE LeaStep
  BY <1>4, LeaKeeps
<1>5. CASE ComputeStep
  BY <1>5, ComputeKeeps
<1>6. CASE NegStep
  BY <1>6, NegKeeps
<1>7. CASE CqoStep
  BY <1>7, CqoKeeps
<1>8. CASE IdivStep
  BY <1>8, IdivKeeps
<1>9. CASE DivisionFault
  <2>1. status = "running" /\ status' = "fault" /\ Silent /\ UNCHANGED <<rip, regs, flags, memory, callstack>>
    BY <1>9 DEF DivisionFault, Is
  <2> QED  BY <2>1, StopKeeps
<1>10. CASE CompareStep
  BY <1>10, CompareKeeps
<1>11. CASE SeteStep
  BY <1>11, SeteKeeps
<1>12. CASE MovzxStep
  BY <1>12, MovzxKeeps
<1>13. CASE JumpStep
  BY <1>13, JumpKeeps
<1>14. CASE LabelStep
  BY <1>14, LabelKeeps
<1>15. CASE CallStep
  BY <1>15, CallKeeps
<1>16. CASE RetStep
  BY <1>16, RetKeeps
<1>17. CASE BuiltinStep
  BY <1>17, BuiltinKeeps
<1>18. CASE ExitStep
  <2>1. status = "running" /\ status' = "exited" /\ Silent /\ UNCHANGED <<rip, regs, flags, memory, callstack>>
    BY <1>18 DEF ExitStep, Is
  <2> QED  BY <2>1, StopKeeps
<1>19. CASE Crash
  <2>1. status = "running" /\ status' = "crashed" /\ Silent /\ UNCHANGED <<rip, regs, flags, memory, callstack>>
    BY <1>19 DEF Crash
  <2> QED  BY <2>1, StopKeeps
<1> QED  BY <1>1, <1>2, <1>3, <1>4, <1>5, <1>6, <1>7, <1>8, <1>9, <1>10, <1>11, <1>12, <1>13, <1>14,
            <1>15, <1>16, <1>17, <1>18, <1>19 DEF Step

LEMMA StutterKeeps == ASSUME MInv, UNCHANGED vars PROVE MInv'
<1>1. /\ source' = source /\ code' = code /\ stdin' = stdin /\ garbage' = garbage
      /\ consumed' = consumed /\ stdout' = stdout /\ rip' = rip /\ regs' = regs /\ flags' = flags
      /\ memory' = memory /\ status' = status /\ callstack' = callstack
  BY DEF vars, chosen
<1> QED  BY <1>1 DEF MInv, TypeOK, Loaded

LEMMA InvariantM == Spec => []MInv
<1>1. Init => MInv
  BY InitM
<1>2. MInv /\ [Next]_vars => MInv'
  BY LoadKeeps, StepsKeep, StutterKeeps DEF Next
<1> QED  BY <1>1, <1>2, PTL DEF Spec

\* The processor only computes with words, between instructions that are there,
\* and prints and keeps on its stacks nothing else: every jump of every program
\* finds its label, every call a function, and no end of a function is fallen
\* through (codeWriter.c, treeReader.c).
THEOREM Types == Spec => []TypeOK
<1>1. MInv => TypeOK
  BY DEF MInv
<1> QED  BY <1>1, InvariantM, PTL

\* No label is defined twice in the text of any program (codeWriter.c:83, :176, :199).
THEOREM NoLabelTwice == Spec => []LabelsUnique
<1>1. MInv => LabelsUnique
  <2> SUFFICES ASSUME MInv, Loaded PROVE Unique(code.text)
    BY DEF LabelsUnique, Unique
  <2>1. source \in Programs /\ code.text = Prog(source).text
    BY DEF MInv
  <2>2. ProgText(source, code.text)
    BY <2>1, ProgramText
  <2> QED  BY <2>2 DEF ProgText
<1> QED  BY <1>1, InvariantM, PTL
=============================================================================
