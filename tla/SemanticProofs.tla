--------------------------- MODULE SemanticProofs ---------------------------
(***************************************************************************)
(* What the checks of Semantic return, for every program: whatever is      *)
(* printed is an error or a warning of a function of the program, and the  *)
(* ErrorType that comes back has the bit of each report, through every     *)
(* operator, call, branch and list on the way.                             *)
(***************************************************************************)
EXTENDS Semantic, ProgramProofs, SequenceTheorems

\* What is said of the functions of the names F.
Said(F) == (Errors \cup Warnings) \X F \X Paths

\* A result whose errors are those of its reports.
Sound(F, r) ==
    /\ r = [log |-> r.log, err |-> r.err, type |-> r.type]
    /\ r.log \in Seq(Said(F)) /\ r.err = KindsOf(r.log)

LEMMA KindsOfBoth == ASSUME NEW S, NEW a \in Seq(S), NEW b \in Seq(S)
                     PROVE  KindsOf(a \o b) = KindsOf(a) \cup KindsOf(b)
<1>1. /\ DOMAIN (a \o b) = 1 .. Len(a) + Len(b) /\ DOMAIN a = 1 .. Len(a) /\ DOMAIN b = 1 .. Len(b)
      /\ Len(a) \in Nat /\ Len(b) \in Nat
      /\ \A i \in 1 .. Len(a) + Len(b) : (a \o b)[i] = IF i <= Len(a) THEN a[i] ELSE b[i - Len(a)]
  OBVIOUS
<1>2. ASSUME NEW i \in DOMAIN (a \o b) PROVE (a \o b)[i][1] \in KindsOf(a) \cup KindsOf(b)
  <2>1. CASE i <= Len(a)
    BY <1>1, <2>1 DEF KindsOf
  <2>2. CASE ~(i <= Len(a))
    <3>1. i - Len(a) \in DOMAIN b /\ (a \o b)[i] = b[i - Len(a)]
      BY <1>1, <2>2
    <3> QED  BY <3>1 DEF KindsOf
  <2> QED  BY <2>1, <2>2
<1>3. ASSUME NEW i \in DOMAIN a PROVE a[i][1] \in KindsOf(a \o b)
  <2>1. i \in DOMAIN (a \o b) /\ (a \o b)[i] = a[i]
    BY <1>1
  <2> QED  BY <2>1 DEF KindsOf
<1>4. ASSUME NEW i \in DOMAIN b PROVE b[i][1] \in KindsOf(a \o b)
  <2>1. i + Len(a) \in DOMAIN (a \o b) /\ (a \o b)[i + Len(a)] = b[i]
    BY <1>1
  <2> QED  BY <2>1 DEF KindsOf
<1> QED  BY <1>2, <1>3, <1>4 DEF KindsOf

LEMMA FineSound == ASSUME NEW F, NEW type PROVE Sound(F, Fine(type))
<1>1. <<>> \in Seq(Said(F)) /\ DOMAIN <<>> = {}
  OBVIOUS
<1> QED  BY <1>1 DEF Fine, Sound, KindsOf

LEMMA ReportSound ==
    ASSUME NEW F, NEW f, f.func.ident \in F, NEW kind \in Errors \cup Warnings, NEW p \in Paths
    PROVE  Sound(F, Report(f, kind, p))
<1> DEFINE x == <<kind, f.func.ident, p>>
<1>1. x \in Said(F) /\ x[1] = kind
  BY DEF Said
<1>2. Report(f, kind, p) = [log |-> <<x>>, err |-> {kind}, type |-> "void"]
  BY DEF Report
<1> HIDE DEF x
<1>3. <<x>> \in Seq(Said(F)) /\ DOMAIN <<x>> = 1 .. 1 /\ <<x>>[1] = x
  BY <1>1
<1>4. KindsOf(<<x>>) = {kind}
  BY <1>1, <1>3 DEF KindsOf
<1> QED  BY <1>2, <1>3, <1>4 DEF Sound

LEMMA ThenSound == ASSUME NEW F, NEW r, NEW s, Sound(F, r), Sound(F, s)
                   PROVE  Sound(F, Then(r, s))
<1>1. r.log \in Seq(Said(F)) /\ s.log \in Seq(Said(F)) /\ r.err = KindsOf(r.log) /\ s.err = KindsOf(s.log)
  BY DEF Sound
<1>2. r.log \o s.log \in Seq(Said(F)) /\ KindsOf(r.log \o s.log) = r.err \cup s.err
  BY <1>1, KindsOfBoth
<1> QED  BY <1>2 DEF Then, Sound

LEMMA WithTypeSound == ASSUME NEW F, NEW r, Sound(F, r), NEW type
                       PROVE  Sound(F, WithType(r, type))
<1>1. /\ r = [log |-> r.log, err |-> r.err, type |-> r.type]
      /\ r.log \in Seq(Said(F)) /\ r.err = KindsOf(r.log)
  BY DEF Sound
<1>2. WithType(r, type) = [log |-> r.log, err |-> r.err, type |-> type]
  BY <1>1 DEF WithType
<1> QED  BY <1>1, <1>2 DEF Sound

LEMMA IfSound == ASSUME NEW F, NEW cond, NEW r, cond => Sound(F, r)
                 PROVE  Sound(F, If(cond, r))
  BY FineSound DEF If, Silent

\* g gives what the first 0, ..., n results of rs say.
SaidUpTo(rs, n, g) ==
    /\ g = [i \in 0 .. n |-> g[i]] /\ g[0] = Silent
    /\ \A i \in 1 .. n : g[i] = Then(g[i - 1], rs[i])

LEMMA SaidExists == ASSUME NEW rs, NEW n \in Nat PROVE \E g : SaidUpTo(rs, n, g)
<1> DEFINE S == {k \in 0 .. n : \E g : SaidUpTo(rs, k, g)}
<1>1. 0 \in S
  <2>1. SaidUpTo(rs, 0, [i \in 0 .. 0 |-> Silent])
    BY DEF SaidUpTo
  <2> QED  BY <2>1
<1>2. ASSUME NEW k \in 0 .. n, k + 1 \in 0 .. n, k \in S PROVE k + 1 \in S
  <2>1. PICK g : SaidUpTo(rs, k, g)
    BY <1>2
  <2> DEFINE v == Then(g[k], rs[k + 1])
             h == [i \in 0 .. k + 1 |-> IF i = k + 1 THEN v ELSE g[i]]
  <2> HIDE DEF v
  <2>2. h = [i \in 0 .. k + 1 |-> h[i]] /\ h[k + 1] = v /\ \A i \in 0 .. k : h[i] = g[i]
    OBVIOUS
  <2> HIDE DEF h
  <2>3. h[0] = Silent
    <3>1. 0 \in 0 .. k /\ g[0] = Silent
      BY <2>1 DEF SaidUpTo
    <3> QED  BY <2>2, <3>1
  <2>4. ASSUME NEW i \in 1 .. k + 1 PROVE h[i] = Then(h[i - 1], rs[i])
    <3>1. CASE i = k + 1
      <4>1. i - 1 = k /\ k \in 0 .. k
        BY <3>1
      <4>2. h[i - 1] = g[k]
        BY <2>2, <4>1
      <4> QED  BY <2>2, <3>1, <4>2 DEF v
    <3>2. CASE i # k + 1
      <4>1. i \in 1 .. k /\ i - 1 \in 0 .. k /\ i \in 0 .. k
        BY <3>2
      <4>2. h[i] = g[i] /\ h[i - 1] = g[i - 1]
        BY <2>2, <4>1
      <4> QED  BY <2>1, <4>1, <4>2 DEF SaidUpTo
    <3> QED  BY <3>1, <3>2
  <2>5. SaidUpTo(rs, k + 1, h)
    BY <2>2, <2>3, <2>4 DEF SaidUpTo
  <2> QED  BY <1>2, <2>5
<1> HIDE DEF S
<1>3. 0 .. n \subseteq S
  BY <1>1, <1>2, Reaches
<1> QED  BY <1>3 DEF S

LEMMA ThenAllIs ==
    ASSUME NEW rs, Len(rs) \in Nat
    PROVE  \E g : /\ ThenAll(rs) = g[Len(rs)] /\ g[0] = Silent
                  /\ \A i \in 1 .. Len(rs) : g[i] = Then(g[i - 1], rs[i])
<1> DEFINE n == Len(rs)
           Rec(g) == g = [i \in 0 .. n |-> IF i = 0 THEN Silent ELSE Then(g[i - 1], rs[i])]
           v == CHOOSE g : Rec(g)
<1>1. ThenAll(rs) = v[n]
  BY DEF ThenAll
<1>2. Rec(v)
  <2>1. PICK g : SaidUpTo(rs, n, g)
    BY SaidExists
  <2>2. \A i \in 0 .. n : g[i] = IF i = 0 THEN Silent ELSE Then(g[i - 1], rs[i])
    <3> HIDE DEF n
    <3>1. \A i \in 0 .. n : i = 0 \/ i \in 1 .. n
      BY DEF n
    <3> QED  BY <2>1, <3>1 DEF SaidUpTo
  <2>3. Rec(g)
    <3>1. g = [i \in 0 .. n |-> g[i]]
      BY <2>1 DEF SaidUpTo
    <3> HIDE DEF n
    <3> QED  BY <2>2, <3>1
  <2> HIDE DEF Rec
  <2> QED  BY <2>3
<1>3. v[0] = Silent /\ \A i \in 1 .. n : v[i] = Then(v[i - 1], rs[i])
  <2> HIDE DEF v, n
  <2>1. 0 \in 0 .. n /\ \A i \in 1 .. n : i \in 0 .. n /\ i # 0
    BY DEF n
  <2> QED  BY <1>2, <2>1
<1> HIDE DEF v
<1> QED  BY <1>1, <1>3

LEMMA ThenAllSound ==
    ASSUME NEW F, NEW rs, Len(rs) \in Nat, \A i \in 1 .. Len(rs) : Sound(F, rs[i])
    PROVE  Sound(F, ThenAll(rs))
<1> DEFINE n == Len(rs)
<1>1. PICK v : /\ ThenAll(rs) = v[n] /\ v[0] = Silent
              /\ \A i \in 1 .. n : v[i] = Then(v[i - 1], rs[i])
  BY ThenAllIs
<1> DEFINE S == {k \in 0 .. n : Sound(F, v[k])}
<1>2. 0 \in S
  BY <1>1, FineSound DEF Silent
<1>3. ASSUME NEW k \in 0 .. n, k + 1 \in 0 .. n, k \in S PROVE k + 1 \in S
  <2>1. k + 1 \in 1 .. n /\ (k + 1) - 1 = k
    BY <1>3
  <2>2. v[k + 1] = Then(v[k], rs[k + 1]) /\ Sound(F, v[k]) /\ Sound(F, rs[k + 1])
    BY <1>1, <1>3, <2>1
  <2> QED  BY <1>3, <2>2, ThenSound
<1> HIDE DEF S
<1>4. 0 .. n \subseteq S
  BY <1>2, <1>3, Reaches
<1> QED  BY <1>1, <1>4 DEF S
-----------------------------------------------------------------------------
(* The checks, in a function f whose name is one of F                      *)

\* The checks of the trees of `lower' are sound.
SoundBelow(F, X, lower) == \A n \in lower, p \in Paths : Sound(F, X[n, p])

LEMMA PathsGrow == ASSUME NEW p \in Paths, NEW k \in Nat PROVE Append(p, k) \in Paths
  BY DEF Paths

LEMMA ArgumentSound ==
    ASSUME NEW F, NEW f, f.func.ident \in F, NEW E, NEW lower, SoundBelow(F, E, lower),
           NEW callee, NEW i, NEW n \in lower, NEW p \in Paths
    PROVE  Sound(F, Argument(f, E, callee, i, n, p))
<1>1. Sound(F, E[n, p])
  BY DEF SoundBelow
<1>2. \A kind \in Errors \cup Warnings : Sound(F, Report(f, kind, p))
  BY ReportSound
<1>3. "ERR_UNDECLARED_SYMBOL" \in Errors /\ "WARN_IMPLICIT_INT_TO_CHAR" \in Warnings
      /\ "ERR_MISMATCH_ARRAY_TYPE" \in Errors /\ "ERR_INVALID_ARRAY_TYPE" \in Errors
  BY DEF Errors, Warnings
<1>4. \A cond : /\ Sound(F, If(cond, Report(f, "WARN_IMPLICIT_INT_TO_CHAR", p)))
               /\ Sound(F, If(cond, Report(f, "ERR_INVALID_ARRAY_TYPE", p)))
  BY <1>2, <1>3, IfSound
<1>5. \A cond : Sound(F, Then(E[n, p], If(cond, Report(f, "WARN_IMPLICIT_INT_TO_CHAR", p))))
  BY <1>1, <1>4, ThenSound
<1>6. /\ Sound(F, Report(f, "ERR_UNDECLARED_SYMBOL", p))
      /\ Sound(F, Report(f, "ERR_MISMATCH_ARRAY_TYPE", p))
  BY <1>2, <1>3
<1> QED  BY <1>4, <1>5, <1>6 DEF Argument

LEMMA ArgumentsSound ==
    ASSUME NEW F, NEW f, f.func.ident \in F, NEW E, NEW lower, SoundBelow(F, E, lower),
           NEW callee, ParamCount(callee) \in Nat, NEW args \in Seq(lower), NEW p \in Paths
    PROVE  Sound(F, Arguments(f, E, callee, args, p))
<1> DEFINE checked == IF Len(args) < ParamCount(callee) THEN Len(args) ELSE ParamCount(callee)
           rs == [i \in 1 .. checked |-> Argument(f, E, callee, i, args[i], Append(p, i))]
<1>1. checked \in Nat /\ checked <= Len(args)
  OBVIOUS
<1> HIDE DEF checked
<1>2. Len(rs) = checked
  BY <1>1
<1>3. \A i \in 1 .. checked : Sound(F, Argument(f, E, callee, i, args[i], Append(p, i)))
  <2> SUFFICES ASSUME NEW i \in 1 .. checked
               PROVE  Sound(F, Argument(f, E, callee, i, args[i], Append(p, i)))
    OBVIOUS
  <2>1. args[i] \in lower /\ i \in Nat
    BY <1>1
  <2>2. Append(p, i) \in Paths
    BY <2>1, PathsGrow
  <2> QED  BY <2>1, <2>2, ArgumentSound
<1>4. \A i \in 1 .. Len(rs) : Sound(F, rs[i])
  BY <1>2, <1>3
<1>5. Arguments(f, E, callee, args, p) = ThenAll(rs)
  BY DEF Arguments, checked
<1> HIDE DEF rs
<1> QED  BY <1>1, <1>2, <1>4, <1>5, ThenAllSound

LEMMA FunctionCallSound ==
    ASSUME NEW F, NEW f, f.func.ident \in F, InTables(f),
           NEW E, NEW lower, SoundBelow(F, E, lower),
           NEW n, IsCallOver(AnyScope, lower, n), NEW p \in Paths
    PROVE  Sound(F, FunctionCall(f, E, n, p))
<1> DEFINE callee == f.functions[n.ident]
           args == n.child[1].child
           count == ParamCount(callee)
<1>1. args \in Seq(lower)
  BY DEF IsCallOver
<1>2. \A kind \in Errors \cup Warnings : \A q \in Paths : Sound(F, Report(f, kind, q))
  BY ReportSound
<1>3. "ERR_UNDECLARED_SYMBOL" \in Errors /\ "ERR_SEM_IS_NOT_CALLABLE" \in Errors
      /\ "ERR_INVALID_PARAM_COUNT" \in Errors /\ "WARN_USE_UNDEFINED_FUNCTION" \in Warnings
  BY DEF Errors, Warnings
<1>4. CASE ~Resolves(f, n.ident)
  BY <1>2, <1>3, <1>4 DEF FunctionCall
<1>5. CASE Resolves(f, n.ident) /\ Symbol(f, n.ident).kind # "function"
  BY <1>2, <1>3, <1>5 DEF FunctionCall
<1>6. CASE Resolves(f, n.ident) /\ Symbol(f, n.ident).kind = "function"
  <2>1. count \in Nat
    BY <1>6, SymbolIs
  <2> DEFINE a == If(~IsDefinedBeforeUse(f, callee), Report(f, "WARN_USE_UNDEFINED_FUNCTION", p))
             b == Arguments(f, E, callee, args, Append(p, 1))
             c == If(Len(args) > count, Report(f, "ERR_INVALID_PARAM_COUNT", p \o <<1, count + 1>>))
             d == If(Len(args) < count, Report(f, "ERR_INVALID_PARAM_COUNT", p))
  <2>2. Sound(F, a)
    BY <1>2, <1>3, IfSound
  <2>3. Sound(F, b)
    <3>1. Append(p, 1) \in Paths
      BY PathsGrow
    <3> QED  BY <1>1, <2>1, <3>1, ArgumentsSound
  <2>4. Sound(F, c)
    <3>1. p \o <<1, count + 1>> \in Paths
      <4>1. count + 1 \in Nat /\ 1 \in Nat
        BY <2>1
      <4> HIDE DEF count
      <4>2. <<1, count + 1>> \in Seq(Nat)
        BY <4>1
      <4> QED  BY <4>2 DEF Paths
    <3> QED  BY <1>2, <1>3, <3>1, IfSound
  <2>5. Sound(F, d)
    BY <1>2, <1>3, IfSound
  <2>6. FunctionCall(f, E, n, p) = ThenAll(<<a, b, c, d>>)
    BY <1>6 DEF FunctionCall
  <2> HIDE DEF a, b, c, d
  <2> DEFINE rs == <<a, b, c, d>>
  <2>7. Len(rs) = 4 /\ \A i \in 1 .. 4 : Sound(F, rs[i])
    BY <2>2, <2>3, <2>4, <2>5
  <2> HIDE DEF rs
  <2>8. Sound(F, ThenAll(rs))
    BY <2>7, ThenAllSound
  <2> QED  BY <2>6, <2>8 DEF rs
<1> QED  BY <1>4, <1>5, <1>6

LEMMA ArrayLRSound ==
    ASSUME NEW F, NEW f, f.func.ident \in F, NEW E, NEW lower, SoundBelow(F, E, lower),
           NEW n, n.child[1] \in lower, NEW p \in Paths
    PROVE  Sound(F, ArrayLR(f, E, n, p))
<1>1. Append(p, 1) \in Paths
  BY PathsGrow
<1>2. Sound(F, E[n.child[1], Append(p, 1)])
  BY <1>1 DEF SoundBelow
<1>3. Sound(F, Report(f, "ERR_UNDECLARED_SYMBOL", p)) /\ Sound(F, Report(f, "ERR_SUBSCRIPT_NOT_ARRAY", p))
  BY ReportSound DEF Errors
<1>4. \A t : /\ Sound(F, WithType(E[n.child[1], Append(p, 1)], t))
            /\ Sound(F, WithType(Report(f, "ERR_SUBSCRIPT_NOT_ARRAY", p), t))
  BY <1>2, <1>3, WithTypeSound
<1> QED  BY <1>3, <1>4 DEF ArrayLR

LEMMA IdentRValueSound ==
    ASSUME NEW F, NEW f, f.func.ident \in F, InTables(f),
           NEW E, NEW lower, SoundBelow(F, E, lower),
           NEW n, n.child = <<>> \/ IsCallOver(AnyScope, lower, n), NEW p \in Paths
    PROVE  Sound(F, IdentRValue(f, E, n, p))
<1>1. Sound(F, Report(f, "ERR_UNDECLARED_SYMBOL", p)) /\ Sound(F, Report(f, "ERR_NOT_AN_RVALUE", p))
  BY ReportSound DEF Errors
<1>2. \A cond : Sound(F, If(cond, Report(f, "ERR_NOT_AN_RVALUE", p)))
  BY <1>1, IfSound
<1>3. \A cond, t : Sound(F, WithType(If(cond, Report(f, "ERR_NOT_AN_RVALUE", p)), t))
  BY <1>2, WithTypeSound
<1>4. IsFunctionCallNode(n) => Sound(F, FunctionCall(f, E, n, p))
  BY FunctionCallSound DEF IsFunctionCallNode
<1>5. IsFunctionCallNode(n) => \A t : Sound(F, WithType(FunctionCall(f, E, n, p), t))
  BY <1>4, WithTypeSound
<1> QED  BY <1>1, <1>3, <1>5 DEF IdentRValue

Operators == {"AddsubU", "Not", "Addsub", "Divstar", "Eq", "Or", "And", "Order"}

LEMMA ExprOverSound ==
    ASSUME NEW F, NEW f, f.func.ident \in F, InTables(f),
           NEW E, NEW lower, SoundBelow(F, E, lower),
           NEW n \in ExpNodes(AnyScope, lower), NEW p \in Paths
    PROVE  Sound(F, ExprOver(f, E, n, p))
<1>1. IsLeaf(AnyScope, n) \/ IsCallOver(AnyScope, lower, n) \/ IsUnary(AnyScope, lower, n) \/ IsBinary(lower, n)
  BY ExpNodesAre
<1>2. CASE n.label = "Num"
  BY <1>2, FineSound DEF ExprOver
<1>3. CASE n.label = "Character"
  BY <1>3, FineSound DEF ExprOver
<1>4. CASE n.label = "Ident"
  <2>1. n.child = <<>> \/ IsCallOver(AnyScope, lower, n)
    BY <1>1, <1>4 DEF IsLeaf, IsUnary, IsBinary
  <2>2. ExprOver(f, E, n, p) = IdentRValue(f, E, n, p)
    BY <1>4 DEF ExprOver
  <2> QED  BY <2>1, <2>2, IdentRValueSound
<1>5. CASE n.label = "ArrayLR"
  <2>1. n.child[1] \in lower
    BY <1>1, <1>5 DEF IsLeaf, IsCallOver, IsUnary, IsBinary, Operators
  <2>2. ExprOver(f, E, n, p) = ArrayLR(f, E, n, p)
    BY <1>5 DEF ExprOver
  <2> QED  BY <2>1, <2>2, ArrayLRSound
<1>6. CASE n.label \in Operators
  <2>1. n.child \in Seq(lower)
    BY <1>1, <1>6 DEF IsLeaf, IsCallOver, IsUnary, IsBinary, Operators
  <2> DEFINE operands == [i \in DOMAIN n.child |-> E[n.child[i], Append(p, i)]]
             type == CastTypes([i \in DOMAIN operands |-> operands[i].type])
  <2>2. ExprOver(f, E, n, p) = WithType(ThenAll(operands), type)
    BY <1>6 DEF ExprOver, Operators
  <2>3. Len(n.child) \in Nat /\ DOMAIN n.child = 1 .. Len(n.child) /\ Len(operands) = Len(n.child)
    BY <2>1
  <2>4. \A i \in 1 .. Len(operands) : Sound(F, operands[i])
    <3> SUFFICES ASSUME NEW i \in 1 .. Len(n.child) PROVE Sound(F, E[n.child[i], Append(p, i)])
      BY <2>3
    <3>1. n.child[i] \in lower /\ i \in Nat
      BY <2>1, <2>3
    <3>2. Append(p, i) \in Paths
      BY <3>1, PathsGrow
    <3> QED  BY <3>1, <3>2 DEF SoundBelow
  <2> HIDE DEF operands, type
  <2>5. Sound(F, ThenAll(operands))
    BY <2>3, <2>4, ThenAllSound
  <2> QED  BY <2>2, <2>5, WithTypeSound
<1>7. n.label \in {"Num", "Character", "Ident", "ArrayLR"} \cup Operators
  BY <1>1 DEF IsLeaf, IsCallOver, IsUnary, IsBinary, Operators
<1> QED  BY <1>2, <1>3, <1>4, <1>5, <1>6, <1>7
-----------------------------------------------------------------------------
(* Levels                                                                  *)

\* g gives the checks of the expressions of the heights up to k.
ExprChecks(f, k, g) ==
    /\ g = [h \in 0 .. k |-> g[h]] /\ g[0] = [x \in {} |-> x]
    /\ \A h \in 1 .. k :
         g[h] = [x \in ExpsUpTo(AnyScope)[h] \X Paths |-> ExprOver(f, g[h - 1], x[1], x[2])]

LEMMA ExprChecksExist == ASSUME NEW f, NEW n \in Nat PROVE \E g : ExprChecks(f, n, g)
<1> DEFINE S == {k \in 0 .. n : \E g : ExprChecks(f, k, g)}
<1>1. 0 \in S
  <2>1. ExprChecks(f, 0, [h \in 0 .. 0 |-> [x \in {} |-> x]])
    BY DEF ExprChecks
  <2> QED  BY <2>1
<1>2. ASSUME NEW k \in 0 .. n, k + 1 \in 0 .. n, k \in S PROVE k + 1 \in S
  <2>1. PICK g : ExprChecks(f, k, g)
    BY <1>2
  <2> DEFINE v == [x \in ExpsUpTo(AnyScope)[k + 1] \X Paths |-> ExprOver(f, g[k], x[1], x[2])]
             u == [h \in 0 .. k + 1 |-> IF h = k + 1 THEN v ELSE g[h]]
  <2> HIDE DEF v
  <2>2. u = [h \in 0 .. k + 1 |-> u[h]] /\ u[k + 1] = v /\ \A h \in 0 .. k : u[h] = g[h]
    OBVIOUS
  <2> HIDE DEF u
  <2>3. u[0] = [x \in {} |-> x]
    <3>1. 0 \in 0 .. k /\ g[0] = [x \in {} |-> x]
      BY <2>1 DEF ExprChecks
    <3> QED  BY <2>2, <3>1
  <2>4. ASSUME NEW h \in 1 .. k + 1
        PROVE  u[h] = [x \in ExpsUpTo(AnyScope)[h] \X Paths |-> ExprOver(f, u[h - 1], x[1], x[2])]
    <3>1. CASE h = k + 1
      <4>1. h - 1 = k /\ k \in 0 .. k
        BY <3>1
      <4>2. u[h - 1] = g[k]
        BY <2>2, <4>1
      <4> QED  BY <2>2, <3>1, <4>2 DEF v
    <3>2. CASE h # k + 1
      <4>1. h \in 1 .. k /\ h - 1 \in 0 .. k /\ h \in 0 .. k
        BY <3>2
      <4>2. u[h] = g[h] /\ u[h - 1] = g[h - 1]
        BY <2>2, <4>1
      <4> QED  BY <2>1, <4>1, <4>2 DEF ExprChecks
    <3> QED  BY <3>1, <3>2
  <2>5. ExprChecks(f, k + 1, u)
    BY <2>2, <2>3, <2>4 DEF ExprChecks
  <2> QED  BY <1>2, <2>5
<1> HIDE DEF S
<1>3. 0 .. n \subseteq S
  BY <1>1, <1>2, Reaches
<1> QED  BY <1>3 DEF S

LEMMA ExprChecksAre ==
    ASSUME NEW f, NEW h \in 1 .. Height, NEW n \in ExpsUpTo(AnyScope)[h], NEW p \in Paths
    PROVE  ExprUpTo(f)[h][n, p] = ExprOver(f, ExprUpTo(f)[h - 1], n, p)
<1> DEFINE At(g, k) == [x \in ExpsUpTo(AnyScope)[k] \X Paths |-> ExprOver(f, g[k - 1], x[1], x[2])]
           Rec(g) == g = [k \in 0 .. Height |-> At(g, k)]
           v == CHOOSE g : Rec(g)
<1>1. ExprUpTo(f) = v
  BY DEF ExprUpTo
<1>2. Rec(v)
  <2>1. PICK g : ExprChecks(f, Height, g)
    BY HeightAssumption, ExprChecksExist
  <2>2. \A k \in 0 .. Height : g[k] = At(g, k)
    <3> SUFFICES ASSUME NEW k \in 0 .. Height PROVE g[k] = At(g, k)
      OBVIOUS
    <3>1. CASE k = 0
      <4>1. ExpsUpTo(AnyScope)[0] = {}
        BY ExpLevelsAre DEF ExpLevels
      <4>2. g[0] = [x \in {} |-> x]
        BY <2>1 DEF ExprChecks
      <4>3. [x \in {} \X Paths |-> ExprOver(f, g[0 - 1], x[1], x[2])] = [x \in {} |-> x]
        <5>1. {} \X Paths = {}
          OBVIOUS
        <5> QED  BY <5>1
      <4> QED  BY <3>1, <4>1, <4>2, <4>3
    <3>2. CASE k # 0
      <4>1. k \in 1 .. Height
        BY <3>2, HeightAssumption
      <4> QED  BY <2>1, <4>1 DEF ExprChecks
    <3> QED  BY <3>1, <3>2
  <2>3. g = [k \in 0 .. Height |-> g[k]]
    BY <2>1 DEF ExprChecks
  <2> HIDE DEF At
  <2>4. Rec(g)
    BY <2>2, <2>3
  <2> HIDE DEF Rec
  <2> QED  BY <2>4
<1> HIDE DEF v
<1>3. v[h] = At(v, h)
  <2>1. h \in 0 .. Height
    BY HeightAssumption
  <2> HIDE DEF At
  <2> QED  BY <1>2, <2>1
<1>4. At(v, h)[<<n, p>>] = ExprOver(f, v[h - 1], n, p)
  OBVIOUS
<1> HIDE DEF At
<1> QED  BY <1>1, <1>3, <1>4

\* g gives the checks of the instructions of the heights up to k.
InstrChecks(f, k, g) ==
    /\ g = [h \in 0 .. k |-> g[h]] /\ g[0] = [x \in {} |-> x]
    /\ \A h \in 1 .. k :
         g[h] = [x \in InstrsUpTo(AnyScope)[h] \X Paths |-> InstrOver(f, g[h - 1], x[1], x[2])]

LEMMA InstrChecksExist == ASSUME NEW f, NEW n \in Nat PROVE \E g : InstrChecks(f, n, g)
<1> DEFINE S == {k \in 0 .. n : \E g : InstrChecks(f, k, g)}
<1>1. 0 \in S
  <2>1. InstrChecks(f, 0, [h \in 0 .. 0 |-> [x \in {} |-> x]])
    BY DEF InstrChecks
  <2> QED  BY <2>1
<1>2. ASSUME NEW k \in 0 .. n, k + 1 \in 0 .. n, k \in S PROVE k + 1 \in S
  <2>1. PICK g : InstrChecks(f, k, g)
    BY <1>2
  <2> DEFINE v == [x \in InstrsUpTo(AnyScope)[k + 1] \X Paths |-> InstrOver(f, g[k], x[1], x[2])]
             u == [h \in 0 .. k + 1 |-> IF h = k + 1 THEN v ELSE g[h]]
  <2> HIDE DEF v
  <2>2. u = [h \in 0 .. k + 1 |-> u[h]] /\ u[k + 1] = v /\ \A h \in 0 .. k : u[h] = g[h]
    OBVIOUS
  <2> HIDE DEF u
  <2>3. u[0] = [x \in {} |-> x]
    <3>1. 0 \in 0 .. k /\ g[0] = [x \in {} |-> x]
      BY <2>1 DEF InstrChecks
    <3> QED  BY <2>2, <3>1
  <2>4. ASSUME NEW h \in 1 .. k + 1
        PROVE  u[h] = [x \in InstrsUpTo(AnyScope)[h] \X Paths |-> InstrOver(f, u[h - 1], x[1], x[2])]
    <3>1. CASE h = k + 1
      <4>1. h - 1 = k /\ k \in 0 .. k
        BY <3>1
      <4>2. u[h - 1] = g[k]
        BY <2>2, <4>1
      <4> QED  BY <2>2, <3>1, <4>2 DEF v
    <3>2. CASE h # k + 1
      <4>1. h \in 1 .. k /\ h - 1 \in 0 .. k /\ h \in 0 .. k
        BY <3>2
      <4>2. u[h] = g[h] /\ u[h - 1] = g[h - 1]
        BY <2>2, <4>1
      <4> QED  BY <2>1, <4>1, <4>2 DEF InstrChecks
    <3> QED  BY <3>1, <3>2
  <2>5. InstrChecks(f, k + 1, u)
    BY <2>2, <2>3, <2>4 DEF InstrChecks
  <2> QED  BY <1>2, <2>5
<1> HIDE DEF S
<1>3. 0 .. n \subseteq S
  BY <1>1, <1>2, Reaches
<1> QED  BY <1>3 DEF S

LEMMA InstrChecksAre ==
    ASSUME NEW f, NEW h \in 1 .. Height, NEW n \in InstrsUpTo(AnyScope)[h], NEW p \in Paths
    PROVE  InstrUpTo(f)[h][n, p] = InstrOver(f, InstrUpTo(f)[h - 1], n, p)
<1> DEFINE At(g, k) == [x \in InstrsUpTo(AnyScope)[k] \X Paths |-> InstrOver(f, g[k - 1], x[1], x[2])]
           Rec(g) == g = [k \in 0 .. Height |-> At(g, k)]
           v == CHOOSE g : Rec(g)
<1>1. InstrUpTo(f) = v
  BY DEF InstrUpTo
<1>2. Rec(v)
  <2>1. PICK g : InstrChecks(f, Height, g)
    BY HeightAssumption, InstrChecksExist
  <2>2. \A k \in 0 .. Height : g[k] = At(g, k)
    <3> SUFFICES ASSUME NEW k \in 0 .. Height PROVE g[k] = At(g, k)
      OBVIOUS
    <3>1. CASE k = 0
      <4>1. InstrsUpTo(AnyScope)[0] = {}
        BY InstrLevelsAre DEF InstrLevels
      <4>2. g[0] = [x \in {} |-> x]
        BY <2>1 DEF InstrChecks
      <4>3. [x \in {} \X Paths |-> InstrOver(f, g[0 - 1], x[1], x[2])] = [x \in {} |-> x]
        <5>1. {} \X Paths = {}
          OBVIOUS
        <5> QED  BY <5>1
      <4> QED  BY <3>1, <4>1, <4>2, <4>3
    <3>2. CASE k # 0
      <4>1. k \in 1 .. Height
        BY <3>2, HeightAssumption
      <4> QED  BY <2>1, <4>1 DEF InstrChecks
    <3> QED  BY <3>1, <3>2
  <2>3. g = [k \in 0 .. Height |-> g[k]]
    BY <2>1 DEF InstrChecks
  <2> HIDE DEF At
  <2>4. Rec(g)
    BY <2>2, <2>3
  <2> HIDE DEF Rec
  <2> QED  BY <2>4
<1> HIDE DEF v
<1>3. v[h] = At(v, h)
  <2>1. h \in 0 .. Height
    BY HeightAssumption
  <2> HIDE DEF At
  <2> QED  BY <1>2, <2>1
<1>4. At(v, h)[<<n, p>>] = InstrOver(f, v[h - 1], n, p)
  OBVIOUS
<1> HIDE DEF At
<1> QED  BY <1>1, <1>3, <1>4
-----------------------------------------------------------------------------
(* The checks of every tree                                                *)

LEMMA ExprLevelsSound ==
    ASSUME NEW F, NEW f, f.func.ident \in F, InTables(f)
    PROVE  \A h \in 0 .. Height : SoundBelow(F, ExprUpTo(f)[h], ExpsUpTo(AnyScope)[h])
<1> DEFINE exps == ExpsUpTo(AnyScope)
           upTo == ExprUpTo(f)
           S == {h \in 0 .. Height : SoundBelow(F, upTo[h], exps[h])}
<1>1. ExpLevels(AnyScope, Height, exps)
  BY ExpLevelsAre
<1>2. 0 \in S
  <2>1. exps[0] = {} /\ 0 \in 0 .. Height
    BY <1>1, HeightAssumption DEF ExpLevels
  <2>2. SoundBelow(F, upTo[0], exps[0])
    BY <2>1 DEF SoundBelow
  <2> QED  BY <2>1, <2>2
<1>3. ASSUME NEW k \in 0 .. Height, k + 1 \in 0 .. Height, k \in S PROVE k + 1 \in S
  <2>1. k + 1 \in 1 .. Height /\ (k + 1) - 1 = k
    BY <1>3, HeightAssumption
  <2>2. exps[k + 1] = ExpNodes(AnyScope, exps[k])
    BY <1>1, <2>1 DEF ExpLevels
  <2>3. ASSUME NEW n \in exps[k + 1], NEW p \in Paths PROVE Sound(F, upTo[k + 1][n, p])
    <3>1. upTo[k + 1][n, p] = ExprOver(f, upTo[k], n, p)
      BY <2>1, ExprChecksAre
    <3>2. Sound(F, ExprOver(f, upTo[k], n, p))
      BY <1>3, <2>2, ExprOverSound
    <3> QED  BY <3>1, <3>2
  <2> QED  BY <1>3, <2>3 DEF SoundBelow
<1> HIDE DEF S
<1>4. 0 .. Height \subseteq S
  BY <1>2, <1>3, Reaches, HeightAssumption
<1> QED  BY <1>4 DEF S

LEMMA ExprSound ==
    ASSUME NEW F, NEW f, f.func.ident \in F, InTables(f)
    PROVE  SoundBelow(F, Expr(f), Exps(AnyScope))
  BY ExprLevelsSound, HeightAssumption DEF Expr, Exps

LEMMA ReturnSound ==
    ASSUME NEW F, NEW f, f.func.ident \in F, InTables(f), NEW p \in Paths,
           NEW n, n.child = <<>> \/ n.child[1] \in Exps(AnyScope)
    PROVE  Sound(F, Return(f, n, p))
<1>1. /\ Sound(F, Report(f, "ERR_MUST_RETURN_VALUE", p)) /\ Sound(F, Report(f, "ERR_RETURN_VOID_EXPR", p))
      /\ Sound(F, Report(f, "ERR_RETURN_TYPE_NON_VOID", p))
  BY ReportSound DEF Errors
<1>2. Sound(F, Report(f, "WARN_IMPLICIT_INT_TO_CHAR", p))
  BY ReportSound DEF Warnings
<1>3. CASE n.child = <<>>
  <2>1. \A cond : Sound(F, If(cond, Report(f, "ERR_MUST_RETURN_VALUE", p)))
    BY <1>1, IfSound
  <2> QED  BY <1>3, <2>1 DEF Return
<1>4. CASE n.child # <<>>
  <2> DEFINE value == Expr(f)[n.child[1], Append(p, 1)]
             said == Report(f, IF value.type = "void" THEN "ERR_RETURN_VOID_EXPR"
                               ELSE "ERR_RETURN_TYPE_NON_VOID", p)
             last == IF f.func.type = "byte" /\ value.type = "num"
                     THEN Report(f, "WARN_IMPLICIT_INT_TO_CHAR", p) ELSE If(f.func.type = "void", said)
  <2>1. Return(f, n, p) = Then(value, last)
    BY <1>4 DEF Return
  <2>2. Sound(F, value)
    <3>1. Append(p, 1) \in Paths
      BY PathsGrow
    <3> QED  BY <1>4, <3>1, ExprSound DEF SoundBelow
  <2> HIDE DEF value
  <2>3. Sound(F, said)
    BY <1>1
  <2> HIDE DEF said
  <2>4. \A cond : Sound(F, If(cond, said))
    BY <2>3, IfSound
  <2>5. Sound(F, last)
    BY <1>2, <2>4
  <2> HIDE DEF last
  <2> QED  BY <2>1, <2>2, <2>5, ThenSound
<1> QED  BY <1>3, <1>4

LEMMA AssignationSound ==
    ASSUME NEW F, NEW f, f.func.ident \in F, InTables(f), NEW p \in Paths,
           NEW n, IsTarget(AnyScope, Exps(AnyScope), n.child[1]), n.child[2] \in Exps(AnyScope)
    PROVE  Sound(F, Assignation(f, n, p))
<1> DEFINE target == n.child[1]
           indexed == target.label = "ArrayLR"
           place == If(indexed, ArrayLR(f, Expr(f), target, Append(p, 1)))
           value == Expr(f)[n.child[2], Append(p, 2)]
           last == IF TypeOf(f, target.ident) = "byte" /\ value.type = "num"
                   THEN Report(f, "WARN_IMPLICIT_INT_TO_CHAR", p)
                   ELSE If(value.type = "void", Report(f, "ERR_NO_VOID_EXPRESSION", p))
<1>1. Append(p, 1) \in Paths /\ Append(p, 2) \in Paths
  BY PathsGrow
<1>2. SoundBelow(F, Expr(f), Exps(AnyScope))
  BY ExprSound
<1>3. /\ Sound(F, Report(f, "ERR_UNDECLARED_SYMBOL", Append(p, 1)))
      /\ Sound(F, Report(f, "ERR_NOT_AN_LVALUE", Append(p, 1)))
      /\ Sound(F, Report(f, "ERR_NO_VOID_EXPRESSION", p))
  BY <1>1, ReportSound DEF Errors
<1>4. Sound(F, Report(f, "WARN_IMPLICIT_INT_TO_CHAR", p))
  BY ReportSound DEF Warnings
<1>5. Sound(F, value)
  BY <1>1, <1>2 DEF SoundBelow
<1>6. Sound(F, place)
  <2>1. indexed => target.child[1] \in Exps(AnyScope)
    BY DEF IsTarget, IsUnary
  <2>2. indexed => Sound(F, ArrayLR(f, Expr(f), target, Append(p, 1)))
    <3> HIDE DEF target
    <3> QED  BY <1>1, <1>2, <2>1, ArrayLRSound
  <2> HIDE DEF target
  <2> QED  BY <2>2, IfSound
<1>7. Sound(F, last)
  <2> HIDE DEF value
  <2>1. \A cond : Sound(F, If(cond, Report(f, "ERR_NO_VOID_EXPRESSION", p)))
    BY <1>3, IfSound
  <2> QED  BY <1>4, <2>1
<1>8. Assignation(f, n, p) \in {Report(f, "ERR_UNDECLARED_SYMBOL", Append(p, 1)),
                              Report(f, "ERR_NOT_AN_LVALUE", Append(p, 1)),
                              ThenAll(<<place, value, last>>)}
  BY DEF Assignation
<1> HIDE DEF place, value, last
<1>9. Sound(F, ThenAll(<<place, value, last>>))
  <2> DEFINE rs == <<place, value, last>>
  <2>1. Len(rs) = 3 /\ \A i \in 1 .. 3 : Sound(F, rs[i])
    BY <1>5, <1>6, <1>7
  <2> HIDE DEF rs
  <2>2. Sound(F, ThenAll(rs))
    BY <2>1, ThenAllSound
  <2> QED  BY <2>2 DEF rs
<1> QED  BY <1>3, <1>8, <1>9

\* A list of instructions, from the child `first' on.
LEMMA SequenceSound ==
    ASSUME NEW F, NEW I, NEW lower, SoundBelow(F, I, lower), NEW p \in Paths,
           NEW n, NEW first \in Nat \ {0}, Len(n.child) \in Nat, first <= Len(n.child) + 1,
           \A i \in first .. Len(n.child) : n.child[i] \in lower
    PROVE  Sound(F, Sequence(I, n, first, p))
<1> DEFINE count == Len(n.child) - first + 1
           rs == [i \in 1 .. count |-> I[n.child[first + i - 1], Append(p, first + i - 1)]]
<1>1. count \in Nat /\ \A i \in 1 .. count : first + i - 1 \in first .. Len(n.child) /\ first + i - 1 \in Nat
  OBVIOUS
<1>2. \A i \in 1 .. count : Sound(F, I[n.child[first + i - 1], Append(p, first + i - 1)])
  <2> SUFFICES ASSUME NEW i \in 1 .. count
               PROVE  Sound(F, I[n.child[first + i - 1], Append(p, first + i - 1)])
    OBVIOUS
  <2> DEFINE j == first + i - 1
  <2>1. j \in first .. Len(n.child) /\ j \in Nat
    BY <1>1
  <2> HIDE DEF j
  <2>2. n.child[j] \in lower /\ Append(p, j) \in Paths
    BY <2>1, PathsGrow
  <2>3. Sound(F, I[n.child[j], Append(p, j)])
    BY <2>2 DEF SoundBelow
  <2> QED  BY <2>3 DEF j
<1>3. Sequence(I, n, first, p) = ThenAll(rs)
  BY DEF Sequence
<1> HIDE DEF count
<1>4. Len(rs) = count
  BY <1>1
<1>5. \A i \in 1 .. count : Sound(F, rs[i])
  BY <1>2
<1> HIDE DEF rs
<1> QED  BY <1>1, <1>3, <1>4, <1>5, ThenAllSound

LEMMA InstrOverSound ==
    ASSUME NEW F, NEW f, f.func.ident \in F, InTables(f), NEW p \in Paths,
           NEW I, NEW lower, SoundBelow(F, I, lower),
           \A m \in lower : m.label = "SuiteInstr" => m.child \in Seq(lower),
           NEW n \in InstrNodes(AnyScope, Exps(AnyScope), lower)
    PROVE  Sound(F, InstrOver(f, I, n, p))
<1> DEFINE exps == Exps(AnyScope)
<1> HIDE DEF exps
<1>1. InstrForm(AnyScope, exps, lower, n)
  BY InstrNodesAre DEF exps
<1>2. SoundBelow(F, Expr(f), exps)
  BY ExprSound DEF exps
<1>3. Append(p, 1) \in Paths /\ Append(p, 2) \in Paths /\ Append(p, 3) \in Paths
  BY PathsGrow
<1>4. ASSUME NEW k \in {2, 3}, Len(n.child) \in {2, 3}, k <= Len(n.child),
             n.child[2] \in lower, k = 3 \/ Len(n.child) = 2 \/ n.child[3] \in lower,
             n.child[k] \in lower
      PROVE  Sound(F, SuiteInstr(I, n, k, p))
  <2>1. CASE n.child[k].label = "SuiteInstr"
    <3> DEFINE m == n.child[k]
    <3>1. m.child \in Seq(lower)
      BY <1>4, <2>1
    <3> HIDE DEF m
    <3>2. Len(m.child) \in Nat /\ \A i \in 1 .. Len(m.child) : m.child[i] \in lower
      BY <3>1
    <3>3. Append(p, k) \in Paths
      BY <1>3, <1>4
    <3>4. Sound(F, Sequence(I, m, 1, Append(p, k)))
      BY <3>2, <3>3, SequenceSound
    <3> QED  BY <2>1, <3>4 DEF SuiteInstr, m
  <2>2. CASE n.child[k].label # "SuiteInstr"
    <3>1. \A i \in k .. Len(n.child) : n.child[i] \in lower
      <4> SUFFICES ASSUME NEW i \in k .. Len(n.child) PROVE n.child[i] \in lower
        OBVIOUS
      <4> DEFINE count == Len(n.child)
      <4>1. k \in {2, 3} /\ count \in {2, 3} /\ i \in k .. count
        BY <1>4
      <4> HIDE DEF count
      <4>2. i = k \/ (k = 2 /\ i = 3 /\ count = 3)
        BY <4>1
      <4> QED  BY <1>4, <4>2 DEF count
    <3>2. k \in Nat \ {0} /\ Len(n.child) \in Nat /\ k <= Len(n.child) + 1
      BY <1>4
    <3>3. Sound(F, Sequence(I, n, k, p))
      BY <3>1, <3>2, SequenceSound
    <3> QED  BY <2>2, <3>3 DEF SuiteInstr
  <2> QED  BY <2>1, <2>2
<1>5. CASE n.label = "EmptyInstr"
  BY <1>5, FineSound DEF InstrOver, Silent
<1>6. CASE n.label = "Return"
  <2>1. n.child = <<>> \/ n.child[1] \in exps
    BY <1>1, <1>6 DEF InstrForm, IsCallOver
  <2>2. Sound(F, Return(f, n, p))
    BY <2>1, ReturnSound DEF exps
  <2> QED  BY <1>6, <2>2 DEF InstrOver
<1>7. CASE n.label = "Assignation"
  <2>1. IsTarget(AnyScope, exps, n.child[1]) /\ n.child[2] \in exps
    BY <1>1, <1>7 DEF InstrForm, IsCallOver
  <2>2. Sound(F, Assignation(f, n, p))
    BY <2>1, AssignationSound DEF exps
  <2> QED  BY <1>7, <2>2 DEF InstrOver
<1>8. CASE n.label = "Ident"
  <2>1. IsCallOver(AnyScope, exps, n)
    BY <1>1, <1>8 DEF InstrForm
  <2>2. Sound(F, FunctionCall(f, Expr(f), n, p))
    BY <1>2, <2>1, FunctionCallSound
  <2> QED  BY <1>8, <2>2 DEF InstrOver
<1>9. CASE n.label = "If"
  <2>1. /\ n.child[1] \in exps /\ n.child[2] \in lower
        /\ Len(n.child) = 2 \/ (Len(n.child) = 3 /\ n.child[3] \in lower)
    BY <1>1, <1>9 DEF InstrForm, IsCallOver
  <2> DEFINE a == Expr(f)[n.child[1], Append(p, 1)]
             b == SuiteInstr(I, n, 2, p)
             c == IF Len(n.child) = 3 THEN SuiteInstr(I, n, 3, p) ELSE Silent
  <2>2. Sound(F, a)
    BY <1>2, <1>3, <2>1 DEF SoundBelow
  <2>3. Sound(F, b)
    BY <1>4, <2>1
  <2>4. Sound(F, c)
    BY <1>4, <2>1, FineSound DEF Silent
  <2>5. InstrOver(f, I, n, p) = ThenAll(<<a, b, c>>)
    BY <1>9 DEF InstrOver, IfInstr
  <2> HIDE DEF a, b, c
  <2> DEFINE rs == <<a, b, c>>
  <2>6. Len(rs) = 3 /\ \A i \in 1 .. 3 : Sound(F, rs[i])
    BY <2>2, <2>3, <2>4
  <2> HIDE DEF rs
  <2>7. Sound(F, ThenAll(rs))
    BY <2>6, ThenAllSound
  <2> QED  BY <2>5, <2>7 DEF rs
<1>10. CASE n.label = "While"
  <2>1. n.child[1] \in exps /\ n.child[2] \in lower /\ Len(n.child) = 2
    BY <1>1, <1>10 DEF InstrForm, IsCallOver
  <2>2. Sound(F, Expr(f)[n.child[1], Append(p, 1)])
    BY <1>2, <1>3, <2>1 DEF SoundBelow
  <2>3. Sound(F, SuiteInstr(I, n, 2, p))
    BY <1>4, <2>1
  <2>4. Sound(F, While(f, I, n, p))
    BY <2>2, <2>3, ThenSound DEF While
  <2> QED  BY <1>10, <2>4 DEF InstrOver
<1>11. CASE n.label = "SuiteInstr"
  <2>1. n.child \in Seq(lower)
    BY <1>1, <1>11 DEF InstrForm, IsCallOver
  <2>2. Len(n.child) \in Nat /\ \A i \in 1 .. Len(n.child) : n.child[i] \in lower
    BY <2>1
  <2>3. Sound(F, Sequence(I, n, 1, p))
    BY <2>2, SequenceSound
  <2> QED  BY <1>11, <2>3 DEF InstrOver
<1> QED  BY <1>1, <1>5, <1>6, <1>7, <1>8, <1>9, <1>10, <1>11 DEF InstrForm, IsCallOver

LEMMA InstrSound ==
    ASSUME NEW F, NEW f, f.func.ident \in F, InTables(f)
    PROVE  SoundBelow(F, Instr(f), Instrs(AnyScope))
<1> DEFINE exps == Exps(AnyScope)
           instrs == InstrsUpTo(AnyScope)
           upTo == InstrUpTo(f)
           Lists(h) == \A m \in instrs[h] : m.label = "SuiteInstr" => m.child \in Seq(instrs[h])
           S == {h \in 0 .. Height : SoundBelow(F, upTo[h], instrs[h]) /\ Lists(h)}
<1>1. InstrLevels(AnyScope, exps, Height, instrs)
  BY InstrLevelsAre
<1> HIDE DEF exps
<1>2. 0 \in S
  <2>1. instrs[0] = {} /\ 0 \in 0 .. Height
    BY <1>1, HeightAssumption DEF InstrLevels
  <2>2. SoundBelow(F, upTo[0], instrs[0]) /\ Lists(0)
    BY <2>1 DEF SoundBelow
  <2> QED  BY <2>1, <2>2
<1>3. ASSUME NEW k \in 0 .. Height, k + 1 \in 0 .. Height, k \in S PROVE k + 1 \in S
  <2>1. k + 1 \in 1 .. Height /\ (k + 1) - 1 = k
    BY <1>3, HeightAssumption
  <2>2. instrs[k + 1] = InstrNodes(AnyScope, exps, instrs[k])
    BY <1>1, <2>1 DEF InstrLevels
  <2>3. ASSUME NEW n \in instrs[k + 1], NEW p \in Paths PROVE Sound(F, upTo[k + 1][n, p])
    <3>1. upTo[k + 1][n, p] = InstrOver(f, upTo[k], n, p)
      BY <2>1, InstrChecksAre
    <3>2. SoundBelow(F, upTo[k], instrs[k]) /\ Lists(k)
      BY <1>3
    <3>3. n \in InstrNodes(AnyScope, Exps(AnyScope), instrs[k])
      BY <2>2 DEF exps
    <3> HIDE DEF instrs, upTo
    <3>4. Sound(F, InstrOver(f, upTo[k], n, p))
      BY <3>2, <3>3, InstrOverSound
    <3> QED  BY <3>1, <3>4
  <2>4. Lists(k + 1)
    <3> SUFFICES ASSUME NEW m \in instrs[k + 1], m.label = "SuiteInstr"
                 PROVE  m.child \in Seq(instrs[k + 1])
      OBVIOUS
    <3>1. InstrForm(AnyScope, exps, instrs[k], m)
      BY <2>2, InstrNodesAre
    <3>2. m.child \in Seq(instrs[k])
      BY <3>1 DEF InstrForm, IsCallOver
    <3>3. instrs[k] \subseteq instrs[k + 1]
      <4>1. Narrower(AnyScope, AnyScope)
        BY DEF Narrower
      <4> QED  BY <2>1, <4>1, InstrsGrow
    <3> HIDE DEF instrs
    <3> QED  BY <3>2, <3>3, SeqGrows
  <2> QED  BY <1>3, <2>3, <2>4 DEF SoundBelow
<1> HIDE DEF S
<1>4. 0 .. Height \subseteq S
  BY <1>2, <1>3, Reaches, HeightAssumption
<1> QED  BY <1>4, HeightAssumption DEF S, Instr, Instrs

LEMMA RootSound ==
    ASSUME NEW F, NEW f, f.func.ident \in F, InTables(f), NEW body \in Bodies(AnyScope)
    PROVE  Sound(F, Root(f, body))
<1>1. body.child \in Seq(Instrs(AnyScope))
  BY DEF Bodies, Nodes
<1>2. Len(body.child) \in Nat /\ \A i \in 1 .. Len(body.child) : body.child[i] \in Instrs(AnyScope)
  BY <1>1
<1>3. <<>> \in Paths
  BY DEF Paths
<1>4. Sound(F, Sequence(Instr(f), body, 1, <<>>))
  BY <1>2, <1>3, InstrSound, SequenceSound
<1>5. Sound(F, Report(f, "WARN_MISSING_RETURN", <<>>))
  BY <1>3, ReportSound DEF Warnings
<1>6. \A cond : Sound(F, If(cond, Report(f, "WARN_MISSING_RETURN", <<>>)))
  BY <1>5, IfSound
<1> QED  BY <1>4, <1>6, ThenSound DEF Root
-----------------------------------------------------------------------------
(* What is accepted.  In a function f, over trees that give a name for      *)
(* every array, a check that finds no error only leaves those of Scope(f).  *)

\* A result that does not refuse the program.
Clean(r) == r.err \subseteq Warnings

LEMMA CleanReport == ASSUME NEW f, NEW kind, kind \notin Warnings, NEW p
                     PROVE  ~Clean(Report(f, kind, p))
  BY DEF Clean, Report

LEMMA CleanThen == ASSUME NEW r, NEW s, Clean(Then(r, s)) PROVE Clean(r) /\ Clean(s)
  BY DEF Clean, Then

LEMMA CleanIf == ASSUME NEW f, NEW kind, kind \notin Warnings, NEW p,
                        NEW cond, Clean(If(cond, Report(f, kind, p)))
                 PROVE  ~cond
  BY CleanReport DEF If

LEMMA CleanWithType == ASSUME NEW F, NEW r, Sound(F, r), NEW type, Clean(WithType(r, type))
                       PROVE  Clean(r)
<1>1. r = [log |-> r.log, err |-> r.err, type |-> r.type]
  BY DEF Sound
<1>2. WithType(r, type) = [log |-> r.log, err |-> r.err, type |-> type]
  BY <1>1 DEF WithType
<1> QED  BY <1>2 DEF Clean

LEMMA CleanThenAll ==
    ASSUME NEW rs, Len(rs) \in Nat, Clean(ThenAll(rs)), NEW i \in 1 .. Len(rs)
    PROVE  Clean(rs[i])
<1> DEFINE n == Len(rs)
<1>1. PICK v : /\ ThenAll(rs) = v[n] /\ v[0] = Silent
              /\ \A j \in 1 .. n : v[j] = Then(v[j - 1], rs[j])
  BY ThenAllIs
<1> DEFINE S == {k \in 0 .. n : Clean(v[k]) => \A j \in 1 .. k : Clean(rs[j])}
<1>2. 0 \in S
  OBVIOUS
<1>3. ASSUME NEW k \in 0 .. n, k + 1 \in 0 .. n, k \in S PROVE k + 1 \in S
  <2> SUFFICES ASSUME Clean(v[k + 1]), NEW j \in 1 .. k + 1 PROVE Clean(rs[j])
    BY <1>3
  <2>1. k + 1 \in 1 .. n /\ (k + 1) - 1 = k
    BY <1>3
  <2>2. v[k + 1] = Then(v[k], rs[k + 1])
    BY <1>1, <2>1
  <2>3. Clean(v[k]) /\ Clean(rs[k + 1])
    BY <2>2, CleanThen
  <2>4. j \in 1 .. k \/ j = k + 1
    BY <1>3
  <2> QED  BY <1>3, <2>3, <2>4
<1> HIDE DEF S
<1>4. 0 .. n \subseteq S
  BY <1>2, <1>3, Reaches
<1> QED  BY <1>1, <1>4 DEF S

\* The trees of `lower' whose check is clean are all among those of `kept'.
Keeps(X, lower, kept) == \A n \in lower, p \in Paths : Clean(X[n, p]) => n \in kept
\* So are the lone names of arrays.
KeepsArrays(f, lower, kept) ==
    \A n \in lower : IsOnlyIdentifier(n) /\ n.ident \in Scope(f).arrays => n \in kept

LEMMA NamesOfScope ==
    ASSUME NEW f, InTables(f), NEW x \in STRING, Resolves(f, x)
    PROVE  /\ Symbol(f, x).kind = "value" => x \in Scope(f).values
           /\ Symbol(f, x).kind = "array" => x \in Scope(f).arrays
           /\ \A n \in Nat : Symbol(f, x).kind = "function" /\ ParamCount(f.functions[x]) = n =>
                <<x, n>> \in Scope(f).calls
  BY DEF Scope

LEMMA NamingScopeIs == ASSUME NEW f
                       PROVE  /\ NamingScope(f).values = STRING /\ NamingScope(f).arrays = STRING
                              /\ Narrower(NamingScope(f), AnyScope)
  BY DEF NamingScope, AnyScope, Narrower

LEMMA NodeKept ==
    ASSUME NEW l, NEW I, NEW J, NEW C, NEW D, NEW n \in Nodes(l, I, C), n.ident \in J, n.child \in D
    PROVE  n \in Nodes(l, J, D)
  BY DEF Nodes

LEMMA ArgumentClean ==
    ASSUME NEW f, InTables(f), NEW E, NEW lower, NEW kept,
           Keeps(E, lower, kept), KeepsArrays(f, lower, kept),
           NEW callee, NEW i, NEW n \in lower, n.label = "Ident" => n.ident \in STRING,
           Param(callee, i - 1).kind = "array" => IsOnlyIdentifier(n),
           NEW p \in Paths, Clean(Argument(f, E, callee, i, n, p))
    PROVE  n \in kept
<1> DEFINE param == Param(callee, i - 1)
           x == Spelling(n)
           named == IsOnlyIdentifier(n) \/ param.kind = "array"
           arrays == named /\ Resolves(f, x) /\ "array" \in {Symbol(f, x).kind, param.kind}
           value == E[n, p]
           narrows == /\ param.kind = "value" /\ value.type = "num"
                      /\ ParamType(f, callee, param.ident) = "byte"
           warned == Then(value, If(narrows, Report(f, "WARN_IMPLICIT_INT_TO_CHAR", p)))
           typed == If(TypeOf(f, x) # ParamType(f, callee, param.ident),
                       Report(f, "ERR_INVALID_ARRAY_TYPE", p))
<1>1. Argument(f, E, callee, i, n, p) =
        IF named /\ ~Resolves(f, x) THEN Report(f, "ERR_UNDECLARED_SYMBOL", p)
        ELSE IF ~arrays THEN warned
        ELSE IF param.kind # Symbol(f, x).kind THEN Report(f, "ERR_MISMATCH_ARRAY_TYPE", p)
        ELSE typed
  BY DEF Argument
<1>2. ~Clean(Report(f, "ERR_UNDECLARED_SYMBOL", p)) /\ ~Clean(Report(f, "ERR_MISMATCH_ARRAY_TYPE", p))
  BY CleanReport DEF Warnings
<1> HIDE DEF warned, typed
<1>3. CASE ~arrays
  <2>1. Clean(warned)
    BY <1>1, <1>2, <1>3
  <2>2. Clean(value)
    BY <2>1, CleanThen DEF warned
  <2> QED  BY <2>2 DEF Keeps
<1>4. CASE arrays
  <2>1. IsOnlyIdentifier(n)
    BY <1>4
  <2>2. x = n.ident /\ n.label = "Ident"
    BY <2>1 DEF Spelling, IsOnlyIdentifier
  <2>3. Symbol(f, x).kind = "array" /\ Resolves(f, x)
    BY <1>1, <1>2, <1>4
  <2>4. n.ident \in Scope(f).arrays
    BY <2>2, <2>3, NamesOfScope
  <2> QED  BY <2>1, <2>4 DEF KeepsArrays
<1> QED  BY <1>3, <1>4

\* A call of f whose check is clean has as many arguments as there are parameters.
LEMMA FunctionCallClean ==
    ASSUME NEW f, InTables(f), NEW E, NEW lower, NEW kept,
           Keeps(E, lower, kept), KeepsArrays(f, lower, kept),
           \A m \in lower : m.label = "Ident" => m.ident \in STRING,
           NEW n \in CallNodes(NamingScope(f), lower),
           NEW p \in Paths, Clean(FunctionCall(f, E, n, p))
    PROVE  n \in CallNodes(Scope(f), kept)
<1> DEFINE callee == f.functions[n.ident]
           a == n.child[1]
           args == a.child
           count == ParamCount(callee)
           q == Append(p, 1)
<1>1. /\ n.label = "Ident" /\ n.ident \in STRING /\ args \in Seq(lower)
      /\ NamesGiven(NamingScope(f), n)
  BY CallNodesAre DEF IsCallOver
<1>2. Resolves(f, n.ident)
  <2>1. ~Clean(Report(f, "ERR_UNDECLARED_SYMBOL", p))
    BY CleanReport DEF Warnings
  <2> QED  BY <2>1 DEF FunctionCall
<1>3. Symbol(f, n.ident).kind = "function"
  <2>1. ~Clean(Report(f, "ERR_SEM_IS_NOT_CALLABLE", p))
    BY CleanReport DEF Warnings
  <2> QED  BY <1>2, <2>1 DEF FunctionCall
<1>4. n.ident \in DOMAIN f.functions /\ count \in Nat
  BY <1>2, <1>3, SymbolIs
<1> DEFINE r1 == If(~IsDefinedBeforeUse(f, callee), Report(f, "WARN_USE_UNDEFINED_FUNCTION", p))
           r2 == Arguments(f, E, callee, args, q)
           r3 == If(Len(args) > count, Report(f, "ERR_INVALID_PARAM_COUNT", p \o <<1, count + 1>>))
           r4 == If(Len(args) < count, Report(f, "ERR_INVALID_PARAM_COUNT", p))
           rs == <<r1, r2, r3, r4>>
<1>5. FunctionCall(f, E, n, p) = ThenAll(rs)
  BY <1>2, <1>3 DEF FunctionCall
<1>6. Clean(r2) /\ Clean(r3) /\ Clean(r4)
  <2> HIDE DEF r1, r2, r3, r4
  <2>1. Len(rs) = 4 /\ rs[2] = r2 /\ rs[3] = r3 /\ rs[4] = r4
    OBVIOUS
  <2>2. Clean(ThenAll(rs))
    BY <1>5
  <2> HIDE DEF rs
  <2>3. Clean(rs[2]) /\ Clean(rs[3]) /\ Clean(rs[4])
    BY <2>1, <2>2, CleanThenAll
  <2> QED  BY <2>1, <2>3
<1>7. ~(Len(args) > count) /\ ~(Len(args) < count)
  <2>1. "ERR_INVALID_PARAM_COUNT" \notin Warnings
    BY DEF Warnings
  <2>2. ~(Len(args) > count)
    BY <1>6, <2>1, CleanIf
  <2>3. ~(Len(args) < count)
    BY <1>6, <2>1, CleanIf
  <2> QED  BY <2>2, <2>3
<1>8. Len(args) = count /\ Len(args) \in Nat /\ DOMAIN args = 1 .. Len(args)
  BY <1>1, <1>4, <1>7
<1>9. ASSUME NEW i \in 1 .. Len(args) PROVE args[i] \in kept
  <2> DEFINE checked == IF Len(args) < count THEN Len(args) ELSE count
             ss == [j \in 1 .. checked |-> Argument(f, E, callee, j, args[j], Append(q, j))]
  <2>1. checked = Len(args)
    BY <1>8
  <2>2. r2 = ThenAll(ss)
    BY DEF Arguments
  <2> HIDE DEF checked
  <2>3. Len(ss) = Len(args) /\ ss[i] = Argument(f, E, callee, i, args[i], Append(q, i))
    BY <1>8, <2>1
  <2> HIDE DEF ss, r2
  <2>4. Clean(ss[i])
    BY <1>6, <1>8, <2>2, <2>3, CleanThenAll
  <2>5. Clean(Argument(f, E, callee, i, args[i], Append(q, i)))
    BY <2>3, <2>4
  <2>6. args[i] \in lower /\ i \in Nat /\ 1 \in Nat
    BY <1>1, <1>8
  <2>7. Append(q, i) \in Paths
    <3>1. q \in Paths
      BY <2>6, PathsGrow
    <3> HIDE DEF q
    <3> QED  BY <2>6, <3>1, PathsGrow
  <2>8. Param(callee, i - 1).kind = "array" => IsOnlyIdentifier(args[i])
    <3> SUFFICES ASSUME Param(callee, i - 1).kind = "array" PROVE IsOnlyIdentifier(args[i])
      OBVIOUS
    <3>1. i \in 1 .. count
      BY <1>8
    <3>2. <<n.ident, i>> \in NamingScope(f).named
      BY <1>1, <1>4, <2>6, <3>1 DEF NamingScope
    <3> QED  BY <1>1, <1>8, <3>2 DEF NamesGiven
  <2>9. args[i].label = "Ident" => args[i].ident \in STRING
    BY <2>6
  <2> HIDE DEF callee, q, args
  <2> QED  BY <2>5, <2>6, <2>7, <2>8, <2>9, ArgumentClean
<1>10. args \in Seq(kept)
  BY <1>1, <1>8, <1>9
<1>11. <<n.ident, Len(args)>> \in Scope(f).calls
  BY <1>1, <1>2, <1>3, <1>8, NamesOfScope
<1>12. NamesGiven(Scope(f), n)
  BY DEF NamesGiven, Scope
<1>13. n \in Nodes({"Ident"}, STRING, OneChild(ArgumentNodes(lower)))
  BY DEF CallNodes
<1>14. n.child \in OneChild(ArgumentNodes(lower))
  BY <1>13 DEF Nodes
<1>15. a \in ArgumentNodes(kept)
  <2>1. a \in ArgumentNodes(lower)
    BY <1>14, OneChildIs
  <2>2. CASE a \in Nodes({"EmptyArgs"}, STRING, NoChild)
    BY <2>2 DEF ArgumentNodes
  <2>3. CASE a \in Nodes({"ListExp"}, STRING, Seq(lower) \ NoChild)
    <3>1. a.ident \in STRING /\ args \in Seq(lower) \ NoChild
      BY <2>3 DEF Nodes
    <3>2. args \in Seq(kept) \ NoChild
      BY <1>10, <3>1
    <3> HIDE DEF a
    <3>3. a \in Nodes({"ListExp"}, STRING, Seq(kept) \ NoChild)
      BY <2>3, <3>1, <3>2, NodeKept
    <3> QED  BY <3>3 DEF ArgumentNodes
  <2> QED  BY <2>1, <2>2, <2>3 DEF ArgumentNodes
<1>16. n.child \in OneChild(ArgumentNodes(kept))
  BY <1>14, <1>15 DEF OneChild
<1>17. n \in Nodes({"Ident"}, STRING, OneChild(ArgumentNodes(kept)))
  BY <1>1, <1>13, <1>16, NodeKept
<1> QED  BY <1>11, <1>12, <1>17 DEF CallNodes

\* An operator keeps what its operands keep.
LEMMA OperandsClean ==
    ASSUME NEW F, NEW f, NEW E, NEW lower, SoundBelow(F, E, lower), NEW kept, Keeps(E, lower, kept),
           NEW n, n.label \in Operators,
           n.child \in Seq(lower), NEW p \in Paths, Clean(ExprOver(f, E, n, p))
    PROVE  \A i \in 1 .. Len(n.child) : n.child[i] \in kept
<1> DEFINE operands == [i \in DOMAIN n.child |-> E[n.child[i], Append(p, i)]]
           type == CastTypes([i \in DOMAIN operands |-> operands[i].type])
<1>1. ExprOver(f, E, n, p) = WithType(ThenAll(operands), type)
  BY DEF ExprOver, Operators
<1>2. Len(n.child) \in Nat /\ DOMAIN n.child = 1 .. Len(n.child) /\ Len(operands) = Len(n.child)
  OBVIOUS
<1>3. \A i \in 1 .. Len(n.child) :
         /\ n.child[i] \in lower /\ Append(p, i) \in Paths
         /\ operands[i] = E[n.child[i], Append(p, i)] /\ Sound(F, operands[i])
  <2> SUFFICES ASSUME NEW i \in 1 .. Len(n.child)
               PROVE  /\ n.child[i] \in lower /\ Append(p, i) \in Paths
                      /\ operands[i] = E[n.child[i], Append(p, i)] /\ Sound(F, operands[i])
    OBVIOUS
  <2>1. n.child[i] \in lower /\ i \in Nat
    BY <1>2
  <2>2. Append(p, i) \in Paths
    BY <2>1, PathsGrow
  <2>3. operands[i] = E[n.child[i], Append(p, i)]
    BY <1>2
  <2> QED  BY <2>1, <2>2, <2>3 DEF SoundBelow
<1> HIDE DEF operands, type
<1>4. Sound(F, ThenAll(operands))
  BY <1>2, <1>3, ThenAllSound
<1>5. Clean(ThenAll(operands))
  BY <1>1, <1>4, CleanWithType
<1>6. \A i \in 1 .. Len(n.child) : Clean(operands[i])
  BY <1>2, <1>5, CleanThenAll
<1> QED  BY <1>3, <1>6 DEF Keeps

LEMMA ArrayLRClean ==
    ASSUME NEW F, NEW f, InTables(f), NEW E, NEW lower, SoundBelow(F, E, lower), NEW kept,
           Keeps(E, lower, kept),
           NEW n \in Nodes({"ArrayLR"}, STRING, OneChild(lower)), NEW p \in Paths,
           Clean(ArrayLR(f, E, n, p))
    PROVE  n \in Nodes({"ArrayLR"}, Scope(f).arrays, OneChild(kept))
<1>1. n.ident \in STRING /\ n.child \in OneChild(lower)
  BY DEF Nodes
<1>2. n.child[1] \in lower
  BY <1>1, OneChildIs
<1> DEFINE below == E[n.child[1], Append(p, 1)]
           wrong == Report(f, "ERR_SUBSCRIPT_NOT_ARRAY", p)
<1>3. Append(p, 1) \in Paths
  BY PathsGrow
<1>4. Sound(F, below)
  BY <1>2, <1>3 DEF SoundBelow
<1>5. Sound({f.func.ident}, wrong) /\ ~Clean(wrong) /\ ~Clean(Report(f, "ERR_UNDECLARED_SYMBOL", p))
  <2>1. Sound({f.func.ident}, wrong)
    BY ReportSound DEF Errors
  <2> QED  BY <2>1, CleanReport DEF Warnings
<1>6. Resolves(f, n.ident)
  BY <1>5 DEF ArrayLR
<1>7. Clean(WithType(IF Symbol(f, n.ident).kind = "array" THEN below ELSE wrong, TypeOf(f, n.ident)))
  BY <1>6 DEF ArrayLR
<1> HIDE DEF below, wrong
<1>8. Symbol(f, n.ident).kind = "array" /\ Clean(below)
  BY <1>4, <1>5, <1>7, CleanWithType
<1>9. n.child[1] \in kept
  BY <1>2, <1>3, <1>8 DEF Keeps, below
<1>10. n.child \in OneChild(kept) /\ n.ident \in Scope(f).arrays
  <2>1. n.ident \in Scope(f).arrays
    BY <1>1, <1>6, <1>8, NamesOfScope
  <2> QED  BY <1>1, <1>9, <2>1 DEF OneChild
<1> QED  BY <1>10, NodeKept

LEMMA IdentClean ==
    ASSUME NEW F, NEW f, f.func.ident \in F, InTables(f), NEW E, NEW lower, SoundBelow(F, E, lower),
           NEW kept, Keeps(E, lower, kept), KeepsArrays(f, lower, kept),
           \A m \in lower : m.label = "Ident" => m.ident \in STRING,
           NEW n \in CallNodes(NamingScope(f), lower) \cup Nodes({"Ident"}, STRING, NoChild),
           NEW p \in Paths, Clean(IdentRValue(f, E, n, p))
    PROVE  n \in OperandCalls(Scope(f), kept) \cup Nodes({"Ident"}, Scope(f).values, NoChild)
<1> DEFINE called == IsFunctionCallNode(n)
           type == TypeOf(f, n.ident)
           bad == called \/ Symbol(f, n.ident).kind # "value"
           call == FunctionCall(f, E, n, p)
           value == If(bad, Report(f, "ERR_NOT_AN_RVALUE", p))
<1>1. ~Clean(Report(f, "ERR_UNDECLARED_SYMBOL", p)) /\ ~Clean(Report(f, "ERR_NOT_AN_RVALUE", p))
  BY CleanReport DEF Warnings
<1>2. Resolves(f, n.ident)
  BY <1>1 DEF IdentRValue
<1>3. Clean(WithType(IF called /\ type # "void" THEN call ELSE value, type))
  BY <1>2 DEF IdentRValue
<1>4. Sound(F, value)
  <2>1. Sound(F, Report(f, "ERR_NOT_AN_RVALUE", p))
    BY ReportSound DEF Errors
  <2> QED  BY <2>1, IfSound
<1>5. CASE n \in CallNodes(NamingScope(f), lower)
  <2>1. IsCallOver(NamingScope(f), lower, n)
    BY <1>5, CallNodesAre
  <2>2. called
    BY <2>1 DEF IsCallOver, IsFunctionCallNode
  <2>3. IsCallOver(AnyScope, lower, n)
    <3>1. Narrower(NamingScope(f), AnyScope)
      BY NamingScopeIs
    <3>2. n \in CallNodes(AnyScope, lower)
      BY <1>5, <3>1, CallNodesGrow
    <3> QED  BY <3>2, CallNodesAre
  <2>4. Sound(F, call)
    BY <2>3, FunctionCallSound
  <2>5. ~Clean(value)
    BY <1>1, <2>2 DEF If
  <2> HIDE DEF called, type, call, value
  <2>6. Clean(call) /\ type # "void"
    BY <1>3, <1>4, <2>2, <2>4, <2>5, CleanWithType
  <2>7. n \in CallNodes(Scope(f), kept)
    BY <1>5, <2>6, FunctionCallClean DEF call
  <2>8. n.ident \in Scope(f).answers
    <3>1. n.ident \in STRING /\ <<n.ident, Len(n.child[1].child)>> \in Scope(f).calls
      BY <2>7, CallNodesAre DEF IsCallOver
    <3>2. Symbol(f, n.ident).kind = "function"
      BY <3>1 DEF Scope
    <3>3. f.functions[n.ident].type # "void"
      BY <2>6, <3>2 DEF type, TypeOf
    <3>4. n.ident \in DOMAIN f.functions
      BY <1>2, <3>2, SymbolIs
    <3> QED  BY <3>1, <3>3, <3>4 DEF Scope
  <2> QED  BY <2>7, <2>8 DEF OperandCalls
<1>6. CASE n \in Nodes({"Ident"}, STRING, NoChild)
  <2>1. n.child = <<>> /\ n.ident \in STRING /\ n.child \in NoChild
    BY <1>6 DEF Nodes, NoChild
  <2>2. ~called
    BY <2>1 DEF IsFunctionCallNode
  <2> HIDE DEF called, value, type, call
  <2>3. Clean(value)
    BY <1>3, <1>4, <2>2, CleanWithType
  <2>4. Symbol(f, n.ident).kind = "value"
    BY <1>1, <2>3 DEF value, If
  <2>5. n.ident \in Scope(f).values
    BY <1>2, <2>1, <2>4, NamesOfScope
  <2> QED  BY <1>6, <2>1, <2>5, NodeKept
<1> QED  BY <1>5, <1>6

LEMMA ExprOverClean ==
    ASSUME NEW F, NEW f, f.func.ident \in F, InTables(f), NEW E, NEW lower, SoundBelow(F, E, lower),
           NEW kept, Keeps(E, lower, kept), KeepsArrays(f, lower, kept),
           \A m \in lower : m.label = "Ident" => m.ident \in STRING,
           NEW n \in ExpNodes(NamingScope(f), lower), NEW p \in Paths, Clean(ExprOver(f, E, n, p))
    PROVE  n \in ExpNodes(Scope(f), kept)
<1> DEFINE s == Scope(f)
<1>1. NamingScope(f).values \cup NamingScope(f).arrays = STRING /\ NamingScope(f).arrays = STRING
      /\ OperandCalls(NamingScope(f), lower) \subseteq CallNodes(NamingScope(f), lower)
  BY NamingScopeIs DEF OperandCalls
<1>2. CASE n \in Nodes({"Num", "Character"}, STRING, NoChild)
  BY <1>2 DEF ExpNodes
<1>3. CASE n \in CallNodes(NamingScope(f), lower) \cup Nodes({"Ident"}, STRING, NoChild)
  <2>1. n.label = "Ident"
    <3>1. n \in CallNodes(NamingScope(f), lower) => n.label = "Ident"
      BY CallNodesAre DEF IsCallOver
    <3> QED  BY <1>3, <3>1 DEF Nodes
  <2>2. Clean(IdentRValue(f, E, n, p))
    BY <2>1 DEF ExprOver
  <2>3. n \in OperandCalls(s, kept) \cup Nodes({"Ident"}, s.values, NoChild)
    BY <1>3, <2>2, IdentClean
  <2>4. Nodes({"Ident"}, s.values, NoChild) \subseteq Nodes({"Ident"}, s.values \cup s.arrays, NoChild)
    BY NodesGrow
  <2> HIDE DEF s
  <2> QED  BY <2>3, <2>4 DEF ExpNodes, s
<1>4. CASE n \in Nodes({"ArrayLR"}, STRING, OneChild(lower))
  <2>1. n.label = "ArrayLR"
    BY <1>4 DEF Nodes
  <2>2. Clean(ArrayLR(f, E, n, p))
    BY <2>1 DEF ExprOver
  <2>3. n \in Nodes({"ArrayLR"}, s.arrays, OneChild(kept))
    BY <1>4, <2>2, ArrayLRClean
  <2> HIDE DEF s
  <2> QED  BY <2>3 DEF ExpNodes, s
<1>5. ASSUME n.label \in Operators, n.child \in Seq(lower)
      PROVE  \A i \in 1 .. Len(n.child) : n.child[i] \in kept
  BY <1>5, OperandsClean
<1>6. ASSUME NEW l \in SUBSET Operators, NEW ids, n \in Nodes(l, ids, OneChild(lower))
      PROVE  n \in Nodes(l, ids, OneChild(kept))
  <2>1. n.label \in Operators /\ n.ident \in ids /\ n.child \in OneChild(lower)
    BY <1>6 DEF Nodes
  <2>2. n.child \in Seq(lower) /\ Len(n.child) = 1
    BY <2>1, OneChildIs
  <2>3. n.child[1] \in kept
    <3>1. \A i \in 1 .. Len(n.child) : n.child[i] \in kept
      BY <2>1, <2>2, <1>5
    <3> QED  BY <2>2, <3>1
  <2>4. n.child \in OneChild(kept)
    BY <2>1, <2>3 DEF OneChild
  <2> QED  BY <1>6, <2>1, <2>4, NodeKept
<1>7. ASSUME NEW l \in SUBSET Operators, NEW ids, n \in Nodes(l, ids, lower \X lower)
      PROVE  n \in Nodes(l, ids, kept \X kept)
  <2>1. n.label \in Operators /\ n.ident \in ids /\ n.child \in lower \X lower
    BY <1>7 DEF Nodes
  <2>2. n.child \in Seq(lower) /\ Len(n.child) = 2
    <3>1. lower \cup lower = lower
      OBVIOUS
    <3> QED  BY <2>1, <3>1, TwoChildrenAre
  <2>3. n.child[1] \in kept /\ n.child[2] \in kept
    <3>1. \A i \in 1 .. Len(n.child) : n.child[i] \in kept
      BY <2>1, <2>2, <1>5
    <3> QED  BY <2>2, <3>1
  <2>4. n.child \in kept \X kept
    BY <2>1, <2>3
  <2> QED  BY <1>7, <2>1, <2>4, NodeKept
<1>8. CASE \/ n \in Nodes({"AddsubU"}, {"+", "-"}, OneChild(lower))
           \/ n \in Nodes({"Not"}, STRING, OneChild(lower))
  <2>1. \/ n \in Nodes({"AddsubU"}, {"+", "-"}, OneChild(kept))
        \/ n \in Nodes({"Not"}, STRING, OneChild(kept))
    BY <1>6, <1>8 DEF Operators
  <2> QED  BY <2>1 DEF ExpNodes
<1>9. CASE \/ n \in Nodes({"Addsub"}, {"+", "-"}, lower \X lower)
           \/ n \in Nodes({"Divstar"}, {"*", "/", "%"}, lower \X lower)
           \/ n \in Nodes({"Eq"}, {"==", "!="}, lower \X lower)
           \/ n \in Nodes({"Order"}, {"<", "<=", ">", ">="}, lower \X lower)
           \/ n \in Nodes({"And", "Or"}, STRING, lower \X lower)
  <2>1. \/ n \in Nodes({"Addsub"}, {"+", "-"}, kept \X kept)
        \/ n \in Nodes({"Divstar"}, {"*", "/", "%"}, kept \X kept)
        \/ n \in Nodes({"Eq"}, {"==", "!="}, kept \X kept)
        \/ n \in Nodes({"Order"}, {"<", "<=", ">", ">="}, kept \X kept)
        \/ n \in Nodes({"And", "Or"}, STRING, kept \X kept)
    BY <1>7, <1>9 DEF Operators
  <2> QED  BY <2>1 DEF ExpNodes
<1> QED  BY <1>1, <1>2, <1>3, <1>4, <1>8, <1>9 DEF ExpNodes

\* What is an argument by its name alone.
LEMMA LoneArraysKept ==
    ASSUME NEW f, NEW lower, NEW kept
    PROVE  KeepsArrays(f, ExpNodes(NamingScope(f), lower), ExpNodes(Scope(f), kept))
<1> SUFFICES ASSUME NEW n \in ExpNodes(NamingScope(f), lower),
                    n.label = "Ident", n.child = <<>>, n.ident \in Scope(f).arrays
             PROVE  n \in ExpNodes(Scope(f), kept)
  BY DEF KeepsArrays, IsOnlyIdentifier
<1>1. n \notin CallNodes(NamingScope(f), lower)
  BY CallNodesAre DEF IsCallOver
<1>2. n \in Nodes({"Ident"}, NamingScope(f).values \cup NamingScope(f).arrays, NoChild)
  BY <1>1 DEF ExpNodes, OperandCalls, Nodes
<1>3. n.ident \in Scope(f).values \cup Scope(f).arrays /\ n.child \in NoChild
  BY DEF NoChild
<1>4. n \in Nodes({"Ident"}, Scope(f).values \cup Scope(f).arrays, NoChild)
  BY <1>2, <1>3, NodeKept
<1> QED  BY <1>4 DEF ExpNodes

LEMMA ExprClean ==
    ASSUME NEW f, InTables(f)
    PROVE  /\ Keeps(Expr(f), Exps(NamingScope(f)), Exps(Scope(f)))
           /\ KeepsArrays(f, Exps(NamingScope(f)), Exps(Scope(f)))
           /\ \A m \in Exps(NamingScope(f)) : m.label = "Ident" => m.ident \in STRING
<1> DEFINE F == {f.func.ident}
           N == ExpsUpTo(NamingScope(f))
           K == ExpsUpTo(Scope(f))
           upTo == ExprUpTo(f)
           IdentsNamed(h) == \A m \in N[h] : m.label = "Ident" => m.ident \in STRING
           S == {h \in 0 .. Height : Keeps(upTo[h], N[h], K[h]) /\ KeepsArrays(f, N[h], K[h]) /\ IdentsNamed(h)}
<1>1. ExpLevels(NamingScope(f), Height, N) /\ ExpLevels(Scope(f), Height, K)
  BY ExpLevelsAre
<1>2. \A h \in 0 .. Height : N[h] \subseteq ExpsUpTo(AnyScope)[h]
  BY NamingScopeIs, ExpsGrow
<1>3. \A h \in 0 .. Height : SoundBelow(F, upTo[h], N[h])
  <2>1. \A h \in 0 .. Height : SoundBelow(F, upTo[h], ExpsUpTo(AnyScope)[h])
    BY ExprLevelsSound
  <2> QED  BY <1>2, <2>1 DEF SoundBelow
<1>4. f.func.ident \in F
  OBVIOUS
<1> HIDE DEF N, K, upTo, F
<1>5. 0 \in S
  <2>1. N[0] = {} /\ 0 \in 0 .. Height
    BY <1>1, HeightAssumption DEF ExpLevels
  <2> QED  BY <2>1 DEF Keeps, KeepsArrays
<1>6. ASSUME NEW k \in 0 .. Height, k + 1 \in 0 .. Height, k \in S PROVE k + 1 \in S
  <2>1. k + 1 \in 1 .. Height /\ (k + 1) - 1 = k
    BY <1>6, HeightAssumption
  <2>2. N[k + 1] = ExpNodes(NamingScope(f), N[k]) /\ K[k + 1] = ExpNodes(Scope(f), K[k])
    BY <1>1, <2>1 DEF ExpLevels
  <2>3. KeepsArrays(f, N[k + 1], K[k + 1])
    BY <2>2, LoneArraysKept
  <2>4. IdentsNamed(k + 1)
    <3> SUFFICES ASSUME NEW m \in ExpNodes(NamingScope(f), N[k]), m.label = "Ident"
                 PROVE  m.ident \in STRING
      BY <2>2
    <3>1. \/ IsLeaf(NamingScope(f), m) \/ IsCallOver(NamingScope(f), N[k], m)
          \/ IsUnary(NamingScope(f), N[k], m) \/ IsBinary(N[k], m)
      BY ExpNodesAre
    <3> QED  BY <3>1, NamingScopeIs DEF IsLeaf, IsCallOver, IsUnary, IsBinary
  <2>5. ASSUME NEW n \in N[k + 1], NEW p \in Paths, Clean(upTo[k + 1][n, p]) PROVE n \in K[k + 1]
    <3>1. n \in ExpsUpTo(AnyScope)[k + 1]
      BY <1>2, <1>6
    <3>2. upTo[k + 1][n, p] = ExprOver(f, upTo[k], n, p)
      BY <2>1, <3>1, ExprChecksAre DEF upTo
    <3>3. Clean(ExprOver(f, upTo[k], n, p))
      BY <2>5, <3>2
    <3>4. Keeps(upTo[k], N[k], K[k]) /\ KeepsArrays(f, N[k], K[k]) /\ IdentsNamed(k)
      BY <1>6
    <3>5. SoundBelow(F, upTo[k], N[k])
      BY <1>3
    <3>6. n \in ExpNodes(NamingScope(f), N[k])
      BY <2>2
    <3>7. n \in ExpNodes(Scope(f), K[k])
      BY <1>4, <3>3, <3>4, <3>5, <3>6, ExprOverClean
    <3> QED  BY <2>2, <3>7
  <2>6. Keeps(upTo[k + 1], N[k + 1], K[k + 1])
    BY <2>5 DEF Keeps
  <2> QED  BY <1>6, <2>3, <2>4, <2>6
<1> HIDE DEF S
<1>7. 0 .. Height \subseteq S
  BY <1>5, <1>6, Reaches, HeightAssumption
<1>8. Height \in S
  BY <1>7, HeightAssumption
<1>9. Keeps(upTo[Height], N[Height], K[Height]) /\ KeepsArrays(f, N[Height], K[Height]) /\ IdentsNamed(Height)
  BY <1>8 DEF S
<1> QED  BY <1>9 DEF N, K, upTo, Expr, Exps

LEMMA SequenceClean ==
    ASSUME NEW I, NEW n, NEW first \in Nat \ {0}, Len(n.child) \in Nat, first <= Len(n.child) + 1,
           NEW p, Clean(Sequence(I, n, first, p)), NEW j \in first .. Len(n.child)
    PROVE  Clean(I[n.child[j], Append(p, j)])
<1> DEFINE count == Len(n.child) - first + 1
           rs == [i \in 1 .. count |-> I[n.child[first + i - 1], Append(p, first + i - 1)]]
           i0 == j - first + 1
<1>1. Sequence(I, n, first, p) = ThenAll(rs)
  BY DEF Sequence
<1>2. count \in Nat /\ i0 \in 1 .. count /\ first + i0 - 1 = j
  OBVIOUS
<1> HIDE DEF count, i0
<1>3. Len(rs) = count /\ rs[i0] = I[n.child[first + i0 - 1], Append(p, first + i0 - 1)]
  BY <1>2
<1> HIDE DEF rs
<1>4. Clean(rs[i0])
  BY <1>1, <1>2, <1>3, CleanThenAll
<1> QED  BY <1>2, <1>3, <1>4

\* The lists of `lower' with clean instructions are kept.
KeepsLists(I, lower, kept) ==
    \A m \in lower :
      m.label = "SuiteInstr" =>
        /\ Len(m.child) \in Nat
        /\ (\A j \in 1 .. Len(m.child) : \E q \in Paths : Clean(I[m.child[j], q])) => m \in kept

LEMMA SuiteInstrClean ==
    ASSUME NEW I, NEW lower, NEW kept, Keeps(I, lower, kept), KeepsLists(I, lower, kept),
           NEW n, NEW k \in Nat \ {0}, Len(n.child) \in Nat, k <= Len(n.child), n.child[k] \in lower,
           NEW p \in Paths, Clean(SuiteInstr(I, n, k, p))
    PROVE  n.child[k] \in kept
<1> DEFINE m == n.child[k]
<1>1. Append(p, k) \in Paths
  BY PathsGrow
<1>2. CASE m.label = "SuiteInstr"
  <2>1. Clean(Sequence(I, m, 1, Append(p, k)))
    BY <1>2 DEF SuiteInstr
  <2>2. Len(m.child) \in Nat
    BY <1>2 DEF KeepsLists
  <2> HIDE DEF m
  <2>3. ASSUME NEW j \in 1 .. Len(m.child) PROVE \E q \in Paths : Clean(I[m.child[j], q])
    <3>1. Clean(I[m.child[j], Append(Append(p, k), j)])
      <4>1. 1 <= Len(m.child) + 1 /\ 1 \in Nat \ {0}
        BY <2>2
      <4> QED  BY <2>1, <2>2, <4>1, SequenceClean
    <3>2. j \in Nat
      OBVIOUS
    <3>3. Append(Append(p, k), j) \in Paths
      BY <1>1, <3>2, PathsGrow
    <3> QED  BY <3>1, <3>3
  <2> QED  BY <1>2, <2>3 DEF KeepsLists, m
<1>3. CASE m.label # "SuiteInstr"
  <2>1. Clean(Sequence(I, n, k, p))
    BY <1>3 DEF SuiteInstr
  <2>2. k \in k .. Len(n.child) /\ k <= Len(n.child) + 1
    OBVIOUS
  <2>3. Clean(I[n.child[k], Append(p, k)])
    BY <2>1, <2>2, SequenceClean
  <2> QED  BY <1>1, <2>3 DEF Keeps
<1> QED  BY <1>2, <1>3

LEMMA AssignationClean ==
    ASSUME NEW f, InTables(f), NEW p \in Paths, NEW exps, exps = Exps(NamingScope(f)),
           NEW kept, kept = Exps(Scope(f)),
           NEW n, n.child \in TargetNodes(NamingScope(f), exps) \X exps, Clean(Assignation(f, n, p))
    PROVE  n.child \in TargetNodes(Scope(f), kept) \X kept
<1> DEFINE target == n.child[1]
           indexed == target.label = "ArrayLR"
           under == ArrayLR(f, Expr(f), target, Append(p, 1))
           place == If(indexed, under)
           value == Expr(f)[n.child[2], Append(p, 2)]
           last == IF TypeOf(f, target.ident) = "byte" /\ value.type = "num"
                   THEN Report(f, "WARN_IMPLICIT_INT_TO_CHAR", p)
                   ELSE If(value.type = "void", Report(f, "ERR_NO_VOID_EXPRESSION", p))
<1>1. Append(p, 1) \in Paths /\ Append(p, 2) \in Paths
  BY PathsGrow
<1>2. Keeps(Expr(f), exps, kept)
  BY ExprClean
<1>3. target \in TargetNodes(NamingScope(f), exps) /\ n.child[2] \in exps
  OBVIOUS
<1>4. /\ ~Clean(Report(f, "ERR_UNDECLARED_SYMBOL", Append(p, 1)))
      /\ ~Clean(Report(f, "ERR_NOT_AN_LVALUE", Append(p, 1)))
  BY CleanReport DEF Warnings
<1>5. Resolves(f, target.ident)
  BY <1>4 DEF Assignation
<1>6. indexed \/ Symbol(f, target.ident).kind = "value"
  BY <1>4, <1>5 DEF Assignation
<1>7. Clean(ThenAll(<<place, value, last>>))
  BY <1>5, <1>6 DEF Assignation
<1>8. Clean(place) /\ Clean(value)
  <2> HIDE DEF place, value, last
  <2> DEFINE rs == <<place, value, last>>
  <2>1. Len(rs) = 3 /\ rs[1] = place /\ rs[2] = value
    OBVIOUS
  <2>2. Clean(ThenAll(rs))
    BY <1>7
  <2> HIDE DEF rs
  <2>3. Clean(rs[1]) /\ Clean(rs[2])
    BY <2>1, <2>2, CleanThenAll
  <2> QED  BY <2>1, <2>3
<1>9. n.child[2] \in kept
  BY <1>1, <1>2, <1>3, <1>8 DEF Keeps
<1>10. target \in TargetNodes(Scope(f), kept)
  <2> HIDE DEF target
  <2>1. CASE target \in Nodes({"Ident"}, NamingScope(f).values, NoChild)
    <3>1. target.label = "Ident" /\ target.ident \in STRING /\ target.child \in NoChild
      BY <2>1, NamingScopeIs DEF Nodes
    <3>2. target.ident \in Scope(f).values
      BY <1>5, <1>6, <3>1, NamesOfScope
    <3>3. target \in Nodes({"Ident"}, Scope(f).values, NoChild)
      BY <2>1, <3>1, <3>2, NodeKept
    <3> QED  BY <3>3 DEF TargetNodes
  <2>2. CASE target \in Nodes({"ArrayLR"}, NamingScope(f).arrays, OneChild(exps))
    <3>1. target \in Nodes({"ArrayLR"}, STRING, OneChild(exps)) /\ indexed
      BY <2>2, NamingScopeIs DEF Nodes
    <3>2. Clean(under)
      BY <1>8, <3>1 DEF If
    <3>3. SoundBelow({f.func.ident}, Expr(f), exps)
      <4>1. Exps(NamingScope(f)) \subseteq Exps(AnyScope)
        BY NamingScopeIs, ExpsGrow, HeightAssumption DEF Exps
      <4>2. SoundBelow({f.func.ident}, Expr(f), Exps(AnyScope))
        BY ExprSound
      <4> QED  BY <4>1, <4>2 DEF SoundBelow
    <3>4. target \in Nodes({"ArrayLR"}, Scope(f).arrays, OneChild(kept))
      BY <1>1, <1>2, <3>1, <3>2, <3>3, ArrayLRClean
    <3> QED  BY <3>4 DEF TargetNodes
  <2> QED  BY <1>3, <2>1, <2>2 DEF TargetNodes, target
<1>11. n.child = <<target, n.child[2]>>
  OBVIOUS
<1> HIDE DEF target
<1> QED  BY <1>9, <1>10, <1>11

LEMMA InstrOverClean ==
    ASSUME NEW f, InTables(f), NEW I, NEW lower, NEW kept, Keeps(I, lower, kept),
           KeepsLists(I, lower, kept),
           NEW n \in InstrNodes(NamingScope(f), Exps(NamingScope(f)), lower),
           NEW p \in Paths, Clean(InstrOver(f, I, n, p))
    PROVE  n \in InstrNodes(Scope(f), Exps(Scope(f)), kept)
<1> DEFINE ns == NamingScope(f)
           s == Scope(f)
           exps == Exps(ns)
           keptExps == Exps(s)
           X == Expr(f)
           condition == X[n.child[1], Append(p, 1)]
<1>1. /\ Keeps(X, exps, keptExps) /\ KeepsArrays(f, exps, keptExps)
      /\ \A m \in exps : m.label = "Ident" => m.ident \in STRING
  BY ExprClean
<1>2. Append(p, 1) \in Paths
  BY PathsGrow
<1>3. n.child[1] \in exps /\ Clean(condition) => n.child[1] \in keptExps
  BY <1>1, <1>2 DEF Keeps
<1>4. ASSUME NEW k \in Nat \ {0}, Len(n.child) \in Nat, k <= Len(n.child), n.child[k] \in lower,
             Clean(SuiteInstr(I, n, k, p))
      PROVE  n.child[k] \in kept
  BY <1>4, SuiteInstrClean
<1>5. CASE n \in Nodes({"EmptyInstr"}, STRING, NoChild)
  BY <1>5 DEF InstrNodes
<1>6. CASE n \in ReturnNodes(ns, exps)
  <2>1. n.label = "Return" /\ n.ident \in STRING /\ n.child \in NoChild \cup OneChild(exps)
    BY <1>6 DEF ReturnNodes, Nodes
  <2>2. Clean(Return(f, n, p))
    BY <2>1 DEF InstrOver
  <2>3. s.returns = IF f.func.type = "void" THEN {0} ELSE {1}
    BY DEF Scope
  <2>4. ASSUME n.child = <<>> PROVE Len(n.child) \in s.returns
    <3>1. Clean(If(f.func.type # "void", Report(f, "ERR_MUST_RETURN_VALUE", p)))
      BY <2>2, <2>4 DEF Return
    <3>2. f.func.type = "void"
      <4>1. "ERR_MUST_RETURN_VALUE" \notin Warnings
        BY DEF Warnings
      <4> QED  BY <3>1, <4>1, CleanIf
    <3>3. Len(n.child) = 0
      BY <2>4
    <3> QED  BY <2>3, <3>2, <3>3
  <2>5. ASSUME n.child \in OneChild(exps)
        PROVE  n.child \in OneChild(keptExps) /\ Len(n.child) \in s.returns
    <3>1. n.child # <<>> /\ n.child[1] \in exps /\ Len(n.child) = 1
      BY <2>5, OneChildIs
    <3> DEFINE kind == IF condition.type = "void" THEN "ERR_RETURN_VOID_EXPR"
                       ELSE "ERR_RETURN_TYPE_NON_VOID"
               last == IF f.func.type = "byte" /\ condition.type = "num"
                       THEN Report(f, "WARN_IMPLICIT_INT_TO_CHAR", p)
                       ELSE If(f.func.type = "void", Report(f, kind, p))
    <3>2. Return(f, n, p) = Then(condition, last)
      BY <3>1 DEF Return
    <3> HIDE DEF condition
    <3>3. Clean(condition) /\ Clean(last)
      <4> HIDE DEF last
      <4> QED  BY <2>2, <3>2, CleanThen
    <3>4. f.func.type # "void"
      <4>1. ~Clean(Report(f, kind, p))
        BY CleanReport DEF Warnings
      <4> HIDE DEF kind
      <4> QED  BY <3>3, <4>1 DEF If
    <3>5. n.child \in OneChild(keptExps)
      <4>1. n.child[1] \in keptExps
        BY <1>3, <3>1, <3>3
      <4> QED  BY <2>5, <4>1 DEF OneChild
    <3> QED  BY <2>3, <3>1, <3>4, <3>5
  <2>6. n.child \in NoChild \cup OneChild(keptExps) /\ Len(n.child) \in s.returns
    BY <2>1, <2>4, <2>5 DEF NoChild
  <2>7. n \in Nodes({"Return"}, STRING, NoChild \cup OneChild(keptExps))
    <3>1. n \in Nodes({"Return"}, STRING, NoChild \cup OneChild(exps))
      BY <1>6 DEF ReturnNodes
    <3> QED  BY <2>1, <2>6, <3>1, NodeKept
  <2>8. n \in ReturnNodes(s, keptExps)
    BY <2>6, <2>7 DEF ReturnNodes
  <2> QED  BY <2>8 DEF InstrNodes
<1>7. CASE n \in Nodes({"Assignation"}, STRING, TargetNodes(ns, exps) \X exps)
  <2>1. n.label = "Assignation" /\ n.ident \in STRING /\ n.child \in TargetNodes(ns, exps) \X exps
    BY <1>7 DEF Nodes
  <2>2. Clean(Assignation(f, n, p))
    BY <2>1 DEF InstrOver
  <2>3. n.child \in TargetNodes(s, keptExps) \X keptExps
    BY <2>1, <2>2, AssignationClean
  <2>4. n \in Nodes({"Assignation"}, STRING, TargetNodes(s, keptExps) \X keptExps)
    BY <1>7, <2>1, <2>3, NodeKept
  <2> QED  BY <2>4 DEF InstrNodes
<1>8. CASE n \in CallNodes(ns, exps)
  <2>1. n.label = "Ident"
    BY <1>8, CallNodesAre DEF IsCallOver
  <2>2. Clean(FunctionCall(f, X, n, p))
    BY <2>1 DEF InstrOver
  <2>3. n \in CallNodes(s, keptExps)
    <3> HIDE DEF X, exps, keptExps
    <3> QED  BY <1>1, <1>8, <2>2, FunctionCallClean
  <2> QED  BY <2>3 DEF InstrNodes
<1>9. CASE n \in Nodes({"If"}, STRING, (exps \X lower) \cup (exps \X lower \X lower))
  <2>1. n.label = "If" /\ n.ident \in STRING /\ (n.child \in exps \X lower \/ n.child \in exps \X lower \X lower)
    BY <1>9 DEF Nodes
  <2> DEFINE second == SuiteInstr(I, n, 2, p)
             third == IF Len(n.child) = 3 THEN SuiteInstr(I, n, 3, p) ELSE Silent
             rs == <<condition, second, third>>
  <2>2. Clean(condition) /\ Clean(second) /\ Clean(third)
    <3>1. Clean(ThenAll(rs))
      BY <2>1 DEF InstrOver, IfInstr
    <3> HIDE DEF condition, second, third
    <3>2. Len(rs) = 3 /\ rs[1] = condition /\ rs[2] = second /\ rs[3] = third
      OBVIOUS
    <3> HIDE DEF rs
    <3>3. Clean(rs[1]) /\ Clean(rs[2]) /\ Clean(rs[3])
      BY <3>1, <3>2, CleanThenAll
    <3> QED  BY <3>2, <3>3
  <2>3. n.child \in (keptExps \X kept) \cup (keptExps \X kept \X kept)
    <3>1. CASE n.child \in exps \X lower
      <4>1. Len(n.child) = 2 /\ n.child[1] \in exps /\ n.child[2] \in lower
        BY <3>1, TwoChildrenAre
      <4>2. n.child[1] \in keptExps
        BY <1>3, <2>2, <4>1
      <4>3. n.child[2] \in kept
        <5>1. 2 \in Nat \ {0} /\ Len(n.child) \in Nat /\ 2 <= Len(n.child)
          BY <4>1
        <5> HIDE DEF condition
        <5> QED  BY <1>4, <2>2, <4>1, <5>1
      <4>4. n.child = <<n.child[1], n.child[2]>>
        BY <3>1
      <4> QED  BY <4>2, <4>3, <4>4
    <3>2. CASE n.child \in exps \X lower \X lower
      <4>1. Len(n.child) = 3 /\ n.child[1] \in exps /\ n.child[2] \in lower /\ n.child[3] \in lower
        BY <3>2, ThreeChildrenAre
      <4>2. n.child[1] \in keptExps
        BY <1>3, <2>2, <4>1
      <4>3. n.child[2] \in kept
        <5>1. 2 \in Nat \ {0} /\ Len(n.child) \in Nat /\ 2 <= Len(n.child)
          BY <4>1
        <5> HIDE DEF condition
        <5> QED  BY <1>4, <2>2, <4>1, <5>1
      <4>4. n.child[3] \in kept
        <5>1. 3 \in Nat \ {0} /\ Len(n.child) \in Nat /\ 3 <= Len(n.child)
          BY <4>1
        <5>2. Clean(SuiteInstr(I, n, 3, p))
          BY <2>2, <4>1
        <5> QED  BY <1>4, <4>1, <5>1, <5>2
      <4>5. n.child = <<n.child[1], n.child[2], n.child[3]>>
        BY <3>2
      <4> QED  BY <4>2, <4>3, <4>4, <4>5
    <3> QED  BY <2>1, <3>1, <3>2
  <2>4. n \in Nodes({"If"}, STRING, (keptExps \X kept) \cup (keptExps \X kept \X kept))
    BY <1>9, <2>1, <2>3, NodeKept
  <2> QED  BY <2>4 DEF InstrNodes
<1>10. CASE n \in Nodes({"While"}, STRING, exps \X lower)
  <2>1. n.label = "While" /\ n.ident \in STRING /\ n.child \in exps \X lower
    BY <1>10 DEF Nodes
  <2>2. Len(n.child) = 2 /\ n.child[1] \in exps /\ n.child[2] \in lower
    BY <2>1, TwoChildrenAre
  <2>3. Clean(condition) /\ Clean(SuiteInstr(I, n, 2, p))
    BY <2>1, CleanThen DEF InstrOver, While
  <2>4. n.child[1] \in keptExps
    BY <1>3, <2>2, <2>3
  <2>5. n.child[2] \in kept
    <3>1. 2 \in Nat \ {0} /\ Len(n.child) \in Nat /\ 2 <= Len(n.child)
      BY <2>2
    <3> QED  BY <1>4, <2>2, <2>3, <3>1
  <2>6. n.child = <<n.child[1], n.child[2]>>
    BY <2>1
  <2>7. n.child \in keptExps \X kept
    BY <2>4, <2>5, <2>6
  <2>8. n \in Nodes({"While"}, STRING, keptExps \X kept)
    BY <1>10, <2>1, <2>7, NodeKept
  <2> QED  BY <2>8 DEF InstrNodes
<1>11. CASE n \in Nodes({"SuiteInstr"}, STRING, Seq(lower))
  <2>1. n.label = "SuiteInstr" /\ n.ident \in STRING /\ n.child \in Seq(lower)
    BY <1>11 DEF Nodes
  <2>2. Len(n.child) \in Nat /\ DOMAIN n.child = 1 .. Len(n.child) /\ 1 <= Len(n.child) + 1
        /\ 1 \in Nat \ {0}
    BY <2>1
  <2>3. Clean(Sequence(I, n, 1, p))
    BY <2>1 DEF InstrOver
  <2>4. \A j \in 1 .. Len(n.child) : n.child[j] \in kept
    <3> SUFFICES ASSUME NEW j \in 1 .. Len(n.child) PROVE n.child[j] \in kept
      OBVIOUS
    <3>1. Clean(I[n.child[j], Append(p, j)])
      BY <2>2, <2>3, SequenceClean
    <3>2. n.child[j] \in lower /\ j \in Nat
      BY <2>1, <2>2
    <3>3. Append(p, j) \in Paths
      BY <3>2, PathsGrow
    <3> QED  BY <3>1, <3>2, <3>3 DEF Keeps
  <2>5. n.child \in Seq(kept)
    BY <2>1, <2>2, <2>4
  <2>6. n \in Nodes({"SuiteInstr"}, STRING, Seq(kept))
    BY <1>11, <2>1, <2>5, NodeKept
  <2> QED  BY <2>6 DEF InstrNodes
<1> QED  BY <1>5, <1>6, <1>7, <1>8, <1>9, <1>10, <1>11 DEF InstrNodes

LEMMA InstrsNest ==
    ASSUME NEW s, NEW h \in 0 .. Height
    PROVE  \A g \in 0 .. h : InstrsUpTo(s)[g] \subseteq InstrsUpTo(s)[h]
<1> DEFINE N == InstrsUpTo(s)
           S == {k \in 0 .. Height : \A g \in 0 .. k : N[g] \subseteq N[k]}
<1>1. \A k \in 1 .. Height : N[k - 1] \subseteq N[k]
  <2>1. Narrower(s, s)
    BY DEF Narrower
  <2> QED  BY <2>1, InstrsGrow
<1> HIDE DEF N
<1>2. 0 \in S
  BY HeightAssumption
<1>3. ASSUME NEW k \in 0 .. Height, k + 1 \in 0 .. Height, k \in S PROVE k + 1 \in S
  <2>1. k + 1 \in 1 .. Height /\ (k + 1) - 1 = k
    BY <1>3, HeightAssumption
  <2>2. N[k] \subseteq N[k + 1]
    BY <1>1, <2>1
  <2>3. \A g \in 0 .. k + 1 : g \in 0 .. k \/ g = k + 1
    OBVIOUS
  <2> QED  BY <1>3, <2>2, <2>3
<1> HIDE DEF S
<1>4. 0 .. Height \subseteq S
  BY <1>2, <1>3, Reaches, HeightAssumption
<1> QED  BY <1>4 DEF S, N

\* The checks of the height h keep the trees that are lower as well.
KeepsUpTo(f, h) ==
    \A g \in 0 .. h : Keeps(InstrUpTo(f)[h], InstrsUpTo(NamingScope(f))[g], InstrsUpTo(Scope(f))[g])

LEMMA ListsAreKept ==
    ASSUME NEW f, NEW h \in 0 .. Height, KeepsUpTo(f, h), NEW g \in 0 .. h
    PROVE  KeepsLists(InstrUpTo(f)[h], InstrsUpTo(NamingScope(f))[g], InstrsUpTo(Scope(f))[g])
<1> DEFINE N == InstrsUpTo(NamingScope(f))
           K == InstrsUpTo(Scope(f))
           I == InstrUpTo(f)[h]
           exps == Exps(NamingScope(f))
           keptExps == Exps(Scope(f))
<1>1. InstrLevels(NamingScope(f), exps, Height, N) /\ InstrLevels(Scope(f), keptExps, Height, K)
  BY InstrLevelsAre
<1>2. \A k \in 0 .. h : Keeps(I, N[k], K[k])
  BY DEF KeepsUpTo
<1> HIDE DEF N, K, I, exps, keptExps
<1> SUFFICES ASSUME NEW m \in N[g], m.label = "SuiteInstr"
             PROVE  /\ Len(m.child) \in Nat
                    /\ (\A j \in 1 .. Len(m.child) : \E q \in Paths : Clean(I[m.child[j], q])) => m \in K[g]
  BY DEF KeepsLists, N, K, I
<1>3. g # 0
  <2>1. N[0] = {}
    BY <1>1 DEF InstrLevels
  <2> QED  BY <2>1
<1>4. g \in 1 .. Height /\ g - 1 \in 0 .. h
  BY <1>3, HeightAssumption
<1>5. N[g] = InstrNodes(NamingScope(f), exps, N[g - 1]) /\ K[g] = InstrNodes(Scope(f), keptExps, K[g - 1])
  BY <1>1, <1>4 DEF InstrLevels
<1>6. m \in Nodes({"SuiteInstr"}, STRING, Seq(N[g - 1]))
  <2>1. m \notin CallNodes(NamingScope(f), exps)
    BY CallNodesAre DEF IsCallOver
  <2>2. m \in InstrNodes(NamingScope(f), exps, N[g - 1])
    BY <1>5
  <2> QED  BY <2>1, <2>2 DEF InstrNodes, ReturnNodes, Nodes
<1>7. m.ident \in STRING /\ m.child \in Seq(N[g - 1])
  BY <1>6 DEF Nodes
<1>8. Len(m.child) \in Nat /\ DOMAIN m.child = 1 .. Len(m.child)
  BY <1>7
<1>9. ASSUME \A j \in 1 .. Len(m.child) : \E q \in Paths : Clean(I[m.child[j], q]) PROVE m \in K[g]
  <2>1. \A j \in 1 .. Len(m.child) : m.child[j] \in N[g - 1]
    BY <1>7
  <2>2. Keeps(I, N[g - 1], K[g - 1])
    BY <1>2, <1>4
  <2>3. \A j \in 1 .. Len(m.child) : m.child[j] \in K[g - 1]
    BY <1>9, <2>1, <2>2 DEF Keeps
  <2>4. m.child \in Seq(K[g - 1])
    BY <1>7, <1>8, <2>3
  <2>5. m \in Nodes({"SuiteInstr"}, STRING, Seq(K[g - 1]))
    BY <1>6, <1>7, <2>4, NodeKept
  <2>6. m \in InstrNodes(Scope(f), keptExps, K[g - 1])
    BY <2>5 DEF InstrNodes
  <2> QED  BY <1>5, <2>6
<1> QED  BY <1>8, <1>9

LEMMA InstrClean ==
    ASSUME NEW f, InTables(f)
    PROVE  Keeps(Instr(f), Instrs(NamingScope(f)), Instrs(Scope(f)))
<1> DEFINE N == InstrsUpTo(NamingScope(f))
           K == InstrsUpTo(Scope(f))
           upTo == InstrUpTo(f)
           exps == Exps(NamingScope(f))
           keptExps == Exps(Scope(f))
           S == {h \in 0 .. Height : KeepsUpTo(f, h)}
<1>1. InstrLevels(NamingScope(f), exps, Height, N) /\ InstrLevels(Scope(f), keptExps, Height, K)
  BY InstrLevelsAre
<1>2. \A h \in 0 .. Height : N[h] \subseteq InstrsUpTo(AnyScope)[h]
  BY NamingScopeIs, InstrsGrow
<1>3. \A h \in 0 .. Height, g \in 0 .. Height : g <= h => N[g] \subseteq N[h]
  <2> SUFFICES ASSUME NEW h \in 0 .. Height, NEW g \in 0 .. Height, g <= h PROVE N[g] \subseteq N[h]
    OBVIOUS
  <2>1. g \in 0 .. h
    OBVIOUS
  <2> QED  BY <2>1, InstrsNest
<1>4. \A h \in 0 .. Height : h \in S <=> \A g \in 0 .. h : Keeps(upTo[h], N[g], K[g])
  BY DEF KeepsUpTo
<1>5. \A h \in S : \A g \in 0 .. h : Keeps(upTo[h], N[g], K[g]) /\ KeepsLists(upTo[h], N[g], K[g])
  BY ListsAreKept DEF KeepsUpTo
<1> HIDE DEF N, K, upTo, exps, keptExps, S
<1>6. N[0] = {} /\ 0 \in 0 .. Height
  BY <1>1, HeightAssumption DEF InstrLevels
<1>7. 0 \in S
  <2>1. Keeps(upTo[0], N[0], K[0])
    BY <1>6 DEF Keeps
  <2>2. \A g \in 0 .. 0 : g = 0
    OBVIOUS
  <2> QED  BY <1>4, <1>6, <2>1, <2>2
<1>8. ASSUME NEW k \in 0 .. Height, k + 1 \in 0 .. Height, k \in S PROVE k + 1 \in S
  <2>1. k + 1 \in 1 .. Height /\ (k + 1) - 1 = k
    BY <1>8, HeightAssumption
  <2>2. ASSUME NEW g \in 0 .. k + 1 PROVE Keeps(upTo[k + 1], N[g], K[g])
    <3>1. CASE g = 0
      BY <1>6, <3>1 DEF Keeps
    <3>2. CASE g # 0
      <4>1. g \in 1 .. Height /\ g - 1 \in 0 .. k /\ g \in 0 .. Height /\ g <= k + 1
        BY <1>8, <3>2, HeightAssumption
      <4>2. N[g] = InstrNodes(NamingScope(f), exps, N[g - 1])
            /\ K[g] = InstrNodes(Scope(f), keptExps, K[g - 1])
        BY <1>1, <4>1 DEF InstrLevels
      <4>3. Keeps(upTo[k], N[g - 1], K[g - 1]) /\ KeepsLists(upTo[k], N[g - 1], K[g - 1])
        BY <1>5, <1>8, <4>1
      <4>4. ASSUME NEW n \in N[g], NEW p \in Paths, Clean(upTo[k + 1][n, p]) PROVE n \in K[g]
        <5>1. n \in InstrsUpTo(AnyScope)[k + 1]
          BY <1>2, <1>3, <1>8, <4>1
        <5>2. upTo[k + 1][n, p] = InstrOver(f, upTo[k], n, p)
          BY <2>1, <5>1, InstrChecksAre DEF upTo
        <5>3. Clean(InstrOver(f, upTo[k], n, p))
          BY <4>4, <5>2
        <5>4. n \in InstrNodes(NamingScope(f), Exps(NamingScope(f)), N[g - 1])
          BY <4>2 DEF exps
        <5>5. n \in InstrNodes(Scope(f), Exps(Scope(f)), K[g - 1])
          BY <4>3, <5>3, <5>4, InstrOverClean
        <5> QED  BY <4>2, <5>5 DEF keptExps
      <4> QED  BY <4>4 DEF Keeps
    <3> QED  BY <3>1, <3>2
  <2> QED  BY <1>4, <1>8, <2>2
<1>9. 0 .. Height \subseteq S
  <2>1. \A k \in 0 .. Height : k + 1 \in 0 .. Height /\ k \in S => k + 1 \in S
    BY <1>8
  <2> QED  BY <1>7, <2>1, Reaches, HeightAssumption
<1>10. Height \in S /\ Height \in 0 .. Height
  BY <1>9, HeightAssumption
<1>11. Keeps(upTo[Height], N[Height], K[Height])
  BY <1>5, <1>10
<1> QED  BY <1>11 DEF N, K, upTo, Instr, Instrs

LEMMA RootClean ==
    ASSUME NEW f, InTables(f), NEW body \in Bodies(NamingScope(f)), Clean(Root(f, body))
    PROVE  body \in Bodies(Scope(f))
<1> DEFINE I == Instr(f)
           lower == Instrs(NamingScope(f))
           kept == Instrs(Scope(f))
<1>1. Keeps(I, lower, kept)
  BY InstrClean
<1>2. body \in Nodes({"SuiteInstr"}, STRING, Seq(lower))
  BY DEF Bodies
<1>3. Clean(Sequence(I, body, 1, <<>>))
  BY CleanThen DEF Root
<1> HIDE DEF I, lower, kept
<1>4. body.ident \in STRING /\ body.child \in Seq(lower)
  BY <1>2 DEF Nodes
<1>5. Len(body.child) \in Nat /\ DOMAIN body.child = 1 .. Len(body.child) /\ 1 <= Len(body.child) + 1
      /\ 1 \in Nat \ {0}
  BY <1>4
<1>6. \A j \in 1 .. Len(body.child) : body.child[j] \in kept
  <2> SUFFICES ASSUME NEW j \in 1 .. Len(body.child) PROVE body.child[j] \in kept
    OBVIOUS
  <2>1. Clean(I[body.child[j], Append(<<>>, j)])
    BY <1>3, <1>5, SequenceClean
  <2>2. body.child[j] \in lower /\ j \in Nat
    BY <1>4, <1>5
  <2>3. Append(<<>>, j) \in Paths
    <3>1. <<>> \in Paths
      BY DEF Paths
    <3> QED  BY <2>2, <3>1, PathsGrow
  <2> QED  BY <1>1, <2>1, <2>2, <2>3 DEF Keeps
<1>7. body.child \in Seq(kept)
  BY <1>4, <1>5, <1>6
<1>8. body \in Nodes({"SuiteInstr"}, STRING, Seq(kept))
  BY <1>2, <1>4, <1>7, NodeKept
<1> QED  BY <1>8 DEF Bodies, kept
-----------------------------------------------------------------------------
(* The invariant                                                           *)

\* Between two definitions the errors are those of the reports, and none of the
\* reports left the program.
SInv ==
    /\ phase \in {"start", "functions", "main", "done", "exited"}
    /\ prog.functions # <<>> => prog \in Sources /\ tables = ProgramTables(prog)
    /\ prog.functions = <<>> <=> phase = "start"
    /\ prog.functions \in Seq(Definitions)
    /\ next \in 1 .. Len(prog.functions) + 1
    /\ phase \in {"main", "done"} <=> (phase # "start" /\ next = Len(prog.functions) + 1)
    /\ log \in Seq(Reports(prog))
    /\ err \subseteq KindsOf(log)
    /\ phase # "exited" => err = KindsOf(log)
    /\ LeftAtFirstUndeclared

LEMMA ReportsAre == ASSUME NEW q PROVE Reports(q) = Said(DefinedNames(q) \cup {""})
  BY DEF Reports, Said, DefinedNames

LEMMA SaidGrows == ASSUME NEW F, NEW G, F \subseteq G PROVE Seq(Said(F)) \subseteq Seq(Said(G))
<1>1. Said(F) \subseteq Said(G)
  BY DEF Said
<1> QED  BY <1>1

\* What the check of the next definition returns.
LEMMA RootOfNext ==
    ASSUME SInv, phase = "functions"
    PROVE  LET r == Root(In(prog, tables, next), prog.functions[next].body)
           IN /\ r.log \in Seq(Reports(prog)) /\ r.err = KindsOf(r.log)
              /\ Stops(r) \subseteq 1 .. Len(r.log) /\ Stops(r) \subseteq Nat
              /\ next \in 1 .. Len(prog.functions)
<1> DEFINE f == In(prog, tables, next)
           d == prog.functions[next]
           F == DefinedNames(prog)
           r == Root(f, d.body)
<1>1. next \in 1 .. Len(prog.functions) /\ prog \in Sources /\ tables = ProgramTables(prog)
      /\ Len(prog.functions) \in Nat
  BY DEF SInv
<1>2. prog.functions \in Seq(Definitions) /\ prog.globals \in Seq(Declarations)
  BY <1>1, SourcesAssumption
<1>3. d \in Definitions /\ d.ident \in F
  BY <1>1, <1>2 DEF DefinedNames
<1>4. d.body \in Bodies(AnyScope)
  BY <1>3 DEF Definitions
<1>5. InTables(f) /\ f.func.ident \in F
  <2>1. /\ DOMAIN tables.functions = BuiltinNames \cup F
        /\ tables.globals \in Grown("global", DOMAIN tables.functions)
        /\ \A x \in DOMAIN tables.functions : IsFunctionST(tables.functions[x], x)
    BY <1>1, <1>2, ProgramTablesAre
  <2>2. f.globals = tables.globals /\ f.functions = tables.functions /\ f.func = tables.functions[d.ident]
    BY DEF In
  <2>3. IsFunctionST(f.func, d.ident)
    BY <1>3, <2>1, <2>2
  <2> HIDE DEF f, d, F
  <2> QED  BY <1>3, <2>1, <2>2, <2>3 DEF InTables, IsFunctionST
<1> HIDE DEF f, d, F
<1>6. Sound(F, r)
  BY <1>4, <1>5, RootSound
<1> HIDE DEF r
<1>7. r.log \in Seq(Said(F)) /\ r.err = KindsOf(r.log)
  BY <1>6 DEF Sound
<1>8. r.log \in Seq(Reports(prog))
  <2>1. F \subseteq DefinedNames(prog) \cup {""}
    BY DEF F
  <2> QED  BY <1>7, <2>1, SaidGrows, ReportsAre
<1>9. Stops(r) \subseteq 1 .. Len(r.log) /\ Stops(r) \subseteq Nat
  BY <1>7 DEF Stops
<1> QED  BY <1>1, <1>7, <1>8, <1>9 DEF f, d, r

LEMMA SInvInit == ASSUME Init PROVE SInv
<1>1. /\ prog.functions = <<>> /\ next = 1 /\ log = <<>> /\ err = {} /\ phase = "start"
  BY DEF Init
<1>2. /\ Len(prog.functions) = 0 /\ prog.functions \in Seq(Definitions)
      /\ log \in Seq(Reports(prog)) /\ DOMAIN log = {} /\ 1 \in 1 .. 0 + 1
  BY <1>1
<1>3. KindsOf(log) = {} /\ LeftAtFirstUndeclared
  BY <1>1, <1>2 DEF KindsOf, LeftAtFirstUndeclared
<1> QED  BY <1>1, <1>2, <1>3 DEF SInv

LEMMA SInvLoad == ASSUME SInv, Load PROVE SInv'
<1>1. PICK q \in Sources : prog' = q /\ tables' = ProgramTables(q)
  BY DEF Load
<1>2. /\ q.functions \in Seq(Definitions) /\ q.functions # <<>>
  BY SourcesAssumption
<1>3. Len(q.functions) \in Nat /\ Len(q.functions) # 0
  BY <1>2
<1>4. /\ phase = "start" /\ phase' = "functions" /\ next' = next /\ log' = log /\ err' = err
  BY DEF Load
<1>5. prog.functions = <<>> /\ next = 1 /\ err = KindsOf(log) /\ LeftAtFirstUndeclared
  <2>1. prog.functions = <<>> /\ next \in 1 .. Len(prog.functions) + 1
    BY <1>4 DEF SInv
  <2>2. Len(prog.functions) = 0
    BY <2>1
  <2> QED  BY <1>4, <2>1, <2>2 DEF SInv
<1>6. log \in Seq(Reports(q))
  <2>1. Reports(prog) = Said({""})
    <3>1. DefinedNames(prog) = {}
      <4>1. DOMAIN prog.functions = {}
        BY <1>5
      <4> QED  BY <4>1 DEF DefinedNames
    <3>2. {} \cup {""} = {""}
      OBVIOUS
    <3> QED  BY <3>1, <3>2, ReportsAre
  <2>2. log \in Seq(Said({""}))
    BY <2>1 DEF SInv
  <2>3. {""} \subseteq DefinedNames(q) \cup {""}
    OBVIOUS
  <2> QED  BY <2>2, <2>3, SaidGrows, ReportsAre
<1>7. LeftAtFirstUndeclared'
  BY <1>4, <1>5 DEF LeftAtFirstUndeclared
<1>8. next \in 1 .. Len(q.functions) + 1 /\ next # Len(q.functions) + 1
  BY <1>3, <1>5
<1> QED  BY <1>1, <1>2, <1>4, <1>5, <1>6, <1>7, <1>8 DEF SInv, KindsOf

\* A log behind another, as far as the exit is concerned.
LEMMA LogOfBoth ==
    ASSUME NEW S, NEW a \in Seq(S), NEW b \in Seq(S),
           \A i \in DOMAIN a : a[i][1] # "ERR_UNDECLARED_SYMBOL"
    PROVE  /\ a \o b \in Seq(S) /\ Len(a \o b) = Len(a) + Len(b)
           /\ KindsOf(a \o b) = KindsOf(a) \cup KindsOf(b)
           /\ \A i \in DOMAIN (a \o b) : (a \o b)[i][1] = "ERR_UNDECLARED_SYMBOL" =>
                \E j \in DOMAIN b : i = Len(a) + j /\ b[j][1] = "ERR_UNDECLARED_SYMBOL"
           /\ b # <<>> => /\ a \o b # <<>> /\ (a \o b)[Len(a) + Len(b)] = b[Len(b)]
<1>1. /\ DOMAIN (a \o b) = 1 .. Len(a) + Len(b) /\ DOMAIN a = 1 .. Len(a) /\ DOMAIN b = 1 .. Len(b)
      /\ Len(a) \in Nat /\ Len(b) \in Nat
      /\ \A i \in 1 .. Len(a) + Len(b) : (a \o b)[i] = IF i <= Len(a) THEN a[i] ELSE b[i - Len(a)]
      /\ a \o b \in Seq(S) /\ Len(a \o b) = Len(a) + Len(b)
  OBVIOUS
<1>2. KindsOf(a \o b) = KindsOf(a) \cup KindsOf(b)
  BY KindsOfBoth
<1>3. ASSUME NEW i \in DOMAIN (a \o b), (a \o b)[i][1] = "ERR_UNDECLARED_SYMBOL"
      PROVE  \E j \in DOMAIN b : i = Len(a) + j /\ b[j][1] = "ERR_UNDECLARED_SYMBOL"
  <2>1. CASE i <= Len(a)
    <3>1. i \in DOMAIN a /\ (a \o b)[i] = a[i]
      BY <1>1, <2>1
    <3> QED  BY <1>3, <3>1
  <2>2. CASE ~(i <= Len(a))
    <3>1. i - Len(a) \in DOMAIN b /\ (a \o b)[i] = b[i - Len(a)] /\ i = Len(a) + (i - Len(a))
      BY <1>1, <2>2
    <3> QED  BY <1>3, <3>1
  <2> QED  BY <2>1, <2>2
<1>4. b # <<>> => a \o b # <<>> /\ (a \o b)[Len(a) + Len(b)] = b[Len(b)]
  <2> SUFFICES ASSUME b # <<>> PROVE a \o b # <<>> /\ (a \o b)[Len(a) + Len(b)] = b[Len(b)]
    OBVIOUS
  <2>1. Len(b) > 0
    OBVIOUS
  <2>2. Len(a \o b) > 0 /\ Len(a) + Len(b) \in 1 .. Len(a) + Len(b) /\ ~(Len(a) + Len(b) <= Len(a))
        /\ (Len(a) + Len(b)) - Len(a) = Len(b)
    BY <1>1, <2>1
  <2> QED  BY <1>1, <2>2
<1> QED  BY <1>1, <1>2, <1>3, <1>4

LEMMA SInvDeclFonct == ASSUME SInv, DeclFonct PROVE SInv'
<1> DEFINE r == Root(In(prog, tables, next), prog.functions[next].body)
           R == Reports(prog)
<1>1. phase = "functions" /\ prog' = prog /\ tables' = tables
  BY DEF DeclFonct
<1>2. /\ r.log \in Seq(R) /\ r.err = KindsOf(r.log)
      /\ Stops(r) \subseteq 1 .. Len(r.log) /\ Stops(r) \subseteq Nat
      /\ next \in 1 .. Len(prog.functions)
  BY <1>1, RootOfNext
<1>3. /\ log \in Seq(R) /\ err = KindsOf(log) /\ prog.functions \in Seq(Definitions)
      /\ prog.functions # <<>> /\ prog \in Sources /\ tables = ProgramTables(prog)
      /\ \A i \in DOMAIN log : log[i][1] # "ERR_UNDECLARED_SYMBOL"
  BY <1>1 DEF SInv, LeftAtFirstUndeclared
<1>4. \/ /\ Stops(r) # {} /\ log' = log \o UpToExit(r) /\ phase' = "exited" /\ next' = next /\ err' = err
      \/ /\ Stops(r) = {} /\ log' = log \o r.log /\ err' = err \cup r.err /\ next' = next + 1
         /\ phase' = IF next = Len(prog.functions) THEN "main" ELSE phase
  BY DEF DeclFonct
<1> HIDE DEF r, R
<1>5. Len(prog.functions) \in Nat
  BY <1>3
<1>6. CASE Stops(r) # {}
  <2> DEFINE m == CHOOSE i \in Stops(r) : \A j \in Stops(r) : i <= j
             cut == UpToExit(r)
  <2>1. m \in Stops(r) /\ \A j \in Stops(r) : m <= j
    BY <1>2, <1>6, LeastNumber
  <2>2. cut = SubSeq(r.log, 1, m)
    BY DEF UpToExit
  <2>3. m \in 1 .. Len(r.log) /\ m \in Nat /\ r.log[m][1] = "ERR_UNDECLARED_SYMBOL"
    BY <1>2, <2>1 DEF Stops
  <2> HIDE DEF m, cut
  <2>4. /\ cut \in Seq(R) /\ Len(cut) = m /\ DOMAIN cut = 1 .. m
        /\ \A i \in 1 .. m : cut[i] = r.log[i]
    <3>1. m \in 0 .. Len(r.log) /\ Len(r.log) \in Nat
      BY <1>2, <2>3
    <3>2. cut \in Seq(R) /\ Len(cut) = m
      BY <1>2, <2>2, <2>3, <3>1, SubSeqProperties
    <3>3. \A i \in 1 .. m : cut[i] = r.log[i]
      BY <1>2, <2>2, <2>3, <3>1
    <3> QED  BY <3>2, <3>3
  <2>5. \A j \in DOMAIN cut : cut[j][1] = "ERR_UNDECLARED_SYMBOL" => j = m
    <3> SUFFICES ASSUME NEW j \in 1 .. m, cut[j][1] = "ERR_UNDECLARED_SYMBOL" PROVE j = m
      BY <2>4
    <3>1. j \in DOMAIN r.log /\ r.log[j][1] = "ERR_UNDECLARED_SYMBOL"
      BY <1>2, <2>3, <2>4
    <3>2. m <= j
      BY <2>1, <3>1 DEF Stops
    <3> QED  BY <2>3, <3>2
  <2>6. cut # <<>> /\ cut[m][1] = "ERR_UNDECLARED_SYMBOL"
    BY <2>3, <2>4
  <2>7. /\ log' \in Seq(R) /\ Len(log') = Len(log) + m /\ KindsOf(log') = KindsOf(log) \cup KindsOf(cut)
        /\ \A i \in DOMAIN log' : log'[i][1] = "ERR_UNDECLARED_SYMBOL" =>
             \E j \in DOMAIN cut : i = Len(log) + j /\ cut[j][1] = "ERR_UNDECLARED_SYMBOL"
        /\ log' # <<>> /\ log'[Len(log) + m] = cut[m]
    <3>1. log' = log \o cut
      BY <1>4, <1>6 DEF cut
    <3>2. LET new == log \o cut
          IN /\ new \in Seq(R) /\ Len(new) = Len(log) + Len(cut)
             /\ KindsOf(new) = KindsOf(log) \cup KindsOf(cut)
             /\ \A i \in DOMAIN new : new[i][1] = "ERR_UNDECLARED_SYMBOL" =>
                  \E j \in DOMAIN cut : i = Len(log) + j /\ cut[j][1] = "ERR_UNDECLARED_SYMBOL"
             /\ cut # <<>> => new # <<>> /\ new[Len(log) + Len(cut)] = cut[Len(cut)]
      BY <1>3, <2>4, LogOfBoth
    <3> QED  BY <2>4, <2>6, <3>1, <3>2
  <2>8. phase' = "exited" /\ next' = next /\ err' = err
    BY <1>4, <1>6
  <2>9. LeftAtFirstUndeclared'
    BY <2>5, <2>6, <2>7, <2>8 DEF LeftAtFirstUndeclared
  <2>10. R' = R /\ Reports(prog)' = R
    BY <1>1 DEF R, Reports
  <2>11. KindsOf(log)' = KindsOf(log')
    OBVIOUS
  <2>12. next \in 1 .. Len(prog.functions) + 1 /\ next # Len(prog.functions) + 1
    BY <1>2, <1>5
  <2> QED  BY <1>1, <1>3, <2>7, <2>8, <2>9, <2>10, <2>11, <2>12 DEF SInv
<1>7. CASE Stops(r) = {}
  <2>1. \A j \in DOMAIN r.log : r.log[j][1] # "ERR_UNDECLARED_SYMBOL"
    BY <1>7 DEF Stops
  <2>2. /\ log' = log \o r.log /\ err' = err \cup r.err /\ next' = next + 1
        /\ phase' = IF next = Len(prog.functions) THEN "main" ELSE phase
    BY <1>4, <1>7
  <2>3. /\ log' \in Seq(R) /\ KindsOf(log') = KindsOf(log) \cup KindsOf(r.log)
        /\ \A i \in DOMAIN log' : log'[i][1] # "ERR_UNDECLARED_SYMBOL"
    BY <1>2, <1>3, <2>1, <2>2, LogOfBoth
  <2>4. phase' # "exited" /\ phase' \in {"functions", "main"} /\ phase' # "start"
    BY <1>1, <2>2
  <2>5. LeftAtFirstUndeclared'
    BY <2>3, <2>4 DEF LeftAtFirstUndeclared
  <2>6. Reports(prog)' = R
    BY <1>1 DEF R, Reports
  <2>7. err' = KindsOf(log') /\ KindsOf(log)' = KindsOf(log')
    BY <1>2, <1>3, <2>2, <2>3
  <2>8. /\ next' \in 1 .. Len(prog.functions) + 1
        /\ phase' = "main" <=> next' = Len(prog.functions) + 1
    BY <1>1, <1>2, <1>5, <2>2
  <2> QED  BY <1>1, <1>3, <2>3, <2>4, <2>5, <2>6, <2>7, <2>8 DEF SInv
<1> QED  BY <1>6, <1>7

\* What the check of main reports: errors, and no name that is not declared.
LEMMA MainErrorsAre ==
    ASSUME NEW t
    PROVE  LET errors == MainErrors(t)
           IN /\ errors \in Seq(Errors)
              /\ \A i \in DOMAIN errors : errors[i] # "ERR_UNDECLARED_SYMBOL"
<1> DEFINE S == {"ERR_MAIN_UNAVAILABLE", "ERR_MAIN_RETURN_TYPE", "ERR_MAIN_PARAM"}
           errors == MainErrors(t)
           a == IF t.functions["main"].type # "num" THEN <<"ERR_MAIN_RETURN_TYPE">> ELSE <<>>
           b == IF ParamCount(t.functions["main"]) > 0 THEN <<"ERR_MAIN_PARAM">> ELSE <<>>
<1>1. <<"ERR_MAIN_UNAVAILABLE">> \in Seq(S) /\ a \in Seq(S) /\ b \in Seq(S)
  <2>1. <<>> \in Seq(S)
    OBVIOUS
  <2>2. \A x \in S : <<x>> \in Seq(S)
    OBVIOUS
  <2>3. /\ a = <<"ERR_MAIN_RETURN_TYPE">> \/ a = <<>>
        /\ b = <<"ERR_MAIN_PARAM">> \/ b = <<>>
    OBVIOUS
  <2>4. "ERR_MAIN_UNAVAILABLE" \in S /\ "ERR_MAIN_RETURN_TYPE" \in S /\ "ERR_MAIN_PARAM" \in S
    OBVIOUS
  <2> HIDE DEF S, a, b
  <2> QED  BY <2>1, <2>2, <2>3, <2>4
<1>2. errors = IF "main" \notin DOMAIN t.functions THEN <<"ERR_MAIN_UNAVAILABLE">> ELSE a \o b
  BY DEF MainErrors
<1> HIDE DEF a, b, errors
<1>3. errors \in Seq(S)
  <2>1. a \o b \in Seq(S)
    BY <1>1
  <2> QED  BY <1>1, <1>2, <2>1
<1>4. S \subseteq Errors /\ "ERR_UNDECLARED_SYMBOL" \notin S
  BY DEF Errors
<1> HIDE DEF S
<1>5. errors \in Seq(Errors)
  BY <1>3, <1>4
<1>6. \A i \in DOMAIN errors : errors[i] \in S
  BY <1>3
<1> QED  BY <1>4, <1>5, <1>6 DEF errors

LEMMA SInvCheckMain == ASSUME SInv, CheckMain PROVE SInv'
<1> DEFINE errors == MainErrors(tables)
           said == [i \in DOMAIN errors |-> <<errors[i], "", <<>>>>]
           R == Reports(prog)
<1>1. /\ phase = "main" /\ phase' = "done" /\ prog' = prog /\ tables' = tables /\ next' = next
      /\ log' = log \o said /\ err' = err \cup Range(errors)
  BY DEF CheckMain
<1>2. errors \in Seq(Errors) /\ \A i \in DOMAIN errors : errors[i] # "ERR_UNDECLARED_SYMBOL"
  BY MainErrorsAre
<1>3. /\ log \in Seq(R) /\ err = KindsOf(log) /\ prog.functions \in Seq(Definitions)
      /\ prog.functions # <<>> /\ prog \in Sources /\ tables = ProgramTables(prog)
      /\ \A i \in DOMAIN log : log[i][1] # "ERR_UNDECLARED_SYMBOL"
      /\ next \in 1 .. Len(prog.functions) + 1 /\ next = Len(prog.functions) + 1
  BY <1>1 DEF SInv, LeftAtFirstUndeclared
<1> HIDE DEF errors
<1>4. /\ DOMAIN said = DOMAIN errors /\ \A i \in DOMAIN said : said[i][1] = errors[i]
      /\ said \in Seq(R)
  <2>1. DOMAIN errors = 1 .. Len(errors) /\ Len(errors) \in Nat
    BY <1>2
  <2>2. \A i \in DOMAIN errors : <<errors[i], "", <<>>>> \in R
    <3>1. <<>> \in Paths
      BY DEF Paths
    <3>2. \A i \in DOMAIN errors : errors[i] \in Errors \cup Warnings
      BY <1>2
    <3>3. "" \in DefinedNames(prog) \cup {""}
      OBVIOUS
    <3> QED  BY <3>1, <3>2, <3>3, ReportsAre DEF Said
  <2> HIDE DEF R
  <2>3. said \in [1 .. Len(errors) -> R]
    BY <2>1, <2>2
  <2>4. \A i \in DOMAIN said : said[i][1] = errors[i]
    OBVIOUS
  <2>5. said \in Seq(R)
    <3> HIDE DEF said
    <3> QED  BY <2>1, <2>3
  <2> QED  BY <2>4, <2>5
<1>5. KindsOf(said) = Range(errors)
  BY <1>4 DEF KindsOf, Range
<1> HIDE DEF said, R
<1>6. /\ log' \in Seq(R) /\ KindsOf(log') = KindsOf(log) \cup KindsOf(said)
      /\ \A i \in DOMAIN log' : log'[i][1] # "ERR_UNDECLARED_SYMBOL"
  <2>1. \A j \in DOMAIN said : said[j][1] # "ERR_UNDECLARED_SYMBOL"
    BY <1>2, <1>4
  <2> QED  BY <1>1, <1>3, <1>4, <2>1, LogOfBoth
<1>7. LeftAtFirstUndeclared'
  BY <1>1, <1>6 DEF LeftAtFirstUndeclared
<1>8. Reports(prog)' = R
  BY <1>1 DEF R, Reports
<1>9. err' = KindsOf(log') /\ KindsOf(log)' = KindsOf(log')
  BY <1>1, <1>3, <1>5, <1>6
<1> QED  BY <1>1, <1>3, <1>6, <1>7, <1>8, <1>9 DEF SInv

LEMMA SInvAlways == Spec => []SInv
<1>1. Init => SInv
  BY SInvInit
<1>2. SInv /\ [Next]_vars => SInv'
  <2> SUFFICES ASSUME SInv, [Next]_vars PROVE SInv'
    OBVIOUS
  <2>1. CASE Load
    BY <2>1, SInvLoad
  <2>2. CASE DeclFonct
    BY <2>2, SInvDeclFonct
  <2>3. CASE CheckMain
    BY <2>3, SInvCheckMain
  <2>4. CASE UNCHANGED vars
    BY <2>4 DEF SInv, vars, LeftAtFirstUndeclared, KindsOf, Reports
  <2> QED  BY <2>1, <2>2, <2>3, <2>4 DEF Next
<1> QED  BY <1>1, <1>2, PTL DEF Spec
-----------------------------------------------------------------------------
(* What is accepted is checked from one end to the other                    *)

\* The errors of the definitions that were read, and of main, are among those
\* that semantic.c returns.
CInv ==
    /\ SInv
    /\ phase # "exited" =>
         \A i \in 1 .. next - 1 : Root(In(prog, tables, i), prog.functions[i].body).err \subseteq err
    /\ phase = "done" => Range(MainErrors(tables)) \subseteq err

LEMMA CInvAlways == Spec => []CInv
<1>1. Init => CInv
  <2> SUFFICES ASSUME Init PROVE CInv
    OBVIOUS
  <2>1. SInv
    BY SInvInit
  <2>2. next = 1 /\ phase = "start"
    BY DEF Init
  <2> QED  BY <2>1, <2>2 DEF CInv
<1>2. CInv /\ [Next]_vars => CInv'
  <2> SUFFICES ASSUME CInv, [Next]_vars PROVE CInv'
    OBVIOUS
  <2> DEFINE Kept == \A i \in 1 .. next - 1 :
                       Root(In(prog, tables, i), prog.functions[i].body).err \subseteq err
  <2>1. SInv /\ next \in Nat
    <3>1. SInv
      BY DEF CInv
    <3>2. prog.functions \in Seq(Definitions) /\ next \in 1 .. Len(prog.functions) + 1
      BY <3>1 DEF SInv
    <3>3. Len(prog.functions) \in Nat
      BY <3>2
    <3> QED  BY <3>1, <3>2, <3>3
  <2>2. CASE Load
    <3>1. SInv'
      BY <2>1, <2>2, SInvLoad
    <3>2. phase = "start" /\ phase' = "functions" /\ next' = next
      BY <2>2 DEF Load
    <3>3. next = 1
      <4>1. prog.functions = <<>> /\ next \in 1 .. Len(prog.functions) + 1
        BY <2>1, <3>2 DEF SInv
      <4>2. Len(prog.functions) = 0
        BY <4>1
      <4> QED  BY <4>1, <4>2
    <3> QED  BY <3>1, <3>2, <3>3 DEF CInv
  <2>3. CASE DeclFonct
    <3> DEFINE r == Root(In(prog, tables, next), prog.functions[next].body)
    <3>1. SInv'
      BY <2>1, <2>3, SInvDeclFonct
    <3>2. phase = "functions" /\ prog' = prog /\ tables' = tables
      BY <2>3 DEF DeclFonct
    <3>3. \/ phase' = "exited"
          \/ /\ err' = err \cup r.err /\ next' = next + 1
             /\ phase' = IF next = Len(prog.functions) THEN "main" ELSE phase
      BY <2>3 DEF DeclFonct
    <3>4. Kept
      BY <3>2 DEF CInv
    <3>5. CASE phase' # "exited"
      <4>1. err' = err \cup r.err /\ next' = next + 1 /\ phase' # "done"
        BY <3>2, <3>3, <3>5
      <4>2. ASSUME NEW i \in 1 .. next
            PROVE  Root(In(prog, tables, i), prog.functions[i].body).err \subseteq err'
        <5>1. CASE i = next
          BY <4>1, <5>1
        <5>2. CASE i # next
          <6>1. i \in 1 .. next - 1
            BY <2>1, <5>2
          <6> QED  BY <3>4, <4>1, <6>1
        <5> QED  BY <5>1, <5>2
      <4>3. next' - 1 = next
        BY <2>1, <4>1
      <4> HIDE DEF r
      <4> QED  BY <3>1, <3>2, <4>1, <4>2, <4>3 DEF CInv
    <3> QED  BY <3>1, <3>3, <3>5 DEF CInv
  <2>4. CASE CheckMain
    <3>1. SInv'
      BY <2>1, <2>4, SInvCheckMain
    <3>2. /\ phase = "main" /\ phase' = "done" /\ prog' = prog /\ tables' = tables /\ next' = next
          /\ err' = err \cup Range(MainErrors(tables))
      BY <2>4 DEF CheckMain
    <3>3. Kept
      BY <3>2 DEF CInv
    <3>4. \A i \in 1 .. next - 1 :
             Root(In(prog, tables, i), prog.functions[i].body).err \subseteq err'
      BY <3>2, <3>3
    <3>5. Range(MainErrors(tables)) \subseteq err'
      BY <3>2
    <3> QED  BY <3>1, <3>2, <3>4, <3>5 DEF CInv
  <2>5. CASE UNCHANGED vars
    <3>1. SInv'
      BY <2>1, <2>5 DEF SInv, vars, LeftAtFirstUndeclared, KindsOf, Reports
    <3> QED  BY <2>5, <3>1 DEF CInv, vars
  <2> QED  BY <2>2, <2>3, <2>4, <2>5 DEF Next
<1> QED  BY <1>1, <1>2, PTL DEF Spec

LEMMA ScopesAre ==
    ASSUME NEW f, NEW g, f.globals = g.globals, f.functions = g.functions, f.func = g.func
    PROVE  Scope(f) = Scope(g) /\ NamingScope(f) = NamingScope(g)
<1>1. \A x : (Resolves(f, x) <=> Resolves(g, x)) /\ Symbol(f, x) = Symbol(g, x)
  BY DEF Resolves, Symbol, Home
<1>2. Scope(f) = Scope(g)
  <2>1. Scope(f).values = Scope(g).values
    BY <1>1 DEF Scope
  <2>2. Scope(f).arrays = Scope(g).arrays
    BY <1>1 DEF Scope
  <2>3. Scope(f).calls = Scope(g).calls
    BY <1>1 DEF Scope
  <2>4. /\ Scope(f).answers = Scope(g).answers /\ Scope(f).named = Scope(g).named
        /\ Scope(f).returns = Scope(g).returns
    BY DEF Scope
  <2>5. \A h \in {f, g} : Scope(h) = [values |-> Scope(h).values, arrays |-> Scope(h).arrays,
                                     calls |-> Scope(h).calls, answers |-> Scope(h).answers,
                                     named |-> Scope(h).named, returns |-> Scope(h).returns]
    BY DEF Scope
  <2> QED  BY <2>1, <2>2, <2>3, <2>4, <2>5
<1>3. NamingScope(f) = NamingScope(g)
  BY DEF NamingScope
<1> QED  BY <1>2, <1>3

LEMMA AcceptedTranslates == ASSUME CInv, Accepted, NamesArrays(prog) PROVE Translatable(prog)
<1>1. /\ prog \in Sources /\ tables = ProgramTables(prog) /\ prog.functions \in Seq(Definitions)
      /\ next = Len(prog.functions) + 1 /\ phase = "done"
  BY DEF CInv, SInv, Accepted
<1>2. \A i \in 1 .. next - 1 : Root(In(prog, tables, i), prog.functions[i].body).err \subseteq err
  BY <1>1 DEF CInv
<1> SUFFICES ASSUME NEW i \in DOMAIN prog.functions
             PROVE  prog.functions[i].body
                      \in Bodies(Scope(Within(ProgramTables(prog), prog.functions[i])))
  BY DEF Translatable
<1> DEFINE d == prog.functions[i]
           f == In(prog, tables, i)
           w == Within(tables, d)
<1>3. i \in 1 .. next - 1 /\ d \in Definitions /\ d.ident \in DefinedNames(prog)
  <2>1. Len(prog.functions) \in Nat /\ DOMAIN prog.functions = 1 .. Len(prog.functions)
    BY <1>1
  <2>2. next - 1 = Len(prog.functions)
    BY <1>1, <2>1
  <2> QED  BY <1>1, <2>1, <2>2 DEF DefinedNames
<1>4. Clean(Root(f, d.body))
  <2>1. Root(f, d.body).err \subseteq err
    BY <1>2, <1>3
  <2> QED  BY <2>1 DEF Clean, Accepted
<1>5. d.body \in Bodies(NamingScope(w))
  BY <1>1 DEF NamesArrays
<1>6. f.globals = tables.globals /\ f.functions = tables.functions /\ f.func = tables.functions[d.ident]
  BY DEF In
<1>7. w.globals = tables.globals /\ w.functions = tables.functions /\ w.func = tables.functions[d.ident]
  BY DEF Within
<1>8. InTables(f)
  <2>1. /\ DOMAIN tables.functions = BuiltinNames \cup DefinedNames(prog)
        /\ tables.globals \in Grown("global", DOMAIN tables.functions)
        /\ \A x \in DOMAIN tables.functions : IsFunctionST(tables.functions[x], x)
    BY <1>1, SourcesAssumption, ProgramTablesAre
  <2>2. IsFunctionST(f.func, d.ident)
    BY <1>3, <1>6, <2>1
  <2> HIDE DEF f, d
  <2> QED  BY <1>6, <2>1, <2>2 DEF InTables
<1> HIDE DEF f, d, w
<1>9. Scope(f) = Scope(w) /\ NamingScope(f) = NamingScope(w)
  BY <1>6, <1>7, ScopesAre
<1>10. d.body \in Bodies(Scope(f))
  <2>1. d.body \in Bodies(NamingScope(f))
    BY <1>5, <1>9
  <2> QED  BY <1>4, <1>8, <2>1, RootClean
<1> QED  BY <1>1, <1>9, <1>10 DEF d, w

LEMMA AcceptedHasMain ==
    ASSUME CInv, Accepted
    PROVE  \E i \in DOMAIN prog.functions : prog.functions[i].ident = "main"
<1>1. /\ prog \in Sources /\ tables = ProgramTables(prog) /\ prog.functions \in Seq(Definitions)
      /\ phase = "done" /\ Range(MainErrors(tables)) \subseteq err /\ err \subseteq Warnings
  BY DEF CInv, SInv, Accepted
<1>2. "main" \in DOMAIN tables.functions
  <2> SUFFICES ASSUME "main" \notin DOMAIN tables.functions PROVE FALSE
    OBVIOUS
  <2>1. MainErrors(tables) = <<"ERR_MAIN_UNAVAILABLE">>
    BY DEF MainErrors
  <2>2. "ERR_MAIN_UNAVAILABLE" \in Range(<<"ERR_MAIN_UNAVAILABLE">>)
    BY DEF Range
  <2>3. "ERR_MAIN_UNAVAILABLE" \notin Warnings
    BY DEF Warnings
  <2> QED  BY <1>1, <2>1, <2>2, <2>3
<1>3. DOMAIN tables.functions = BuiltinNames \cup DefinedNames(prog)
  BY <1>1, SourcesAssumption, ProgramTablesAre
<1>4. "main" \notin BuiltinNames
  BY DEF BuiltinNames, Builtins
<1>5. "main" \in DefinedNames(prog)
  BY <1>2, <1>3, <1>4
<1> QED  BY <1>5 DEF DefinedNames
-----------------------------------------------------------------------------
(* The properties                                                          *)

\* For every set of programs of the grammar and every height: the checks of
\* semantic.c go through the definitions in their order, print reports that
\* name one of its functions, and return only errors that were printed.
THEOREM Types == Spec => []TypeOK
<1>1. SInv => TypeOK
  BY DEF SInv, TypeOK
<1> QED  BY <1>1, SInvAlways, PTL

\* No operator, argument, branch or loop drops what the checks under it
\* return: when semantic.c ends, the errors are those of all that was printed.
THEOREM NoReportIsLost == Spec => []EveryReportCounts
<1>1. SInv => EveryReportCounts
  BY DEF SInv, EveryReportCounts
<1> QED  BY <1>1, SInvAlways, PTL

\* The exit of ST_resolve_from_node is at the first name that is not declared,
\* however deep in an expression it is, and there is no other exit.
THEOREM ExitIsAtFirstUndeclared == Spec => []LeftAtFirstUndeclared
<1>1. SInv => LeftAtFirstUndeclared
  BY DEF SInv
<1> QED  BY <1>1, SInvAlways, PTL

\* For every program of the grammar, as deep as it is: when semantic.c reports
\* nothing but warnings, and a name is given for every array, every name in the
\* definitions has the kind that codeWriter.c asserts it has, every call has the
\* arguments of its callee, and there is a main.
THEOREM AcceptedCanBeTranslated == Spec => []AcceptedIsTranslatable
<1>1. CInv => AcceptedIsTranslatable
  BY AcceptedTranslates, AcceptedHasMain DEF AcceptedIsTranslatable
<1> QED  BY <1>1, CInvAlways, PTL
=============================================================================
