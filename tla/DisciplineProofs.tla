--------------------------- MODULE DisciplineProofs ---------------------------
(***************************************************************************)
(* Proofs about Discipline, for all programs of the grammar: as long as    *)
(* the stack lasts and no element is written over a return address or a    *)
(* saved rbp, every function returns to its call with the frame of its     *)
(* caller, no statement leaves a word on the stack, and every variable is  *)
(* where it may be.                                                        *)
(*                                                                         *)
(* The first part is about texts: each instruction of a program has a      *)
(* site, the function it belongs to and the number of words that           *)
(* expressions have pushed when it begins, whatever way leads there.  The  *)
(* second part follows the registers and the memory along the sites.       *)
(***************************************************************************)
EXTENDS Discipline, MachineProofs

\* The level of an instruction: the words on the stack of its function; before
\* its frame is made, and after it is left, what of it there is; and the entry
\* point, that belongs to no function.
Framed == -1   \* rbp is that of the frame
Saved == -2    \* the rbp of the caller is saved
Entered == -3  \* the return address is on the stack
Outside == -4

Sites == STRING \X Int

\* The tables as they are read in the function x of the program p.
FnOf(p, x) == Within(ProgramTables(p), [ident |-> x])
Extra(fst) == ParamCount(fst) - InRegisters(fst)
FrameOf(f) == f.func.locals.next_addr

\* Where the words of variables may be: in the frame of the function, among the
\* arguments that its caller left, in the block of the program.
LocalPlaces(f) == {-(WordSize * k) : k \in 1 .. FrameOf(f) \div WordSize}
ArgumentPlaces(f) == {FirstStackParam + WordSize * k : k \in 0 .. Extra(f.func) - 1}
GlobalPlaces(f) == {WordSize * k : k \in 0 .. (f.globals.next_addr \div WordSize) - 1}
CellsOf(f) == {Mem("rbp", n) : n \in LocalPlaces(f) \cup ArgumentPlaces(f)}
              \cup {Mem("global_vars", n) : n \in GlobalPlaces(f)}
Results == {Reg(r) : r \in Registers \ {"rsp", "rbp"}}

\* The instruction x leads from the level d to the level e in the function f.
Follows(f, x, d, e) ==
    /\ x[1] = "push" =>
         IF x[2] = Reg("rbp") THEN d = Entered /\ e = Saved
         ELSE /\ d \in Nat /\ e = d + 1
              /\ x[2][1] = "mem" => x[2] \in CellsOf(f) \cup {Mem("rax", 0)}
    /\ x[1] = "pop" =>
         IF x[2] = Reg("rbp") THEN d = Framed /\ e = Entered
         ELSE d \in Nat /\ e \in Nat /\ d = e + 1 /\ x[2] \in Results \cup {Mem("rax", 0)}
    /\ x[1] = "mov" =>
         IF x[2] = Reg("rbp") THEN x[3] = Reg("rsp") /\ d = Saved /\ e = Framed
         ELSE IF x[2] = Reg("rsp") THEN x[3] = Reg("rbp") /\ d \in Nat /\ e = Framed
         ELSE /\ e = d /\ d \in Nat \cup {Outside}
              /\ x[2] \in Results \/ (d \in Nat /\ x[2] \in CellsOf(f))
    /\ x[1] \in {"add", "sub", "imul"} =>
         \/ x[2] \in Results /\ d \in Nat /\ e = d
         \/ x[1] = "sub" /\ x[2] = Reg("rsp") /\ x[3] = Imm(FrameOf(f)) /\ d = Framed /\ e = 0
         \/ /\ x[1] = "add" /\ x[2] = Reg("rsp") /\ d \in Nat /\ e \in Nat
            /\ \E n \in Nat : x[3] = Imm(n * WordSize) /\ d = e + n
    /\ x[1] \in {"neg", "lea"} => x[2] \in Results /\ d \in Nat /\ e = d
    /\ x[1] \in {"idiv", "cqo", "cmp", "sete", "movzx"} => d \in Nat /\ e = d
    /\ x[1] \in Jumps => d \in Nat /\ (x[1] # "jmp" => e = d)
    /\ x[1] = "label" => e = d /\ (x[2][2] \in StatementLabels => d = 0)
                         /\ (x[2][2] = "" => d \in {Entered, Outside})
    /\ x[1] = "call" =>
         /\ e = d
         /\ \E y \in DOMAIN f.functions :
              /\ x[2] = FunctionLabel(y)
              /\ \/ d \in Nat /\ Extra(f.functions[y]) <= d
                 \/ d = Outside /\ Extra(f.functions[y]) <= 0
    /\ x[1] = "ret" => d = Entered
    /\ x[1] = "syscall" => d = Outside

\* The instruction x of the site s comes before the site t; the code of another
\* function begins only where no instruction goes on to the next one.
Onward(p, x, s, t) ==
    /\ s \in Sites /\ t \in Sites
    /\ Follows(FnOf(p, s[1]), x, s[2], t[2])
    /\ x[1] \notin {"ret", "syscall"} => s[1] = t[1]
    /\ x[1] = "label" => IF s[2] = Outside THEN x[2] = FunctionLabel("_start")
                         ELSE x[2][1] = s[1] /\ x[2] # FunctionLabel("_start")

\* S gives the sites of the instructions of a text, and that behind the last one.
\* Its jumps go to labels with the sites that P tells, and the labels with the
\* sites of G are among its own.
Sited(p, text, S, P, G) ==
    /\ S \in [1 .. Len(text) + 1 -> Sites]
    /\ \A i \in 1 .. Len(text) :
         /\ Onward(p, text[i], S[i], S[i + 1])
         /\ text[i][1] \in Jumps => <<text[i][2], S[i]>> \in P
    /\ \A g \in G : \E i \in 1 .. Len(text) : text[i] = Label(g[1]) /\ S[i] = g[2]
Leads(p, text, s, t, P, G) ==
    /\ \E A : text \in Seq(A)
    /\ \E S : Sited(p, text, S, P, G) /\ S[1] = s /\ S[Len(text) + 1] = t
-----------------------------------------------------------------------------
(* Sites of texts                                                          *)

LEMMA LeadsNone ==
    ASSUME NEW p, NEW s \in Sites, NEW P
    PROVE  Leads(p, <<>>, s, s, P, {})
<1> DEFINE S == [i \in 1 .. 1 |-> s]
<1>1. Sited(p, <<>>, S, P, {}) /\ S[1] = s
  BY DEF Sited
<1>2. <<>> \in Seq({})
  OBVIOUS
<1> HIDE DEF S
<1>3. Len(<<>>) + 1 = 1
  OBVIOUS
<1> QED  BY <1>1, <1>2, <1>3 DEF Leads

LEMMA LeadsOne ==
    ASSUME NEW p, NEW x, NEW s, NEW t, Onward(p, x, s, t),
           NEW P, x[1] \in Jumps => <<x[2], s>> \in P
    PROVE  Leads(p, <<x>>, s, t, P, {})
<1> DEFINE text == <<x>>
           S == [i \in 1 .. 2 |-> IF i = 1 THEN s ELSE t]
<1>1. Len(text) = 1 /\ text[1] = x /\ text \in Seq({x}) /\ S[1] = s /\ S[2] = t
  OBVIOUS
<1>2. S \in [1 .. 2 -> Sites]
  BY DEF Onward
<1> HIDE DEF text, S
<1>3. Sited(p, text, S, P, {})
  BY <1>1, <1>2 DEF Sited
<1>4. Leads(p, text, s, t, P, {})
  BY <1>1, <1>3 DEF Leads
<1> QED  BY <1>4 DEF text

LEMMA LeadsLabel ==
    ASSUME NEW p, NEW l, NEW s, NEW t, Onward(p, Label(l), s, t), NEW P
    PROVE  Leads(p, <<Label(l)>>, s, t, P, {<<l, s>>})
<1> DEFINE x == Label(l)
           text == <<x>>
           S == [i \in 1 .. 2 |-> IF i = 1 THEN s ELSE t]
<1>0. x[1] = "label" /\ "label" \notin Jumps
  BY DEF Label, Jumps
<1> HIDE DEF x
<1>1. Len(text) = 1 /\ text[1] = x /\ text \in Seq({x}) /\ S[1] = s /\ S[2] = t
  OBVIOUS
<1>2. S \in [1 .. 2 -> Sites]
  BY DEF Onward
<1> HIDE DEF text, S
<1>3. \A g \in {<<l, s>>} : text[1] = Label(g[1]) /\ S[1] = g[2]
  BY <1>1 DEF x
<1>4. \A i \in 1 .. Len(text) : /\ Onward(p, text[i], S[i], S[i + 1])
                              /\ text[i][1] \in Jumps => <<text[i][2], S[i]>> \in P
  BY <1>0, <1>1 DEF x
<1>5. Sited(p, text, S, P, {<<l, s>>})
  BY <1>1, <1>2, <1>3, <1>4 DEF Sited
<1>6. Leads(p, text, s, t, P, {<<l, s>>})
  BY <1>1, <1>5 DEF Leads
<1> QED  BY <1>6 DEF text, x

LEMMA LeadsLess ==
    ASSUME NEW p, NEW text, NEW s, NEW t, NEW P, NEW G, Leads(p, text, s, t, P, G),
           NEW Q, P \subseteq Q, NEW H, H \subseteq G
    PROVE  Leads(p, text, s, t, Q, H)
<1>1. PICK S : Sited(p, text, S, P, G) /\ S[1] = s /\ S[Len(text) + 1] = t
  BY DEF Leads
<1>2. Sited(p, text, S, Q, H)
  BY <1>1 DEF Sited
<1> QED  BY <1>1, <1>2 DEF Leads

LEMMA LeadsBoth ==
    ASSUME NEW p, NEW a, NEW b, NEW s, NEW u, NEW t, NEW P, NEW G, NEW H,
           Leads(p, a, s, u, P, G), Leads(p, b, u, t, P, H)
    PROVE  Leads(p, a \o b, s, t, P, G \cup H)
<1>1. PICK S : Sited(p, a, S, P, G) /\ S[1] = s /\ S[Len(a) + 1] = u
  BY DEF Leads
<1>2. PICK T : Sited(p, b, T, P, H) /\ T[1] = u /\ T[Len(b) + 1] = t
  BY DEF Leads
<1>3. PICK A : a \in Seq(A)
  BY DEF Leads
<1>4. PICK B : b \in Seq(B)
  BY DEF Leads
<1> DEFINE m == Len(a)
           n == Len(b)
           c == a \o b
           R == [i \in 1 .. m + n + 1 |-> IF i <= m THEN S[i] ELSE T[i - m]]
<1>5. m \in Nat /\ n \in Nat /\ c \in Seq(A \cup B) /\ Len(c) = m + n
  BY <1>3, <1>4
<1>6. \A i \in 1 .. m : c[i] = a[i]
  BY <1>3, <1>4
<1>7. \A i \in 1 .. n : c[m + i] = b[i]
  BY <1>3, <1>4
<1>8. /\ S \in [1 .. m + 1 -> Sites] /\ T \in [1 .. n + 1 -> Sites]
      /\ S[m + 1] = T[1] /\ S[1] = s /\ T[n + 1] = t
  BY <1>1, <1>2 DEF Sited
<1> HIDE DEF c
<1>9. /\ R \in [1 .. m + n + 1 -> Sites]
      /\ \A i \in 1 .. m + 1 : R[i] = S[i]
      /\ \A i \in 1 .. n + 1 : R[m + i] = T[i]
  <2> HIDE DEF m, n
  <2>1. \A i \in 1 .. m + n + 1 : i <= m \/ i - m \in 1 .. n + 1
    BY <1>5
  <2>2. R \in [1 .. m + n + 1 -> Sites]
    BY <1>5, <1>8, <2>1
  <2>3. \A i \in 1 .. n + 1 : R[m + i] = T[i]
    BY <1>5
  <2>4. R[m + 1] = T[1]
    BY <1>5
  <2>5. \A i \in 1 .. m : R[i] = S[i]
    BY <1>5
  <2> HIDE DEF R
  <2>6. \A i \in 1 .. m + 1 : i \in 1 .. m \/ i = m + 1
    BY <1>5
  <2> QED  BY <1>8, <2>2, <2>3, <2>4, <2>5, <2>6
<1> HIDE DEF R
<1>10. ASSUME NEW i \in 1 .. m + n
       PROVE  Onward(p, c[i], R[i], R[i + 1]) /\ (c[i][1] \in Jumps => <<c[i][2], R[i]>> \in P)
  <2>1. CASE i \in 1 .. m
    <3>1. c[i] = a[i] /\ R[i] = S[i] /\ R[i + 1] = S[i + 1]
      BY <1>5, <1>6, <1>9, <2>1
    <3> QED  BY <1>1, <2>1, <3>1 DEF Sited
  <2>2. CASE i \notin 1 .. m
    <3> DEFINE k == i - m
    <3>1. k \in 1 .. n /\ m + k = i /\ m + (k + 1) = i + 1 /\ k \in 1 .. n + 1 /\ k + 1 \in 1 .. n + 1
      BY <1>5, <2>2
    <3> HIDE DEF k
    <3>2. c[i] = b[k] /\ R[i] = T[k] /\ R[i + 1] = T[k + 1]
      BY <1>7, <1>9, <3>1
    <3> QED  BY <1>2, <3>1, <3>2 DEF Sited
  <2> QED  BY <2>1, <2>2
<1>11. ASSUME NEW g \in G \cup H PROVE \E i \in 1 .. m + n : c[i] = Label(g[1]) /\ R[i] = g[2]
  <2>1. CASE g \in G
    <3>1. PICK i \in 1 .. m : a[i] = Label(g[1]) /\ S[i] = g[2]
      BY <1>1, <2>1 DEF Sited
    <3>2. i \in 1 .. m + n /\ i \in 1 .. m + 1
      BY <1>5
    <3> QED  BY <1>6, <1>9, <3>1, <3>2
  <2>2. CASE g \in H
    <3>1. PICK i \in 1 .. n : b[i] = Label(g[1]) /\ T[i] = g[2]
      BY <1>2, <2>2 DEF Sited
    <3>2. m + i \in 1 .. m + n /\ i \in 1 .. n + 1
      BY <1>5
    <3> QED  BY <1>7, <1>9, <3>1, <3>2
  <2> QED  BY <2>1, <2>2
<1>12. Sited(p, c, R, P, G \cup H)
  BY <1>5, <1>9, <1>10, <1>11 DEF Sited
<1>13. R[1] = s /\ R[Len(c) + 1] = t
  BY <1>5, <1>8, <1>9
<1>14. Leads(p, c, s, t, P, G \cup H)
  BY <1>5, <1>12, <1>13 DEF Leads
<1> QED  BY <1>14 DEF c

\* An instruction, then a text.
LEMMA LeadsNext ==
    ASSUME NEW p, NEW x, NEW s, NEW u, Onward(p, x, s, u),
           NEW P, x[1] \in Jumps => <<x[2], s>> \in P,
           NEW text, NEW t, NEW G, Leads(p, text, u, t, P, G)
    PROVE  Leads(p, <<x>> \o text, s, t, P, G)
<1>1. Leads(p, <<x>>, s, u, P, {})
  BY LeadsOne
<1>2. Leads(p, <<x>> \o text, s, t, P, {} \cup G)
  BY <1>1, LeadsBoth
<1>3. {} \cup G = G
  OBVIOUS
<1> QED  BY <1>2, <1>3

LEMMA BehindIt ==
    ASSUME NEW S, NEW a \in Seq(S), NEW b \in Seq(S)
    PROVE  /\ a \o b \in Seq(S) /\ Len(a \o b) = Len(a) + Len(b)
           /\ \A i \in 1 .. Len(a) : (a \o b)[i] = a[i]
           /\ \A i \in 1 .. Len(b) : (a \o b)[Len(a) + i] = b[i]
  OBVIOUS

LEMMA SameSequence ==
    ASSUME NEW S, NEW a \in Seq(S), NEW b \in Seq(S), Len(a) = Len(b),
           \A i \in 1 .. Len(a) : a[i] = b[i]
    PROVE  a = b
  OBVIOUS

LEMMA CutTwo == ASSUME NEW a, NEW b PROVE <<a>> \o <<b>> = <<a, b>>
<1> DEFINE S == {a, b}
           A == <<a>>
           B == <<b>>
           C == A \o B
<1>1. A \in Seq(S) /\ B \in Seq(S)
  OBVIOUS
<1>2. Len(A) = 1 /\ Len(B) = 1 /\ A[1] = a /\ B[1] = b
  OBVIOUS
<1> HIDE DEF A, B, S
<1>3. /\ C \in Seq(S) /\ Len(C) = Len(A) + Len(B)
      /\ \A i \in 1 .. Len(A) : C[i] = A[i]
      /\ \A i \in 1 .. Len(B) : C[Len(A) + i] = B[i]
  BY <1>1, BehindIt
<1> HIDE DEF C
<1>4. C \in Seq(S) /\ Len(C) = 2 /\ C[1] = a /\ C[1 + 1] = b
  BY <1>2, <1>3
<1>5. C = <<a, b>>
  BY <1>4
<1> QED  BY <1>5 DEF A, B, C

LEMMA CutThree ==
    ASSUME NEW a, NEW b, NEW c
    PROVE  <<a>> \o <<b, c>> = <<a, b, c>>
<1> DEFINE S == {a, b, c}
           A == <<a>>
           B == <<b, c>>
           D == <<a, b, c>>
           C == A \o B
<1>1. A \in Seq(S) /\ Len(A) = 1 /\ A[1] = a
  OBVIOUS
<1>2. B \in Seq(S) /\ Len(B) = 2 /\ B[1] = b /\ B[2] = c
  OBVIOUS
<1>3. D \in Seq(S) /\ Len(D) = 3 /\ D[1] = a /\ D[2] = b /\ D[3] = c
  OBVIOUS
<1> HIDE DEF S, A, B, D
<1>4. /\ C \in Seq(S) /\ Len(C) = Len(A) + Len(B)
      /\ \A k \in 1 .. Len(A) : C[k] = A[k]
      /\ \A k \in 1 .. Len(B) : C[Len(A) + k] = B[k]
  <2>1. A \in Seq(S) /\ B \in Seq(S)
    BY <1>1, <1>2
  <2> QED  BY <2>1, BehindIt
<1> HIDE DEF C
<1>5. Len(C) = 3 /\ C[1] = a
  BY <1>1, <1>2, <1>4
<1>6. C[1 + 1] = b /\ C[1 + 2] = c
  BY <1>1, <1>2, <1>4
<1>7. ASSUME NEW k \in 1 .. 3 PROVE C[k] = D[k]
  BY <1>3, <1>5, <1>6
<1>8. C = D
  BY <1>3, <1>4, <1>5, <1>7, SameSequence
<1> QED  BY <1>8 DEF A, B, C, D

LEMMA CutFour ==
    ASSUME NEW a, NEW b, NEW c, NEW d
    PROVE  <<a>> \o <<b, c, d>> = <<a, b, c, d>>
<1> DEFINE S == {a, b, c, d}
           A == <<a>>
           B == <<b, c, d>>
           D == <<a, b, c, d>>
           C == A \o B
<1>1. A \in Seq(S) /\ Len(A) = 1 /\ A[1] = a
  OBVIOUS
<1>2. B \in Seq(S) /\ Len(B) = 3 /\ B[1] = b /\ B[2] = c /\ B[3] = d
  OBVIOUS
<1>3. D \in Seq(S) /\ Len(D) = 4 /\ D[1] = a /\ D[2] = b /\ D[3] = c /\ D[4] = d
  OBVIOUS
<1> HIDE DEF S, A, B, D
<1>4. /\ C \in Seq(S) /\ Len(C) = Len(A) + Len(B)
      /\ \A k \in 1 .. Len(A) : C[k] = A[k]
      /\ \A k \in 1 .. Len(B) : C[Len(A) + k] = B[k]
  <2>1. A \in Seq(S) /\ B \in Seq(S)
    BY <1>1, <1>2
  <2> QED  BY <2>1, BehindIt
<1> HIDE DEF C
<1>5. Len(C) = 4 /\ C[1] = a
  BY <1>1, <1>2, <1>4
<1>6. C[1 + 1] = b /\ C[1 + 2] = c /\ C[1 + 3] = d
  BY <1>1, <1>2, <1>4
<1>7. ASSUME NEW k \in 1 .. 4 PROVE C[k] = D[k]
  BY <1>3, <1>5, <1>6
<1>8. C = D
  BY <1>3, <1>4, <1>5, <1>7, SameSequence
<1> QED  BY <1>8 DEF A, B, C, D

LEMMA CutFive ==
    ASSUME NEW a, NEW b, NEW c, NEW d, NEW e
    PROVE  <<a>> \o <<b, c, d, e>> = <<a, b, c, d, e>>
<1> DEFINE S == {a, b, c, d, e}
           A == <<a>>
           B == <<b, c, d, e>>
           D == <<a, b, c, d, e>>
           C == A \o B
<1>1. A \in Seq(S) /\ Len(A) = 1 /\ A[1] = a
  OBVIOUS
<1>2. B \in Seq(S) /\ Len(B) = 4 /\ B[1] = b /\ B[2] = c /\ B[3] = d /\ B[4] = e
  OBVIOUS
<1>3. D \in Seq(S) /\ Len(D) = 5 /\ D[1] = a /\ D[2] = b /\ D[3] = c /\ D[4] = d /\ D[5] = e
  OBVIOUS
<1> HIDE DEF S, A, B, D
<1>4. /\ C \in Seq(S) /\ Len(C) = Len(A) + Len(B)
      /\ \A k \in 1 .. Len(A) : C[k] = A[k]
      /\ \A k \in 1 .. Len(B) : C[Len(A) + k] = B[k]
  <2>1. A \in Seq(S) /\ B \in Seq(S)
    BY <1>1, <1>2
  <2> QED  BY <2>1, BehindIt
<1> HIDE DEF C
<1>5. Len(C) = 5 /\ C[1] = a
  BY <1>1, <1>2, <1>4
<1>6. C[1 + 1] = b /\ C[1 + 2] = c /\ C[1 + 3] = d /\ C[1 + 4] = e
  BY <1>1, <1>2, <1>4
<1>7. ASSUME NEW k \in 1 .. 5 PROVE C[k] = D[k]
  BY <1>3, <1>5, <1>6
<1>8. C = D
  BY <1>3, <1>4, <1>5, <1>7, SameSequence
<1> QED  BY <1>8 DEF A, B, C, D
-----------------------------------------------------------------------------
(* Sites of instructions                                                   *)

\* An instruction that is no jump.
Quiet(p, x, s, t) == Onward(p, x, s, t) /\ x[1] \notin Jumps

LEMMA QuietNext ==
    ASSUME NEW p, NEW x, NEW s, NEW u, Quiet(p, x, s, u),
           NEW P, NEW text, NEW t, NEW G, Leads(p, text, u, t, P, G)
    PROVE  Leads(p, <<x>> \o text, s, t, P, G)
  BY LeadsNext DEF Quiet

LEMMA SitesAre == \A o \in STRING, d \in Int : LET s == <<o, d>> IN s \in Sites /\ s[1] = o /\ s[2] = d
  BY DEF Sites

LEMMA LevelsAre == {Outside, Entered, Saved, Framed} \subseteq Int /\ Outside \notin {Entered, Saved, Framed}
  BY DEF Outside, Entered, Saved, Framed

LEMMA ResultsAre ==
    /\ \A r \in {"rax", "rcx", "rdx", "rdi", "rsi", "r8", "r9"} : Reg(r) \in Results
    /\ \A x \in Results : x # Reg("rsp") /\ x # Reg("rbp") /\ x[1] = "reg"
    /\ \A r, n : Mem(r, n) # Reg("rbp") /\ Mem(r, n) # Reg("rsp") /\ Mem(r, n)[1] = "mem"
    /\ \A n : Imm(n) # Reg("rbp") /\ Imm(n)[1] = "imm"
<1>1. \A r \in {"rax", "rcx", "rdx", "rdi", "rsi", "r8", "r9"} : Reg(r) \in Results
  BY DEF Results, Registers
<1>2. \A x \in Results : x # Reg("rsp") /\ x # Reg("rbp") /\ x[1] = "reg"
  BY DEF Results, Reg
<1>3. \A r, n : Mem(r, n) # Reg("rbp") /\ Mem(r, n) # Reg("rsp") /\ Mem(r, n)[1] = "mem"
  BY DEF Mem, Reg
<1>4. \A n : Imm(n) # Reg("rbp") /\ Imm(n)[1] = "imm"
  BY DEF Imm, Reg
<1> QED  BY <1>1, <1>2, <1>3, <1>4

LEMMA CellsAre ==
    ASSUME NEW f, NEW x \in CellsOf(f)
    PROVE  x[1] = "mem" /\ x # Reg("rbp") /\ x # Reg("rsp") /\ x[2] \in {"rbp", "global_vars"}
<1>1. \E b \in {"rbp", "global_vars"} : \E n : x = Mem(b, n)
  BY DEF CellsOf
<1> QED  BY <1>1, ResultsAre DEF Mem

LEMMA PushRule ==
    ASSUME NEW p, NEW o \in STRING, NEW d \in Nat, NEW x, x # Reg("rbp"),
           x[1] = "mem" => x \in CellsOf(FnOf(p, o)) \cup {Mem("rax", 0)}
    PROVE  Quiet(p, Push(x), <<o, d>>, <<o, d + 1>>)
<1>1. Push(x)[1] = "push" /\ Push(x)[2] = x
  BY DEF Push
<1>2. Follows(FnOf(p, o), Push(x), d, d + 1)
  BY <1>1 DEF Follows, Jumps
<1> QED  BY <1>1, <1>2 DEF Quiet, Onward, Sites, Jumps

LEMMA PopRule ==
    ASSUME NEW p, NEW o \in STRING, NEW d \in Nat, NEW x \in Results \cup {Mem("rax", 0)}
    PROVE  Quiet(p, Pop(x), <<o, d + 1>>, <<o, d>>)
<1>1. Pop(x)[1] = "pop" /\ Pop(x)[2] = x
  BY DEF Pop
<1>2. x # Reg("rbp")
  BY ResultsAre
<1>3. Follows(FnOf(p, o), Pop(x), d + 1, d)
  BY <1>1, <1>2 DEF Follows, Jumps
<1> QED  BY <1>1, <1>3 DEF Quiet, Onward, Sites, Jumps

LEMMA MovRule ==
    ASSUME NEW p, NEW o \in STRING, NEW d \in Nat \cup {Outside}, NEW x, NEW y,
           x \in Results \/ (d \in Nat /\ x \in CellsOf(FnOf(p, o)))
    PROVE  Quiet(p, Mov(x, y), <<o, d>>, <<o, d>>)
<1>1. Mov(x, y)[1] = "mov" /\ Mov(x, y)[2] = x /\ Mov(x, y)[3] = y
  BY DEF Mov
<1>2. x # Reg("rbp") /\ x # Reg("rsp")
  BY ResultsAre, CellsAre
<1>3. Follows(FnOf(p, o), Mov(x, y), d, d)
  BY <1>1, <1>2 DEF Follows, Jumps
<1> QED  BY <1>1, <1>3 DEF Quiet, Onward, Sites, Jumps, Outside

LEMMA ResultRule ==
    ASSUME NEW p, NEW o \in STRING, NEW d \in Nat, NEW x \in Results, NEW y,
           NEW op \in {"add", "sub", "imul", "neg", "lea"},
           NEW i, i[1] = op, i[2] = x
    PROVE  Quiet(p, i, <<o, d>>, <<o, d>>)
<1>1. Follows(FnOf(p, o), i, d, d)
  BY DEF Follows, Jumps
<1> QED  BY <1>1 DEF Quiet, Onward, Sites, Jumps

LEMMA SilentRule ==
    ASSUME NEW p, NEW o \in STRING, NEW d \in Nat,
           NEW i, i[1] \in {"idiv", "cqo", "cmp", "sete", "movzx"}
    PROVE  Quiet(p, i, <<o, d>>, <<o, d>>)
<1>1. Follows(FnOf(p, o), i, d, d)
  BY DEF Follows, Jumps
<1> QED  BY <1>1 DEF Quiet, Onward, Sites, Jumps

LEMMA JumpRule ==
    ASSUME NEW p, NEW o \in STRING, NEW d \in Nat, NEW c \in Jumps, NEW l,
           NEW e \in Int, c # "jmp" => e = d
    PROVE  Onward(p, Jump(c, l), <<o, d>>, <<o, e>>) /\ Jump(c, l)[2] = l
<1>1. Jump(c, l)[1] = c /\ Jump(c, l)[2] = l
  BY DEF Jump
<1>2. Follows(FnOf(p, o), Jump(c, l), d, e)
  BY <1>1 DEF Follows, Jumps
<1> QED  BY <1>1, <1>2 DEF Onward, Sites, Jumps

LEMMA LabelRule ==
    ASSUME NEW p, NEW o \in STRING, o # "_start", NEW d \in Nat, NEW name \in LocalNames, NEW n,
           name \in StatementLabels => d = 0
    PROVE  Onward(p, Label(<<o, name, n>>), <<o, d>>, <<o, d>>)
<1> DEFINE l == <<o, name, n>>
<1>1. Label(l)[1] = "label" /\ Label(l)[2] = l
  BY DEF Label
<1>2. l[1] = o /\ l[2] = name /\ name # "" /\ l # FunctionLabel("_start")
  BY DEF LocalNames, FunctionLabel
<1> DEFINE i == Label(l)
           s == <<o, d>>
<1> HIDE DEF l, i
<1>3. Follows(FnOf(p, o), i, d, d)
  BY <1>1, <1>2 DEF Follows, Jumps, i
<1>4. s \in Sites /\ s[1] = o /\ s[2] = d /\ d # Outside
  BY DEF Sites, Outside
<1> HIDE DEF s
<1>5. Onward(p, i, s, s)
  BY <1>1, <1>2, <1>3, <1>4 DEF Onward, i
<1>6. Onward(p, Label(l), <<o, d>>, <<o, d>>)
  BY <1>5 DEF i, s
<1> QED  BY <1>6 DEF l

LEMMA DropRule ==
    ASSUME NEW p, NEW o \in STRING, NEW d \in Nat, NEW n \in Nat
    PROVE  Quiet(p, Compute("add", "rsp", Imm(n * WordSize)), <<o, d + n>>, <<o, d>>)
<1> DEFINE i == Compute("add", "rsp", Imm(n * WordSize))
<1>1. i[1] = "add" /\ i[2] = Reg("rsp") /\ i[3] = Imm(n * WordSize)
  BY DEF Compute
<1> HIDE DEF i
<1>2. Follows(FnOf(p, o), i, d + n, d)
  BY <1>1 DEF Follows, Jumps
<1>3. Quiet(p, i, <<o, d + n>>, <<o, d>>)
  BY <1>1, <1>2 DEF Quiet, Onward, Sites, Jumps
<1> QED  BY <1>3 DEF i

LEMMA CallRule ==
    ASSUME NEW p, NEW o \in STRING, NEW y \in DOMAIN FnOf(p, o).functions,
           NEW d \in Nat \cup {Outside},
           \/ d \in Nat /\ Extra(FnOf(p, o).functions[y]) <= d
           \/ d = Outside /\ Extra(FnOf(p, o).functions[y]) <= 0
    PROVE  Quiet(p, <<"call", FunctionLabel(y)>>, <<o, d>>, <<o, d>>)
<1> DEFINE i == <<"call", FunctionLabel(y)>>
<1>1. i[1] = "call" /\ i[2] = FunctionLabel(y)
  OBVIOUS
<1> HIDE DEF i
<1>2. Follows(FnOf(p, o), i, d, d)
  BY <1>1 DEF Follows, Jumps
<1>3. Quiet(p, i, <<o, d>>, <<o, d>>)
  BY <1>1, <1>2 DEF Quiet, Onward, Sites, Jumps, Outside
<1> QED  BY <1>3 DEF i

\* Prologue, epilogue and the entry point.
LEMMA FrameRules ==
    ASSUME NEW p, NEW o \in STRING
    PROVE  /\ o # "_start" => Onward(p, Label(FunctionLabel(o)), <<o, Entered>>, <<o, Entered>>)
           /\ Quiet(p, Push(Reg("rbp")), <<o, Entered>>, <<o, Saved>>)
           /\ Quiet(p, Mov(Reg("rbp"), Reg("rsp")), <<o, Saved>>, <<o, Framed>>)
           /\ Quiet(p, Compute("sub", "rsp", Imm(FrameOf(FnOf(p, o)))), <<o, Framed>>, <<o, 0>>)
           /\ \A d \in Nat : Quiet(p, Mov(Reg("rsp"), Reg("rbp")), <<o, d>>, <<o, Framed>>)
           /\ Quiet(p, Pop(Reg("rbp")), <<o, Framed>>, <<o, Entered>>)
           /\ \A t \in Sites : Quiet(p, <<"ret">>, <<o, Entered>>, t)
           /\ \A t \in Sites : Quiet(p, <<"syscall">>, <<o, Outside>>, t)
           /\ Onward(p, Label(FunctionLabel("_start")), <<o, Outside>>, <<o, Outside>>)
<1> DEFINE f == FnOf(p, o)
           n == FrameOf(f)
<1> USE DEF Outside, Entered, Saved, Framed
<1>0. Reg("rsp") # Reg("rbp")
  BY DEF Reg
<1>1. o # "_start" => Onward(p, Label(FunctionLabel(o)), <<o, Entered>>, <<o, Entered>>)
  <2> SUFFICES ASSUME o # "_start" PROVE Onward(p, Label(FunctionLabel(o)), <<o, Entered>>, <<o, Entered>>)
    OBVIOUS
  <2> DEFINE l == FunctionLabel(o)
             i == Label(l)
  <2>1. i[1] = "label" /\ i[2] = l /\ l[1] = o /\ l[2] = "" /\ l # FunctionLabel("_start")
    BY DEF Label, FunctionLabel
  <2> HIDE DEF l, i, f
  <2>2. Follows(f, i, Entered, Entered)
    BY <2>1 DEF Follows, Jumps, StatementLabels
  <2> DEFINE s == <<o, Entered>>
  <2>3. s \in Sites /\ s[1] = o /\ s[2] = Entered /\ Entered # Outside
    BY DEF Sites
  <2> HIDE DEF s
  <2>4. Onward(p, i, s, s)
    BY <2>1, <2>2, <2>3 DEF Onward, f
  <2> QED  BY <2>4 DEF s, i, l
<1>2. Quiet(p, Push(Reg("rbp")), <<o, Entered>>, <<o, Saved>>)
  <2> DEFINE i == Push(Reg("rbp"))
  <2>1. i[1] = "push" /\ i[2] = Reg("rbp")
    BY DEF Push
  <2> HIDE DEF i, f
  <2>2. Follows(f, i, Entered, Saved)
    BY <2>1 DEF Follows, Jumps
  <2> QED  BY <2>1, <2>2 DEF Quiet, Onward, Sites, Jumps, f, i
<1>3. Quiet(p, Mov(Reg("rbp"), Reg("rsp")), <<o, Saved>>, <<o, Framed>>)
  <2> DEFINE i == Mov(Reg("rbp"), Reg("rsp"))
  <2>1. i[1] = "mov" /\ i[2] = Reg("rbp") /\ i[3] = Reg("rsp")
    BY DEF Mov
  <2> HIDE DEF i, f
  <2>2. Follows(f, i, Saved, Framed)
    BY <2>1 DEF Follows, Jumps
  <2> QED  BY <2>1, <2>2 DEF Quiet, Onward, Sites, Jumps, f, i
<1>4. Quiet(p, Compute("sub", "rsp", Imm(n)), <<o, Framed>>, <<o, 0>>)
  <2> DEFINE i == Compute("sub", "rsp", Imm(n))
  <2>1. i[1] = "sub" /\ i[2] = Reg("rsp") /\ i[3] = Imm(n)
    BY DEF Compute
  <2> HIDE DEF i, f
  <2>2. Follows(f, i, Framed, 0)
    BY <2>1 DEF Follows, Jumps
  <2> QED  BY <2>1, <2>2 DEF Quiet, Onward, Sites, Jumps, f, i
<1>5. ASSUME NEW d \in Nat PROVE Quiet(p, Mov(Reg("rsp"), Reg("rbp")), <<o, d>>, <<o, Framed>>)
  <2> DEFINE i == Mov(Reg("rsp"), Reg("rbp"))
  <2>1. i[1] = "mov" /\ i[2] = Reg("rsp") /\ i[3] = Reg("rbp")
    BY DEF Mov
  <2> HIDE DEF i, f
  <2>2. Follows(f, i, d, Framed)
    BY <1>0, <2>1 DEF Follows, Jumps
  <2> QED  BY <2>1, <2>2 DEF Quiet, Onward, Sites, Jumps, f, i
<1>6. Quiet(p, Pop(Reg("rbp")), <<o, Framed>>, <<o, Entered>>)
  <2> DEFINE i == Pop(Reg("rbp"))
  <2>1. i[1] = "pop" /\ i[2] = Reg("rbp")
    BY DEF Pop
  <2> HIDE DEF i, f
  <2>2. Follows(f, i, Framed, Entered)
    BY <2>1 DEF Follows, Jumps
  <2> QED  BY <2>1, <2>2 DEF Quiet, Onward, Sites, Jumps, f, i
<1>7. ASSUME NEW t \in Sites PROVE Quiet(p, <<"ret">>, <<o, Entered>>, t)
  <2>1. Follows(f, <<"ret">>, Entered, t[2])
    <3> HIDE DEF f
    <3> QED  BY DEF Follows, Jumps
  <2> QED  BY <2>1 DEF Quiet, Onward, Sites, Jumps
<1>8. ASSUME NEW t \in Sites PROVE Quiet(p, <<"syscall">>, <<o, Outside>>, t)
  <2>1. Follows(f, <<"syscall">>, Outside, t[2])
    <3> HIDE DEF f
    <3> QED  BY DEF Follows, Jumps
  <2> QED  BY <2>1 DEF Quiet, Onward, Sites, Jumps
<1>9. Onward(p, Label(FunctionLabel("_start")), <<o, Outside>>, <<o, Outside>>)
  <2> DEFINE l == FunctionLabel("_start")
             i == Label(l)
  <2>1. i[1] = "label" /\ i[2] = l /\ l[2] = ""
    BY DEF Label, FunctionLabel
  <2> HIDE DEF l, i, f
  <2>2. Follows(f, i, Outside, Outside)
    BY <2>1 DEF Follows, Jumps, StatementLabels
  <2> DEFINE s == <<o, Outside>>
  <2>3. Outside \in Int
    BY LevelsAre
  <2>5. s \in Sites /\ s[1] = o /\ s[2] = Outside
    BY <2>3, SitesAre
  <2> HIDE DEF s
  <2>4. Onward(p, i, s, s)
    <3> HIDE DEF Outside
    <3> QED  BY <2>1, <2>2, <2>5 DEF Onward, f, l
  <2> QED  BY <2>4 DEF s, i, l
<1> QED  BY <1>1, <1>2, <1>3, <1>4, <1>5, <1>6, <1>7, <1>8, <1>9
-----------------------------------------------------------------------------
(* Sites of pieces                                                         *)

\* r is a piece, and its text leads from one level of the function o to another.
Block(r) == r = [text |-> r.text, cmp |-> r.cmp, bool |-> r.bool] /\ r.cmp \in Nat /\ r.bool \in Nat
Way(p, o, r, d, e, P, G) == Block(r) /\ Leads(p, r.text, <<o, d>>, <<o, e>>, P, G)
\* It only jumps to labels of its own.
Whole(p, o, r, d, e) == \E G : Way(p, o, r, d, e, G, G)

LEMMA BlockIs ==
    ASSUME NEW r, Block(r)
    PROVE  /\ Behind(r) \in Counters
           /\ \A t : Emit(r, t) = [text |-> r.text \o t, cmp |-> r.cmp, bool |-> r.bool]
           /\ \A q : Then(q, r) = [text |-> q.text \o r.text, cmp |-> r.cmp, bool |-> r.bool]
           /\ [r EXCEPT !.cmp = @ + 1] = [text |-> r.text, cmp |-> r.cmp + 1, bool |-> r.bool]
<1>1. r \in [text : {r.text}, cmp : Nat, bool : Nat] /\ r.text \in {r.text}
  BY DEF Block
<1>2. Behind(r) \in Counters
  BY <1>1 DEF Behind, Counters
<1>3. ASSUME NEW u PROVE [r EXCEPT !.text = u] = [text |-> u, cmp |-> r.cmp, bool |-> r.bool]
  BY DEF Block
<1>4. \A t : Emit(r, t) = [text |-> r.text \o t, cmp |-> r.cmp, bool |-> r.bool]
  <2> TAKE t
  <2> DEFINE u == r.text \o t
  <2>1. Emit(r, t) = [r EXCEPT !.text = u]
    BY DEF Emit
  <2> HIDE DEF u
  <2> QED  BY <1>3, <2>1 DEF u
<1>5. \A q : Then(q, r) = [text |-> q.text \o r.text, cmp |-> r.cmp, bool |-> r.bool]
  <2> TAKE q
  <2> DEFINE u == q.text \o r.text
  <2>1. Then(q, r) = [r EXCEPT !.text = u]
    BY DEF Then
  <2> HIDE DEF u
  <2> QED  BY <1>3, <2>1 DEF u
<1>6. [r EXCEPT !.cmp = @ + 1] = [text |-> r.text, cmp |-> r.cmp + 1, bool |-> r.bool]
  BY DEF Block
<1> QED  BY <1>2, <1>4, <1>5, <1>6

LEMMA BlockMade ==
    ASSUME NEW t, NEW c \in Nat, NEW b \in Nat
    PROVE  LET r == [text |-> t, cmp |-> c, bool |-> b] IN Block(r) /\ r.text = t
  BY DEF Block

LEMMA WayWrite ==
    ASSUME NEW p, NEW o, NEW d, NEW e, NEW P, NEW G, NEW out, out.cmp \in Nat, out.bool \in Nat,
           NEW text, Leads(p, text, <<o, d>>, <<o, e>>, P, G)
    PROVE  Way(p, o, Write(text, out), d, e, P, G)
<1>1. Block(Write(text, out)) /\ Write(text, out).text = text
  BY BlockMade DEF Write
<1> QED  BY <1>1 DEF Way

LEMMA WayEmit ==
    ASSUME NEW p, NEW o, NEW d, NEW e, NEW k, NEW P, NEW G, NEW H, NEW r, Way(p, o, r, d, e, P, G),
           NEW text, Leads(p, text, <<o, e>>, <<o, k>>, P, H)
    PROVE  Way(p, o, Emit(r, text), d, k, P, G \cup H)
<1>1. Block(r) /\ Leads(p, r.text, <<o, d>>, <<o, e>>, P, G)
  BY DEF Way
<1>2. Leads(p, r.text \o text, <<o, d>>, <<o, k>>, P, G \cup H)
  BY <1>1, LeadsBoth
<1>3. Emit(r, text) = [text |-> r.text \o text, cmp |-> r.cmp, bool |-> r.bool]
  BY <1>1, BlockIs
<1>4. Block(Emit(r, text)) /\ Emit(r, text).text = r.text \o text
  BY <1>1, <1>3, BlockMade DEF Block
<1> QED  BY <1>2, <1>4 DEF Way

LEMMA WayThen ==
    ASSUME NEW p, NEW o, NEW d, NEW e, NEW k, NEW P, NEW G, NEW H, NEW r, Way(p, o, r, d, e, P, G),
           NEW s, Way(p, o, s, e, k, P, H)
    PROVE  Way(p, o, Then(r, s), d, k, P, G \cup H)
<1>1. Leads(p, r.text, <<o, d>>, <<o, e>>, P, G) /\ Block(s) /\ Leads(p, s.text, <<o, e>>, <<o, k>>, P, H)
  BY DEF Way
<1>2. Leads(p, r.text \o s.text, <<o, d>>, <<o, k>>, P, G \cup H)
  BY <1>1, LeadsBoth
<1>3. Then(r, s) = [text |-> r.text \o s.text, cmp |-> s.cmp, bool |-> s.bool]
  BY <1>1, BlockIs
<1>4. Block(Then(r, s)) /\ Then(r, s).text = r.text \o s.text
  BY <1>1, <1>3, BlockMade DEF Block
<1> QED  BY <1>2, <1>4 DEF Way

LEMMA WayLess ==
    ASSUME NEW p, NEW o, NEW d, NEW e, NEW P, NEW G, NEW r, Way(p, o, r, d, e, P, G),
           NEW Q, P \subseteq Q, NEW H, H \subseteq G
    PROVE  Way(p, o, r, d, e, Q, H)
  BY LeadsLess DEF Way

\* The counter of the labels of comparisons is no part of the text.
LEMMA WayCount ==
    ASSUME NEW p, NEW o, NEW d, NEW e, NEW P, NEW G, NEW r, Way(p, o, r, d, e, P, G)
    PROVE  Way(p, o, [r EXCEPT !.cmp = @ + 1], d, e, P, G)
<1> DEFINE q == [r EXCEPT !.cmp = @ + 1]
<1>1. Block(r) /\ r.cmp + 1 \in Nat /\ r.bool \in Nat
  BY DEF Way, Block
<1>2. q = [text |-> r.text, cmp |-> r.cmp + 1, bool |-> r.bool]
  BY <1>1, BlockIs
<1> HIDE DEF q
<1>3. Block(q) /\ q.text = r.text
  BY <1>1, <1>2, BlockMade
<1>4. Way(p, o, q, d, e, P, G)
  BY <1>3 DEF Way
<1> QED  BY <1>4 DEF q

LEMMA BehindWay ==
    ASSUME NEW p, NEW o, NEW d, NEW e, NEW P, NEW G, NEW r, Way(p, o, r, d, e, P, G)
    PROVE  Behind(r) \in Counters
  BY BlockIs DEF Way

LEMMA WholeWrite ==
    ASSUME NEW p, NEW o, NEW d, NEW e, NEW G, NEW out \in Counters, NEW text,
           Leads(p, text, <<o, d>>, <<o, e>>, G, G)
    PROVE  Whole(p, o, Write(text, out), d, e)
  BY WayWrite, CountersAre DEF Whole

LEMMA WholeThen ==
    ASSUME NEW p, NEW o, NEW d, NEW e, NEW k, NEW r, Whole(p, o, r, d, e), NEW s, Whole(p, o, s, e, k)
    PROVE  Whole(p, o, Then(r, s), d, k)
<1>1. PICK G : Way(p, o, r, d, e, G, G)
  BY DEF Whole
<1>2. PICK H : Way(p, o, s, e, k, H, H)
  BY DEF Whole
<1>3. Way(p, o, r, d, e, G \cup H, G) /\ Way(p, o, s, e, k, G \cup H, H)
  BY <1>1, <1>2, WayLess
<1>4. Way(p, o, Then(r, s), d, k, G \cup H, G \cup H)
  BY <1>3, WayThen
<1> QED  BY <1>4 DEF Whole

LEMMA WholeEmit ==
    ASSUME NEW p, NEW o, NEW d, NEW e, NEW k, NEW r, Whole(p, o, r, d, e),
           NEW H, NEW text, Leads(p, text, <<o, e>>, <<o, k>>, H, H)
    PROVE  Whole(p, o, Emit(r, text), d, k)
<1>1. PICK G : Way(p, o, r, d, e, G, G)
  BY DEF Whole
<1>2. Way(p, o, r, d, e, G \cup H, G)
  BY <1>1, WayLess
<1>3. Leads(p, text, <<o, e>>, <<o, k>>, G \cup H, H)
  BY LeadsLess
<1>4. Way(p, o, Emit(r, text), d, k, G \cup H, G \cup H)
  BY <1>2, <1>3, WayEmit
<1> QED  BY <1>4 DEF Whole

\* It jumps to labels of L that are not its own; its labels, but for those of M,
\* are where it jumps to.
Open(p, o, r, d, e, L, M) == \E G : Way(p, o, r, d, e, G \cup L, G \cup M)

LEMMA WholeOpen ==
    ASSUME NEW p, NEW o, NEW d, NEW e, NEW r, NEW L
    PROVE  /\ Whole(p, o, r, d, e) => Open(p, o, r, d, e, L, {})
           /\ Open(p, o, r, d, e, L, L) => Whole(p, o, r, d, e)
<1>1. ASSUME NEW G, Way(p, o, r, d, e, G, G) PROVE Open(p, o, r, d, e, L, {})
  <2>1. G \subseteq G \cup L /\ G \cup {} \subseteq G
    OBVIOUS
  <2>2. Way(p, o, r, d, e, G \cup L, G \cup {})
    BY <1>1, <2>1, WayLess
  <2> QED  BY <2>2 DEF Open
<1>2. ASSUME NEW G, Way(p, o, r, d, e, G \cup L, G \cup L) PROVE Whole(p, o, r, d, e)
  BY <1>2 DEF Whole
<1> QED  BY <1>1, <1>2 DEF Whole, Open

LEMMA OpenThen ==
    ASSUME NEW p, NEW o, NEW d, NEW e, NEW k, NEW L, NEW M, NEW N, NEW r, Open(p, o, r, d, e, L, M),
           NEW s, Open(p, o, s, e, k, L, N)
    PROVE  Open(p, o, Then(r, s), d, k, L, M \cup N)
<1>1. PICK G : Way(p, o, r, d, e, G \cup L, G \cup M)
  BY DEF Open
<1>2. PICK H : Way(p, o, s, e, k, H \cup L, H \cup N)
  BY DEF Open
<1>3. G \cup L \subseteq (G \cup H) \cup L /\ H \cup L \subseteq (G \cup H) \cup L
  OBVIOUS
<1>4. Way(p, o, r, d, e, (G \cup H) \cup L, G \cup M) /\ Way(p, o, s, e, k, (G \cup H) \cup L, H \cup N)
  BY <1>1, <1>2, <1>3, WayLess
<1>5. Way(p, o, Then(r, s), d, k, (G \cup H) \cup L, (G \cup M) \cup (H \cup N))
  BY <1>4, WayThen
<1>6. (G \cup M) \cup (H \cup N) = (G \cup H) \cup (M \cup N)
  OBVIOUS
<1> QED  BY <1>5, <1>6 DEF Open

LEMMA OpenEmit ==
    ASSUME NEW p, NEW o, NEW d, NEW e, NEW k, NEW L, NEW M, NEW N, NEW r, Open(p, o, r, d, e, L, M),
           NEW text, Leads(p, text, <<o, e>>, <<o, k>>, L, N)
    PROVE  Open(p, o, Emit(r, text), d, k, L, M \cup N)
<1>1. PICK G : Way(p, o, r, d, e, G \cup L, G \cup M)
  BY DEF Open
<1>2. Leads(p, text, <<o, e>>, <<o, k>>, G \cup L, N)
  BY LeadsLess
<1>3. Way(p, o, Emit(r, text), d, k, G \cup L, (G \cup M) \cup N)
  BY <1>1, <1>2, WayEmit
<1>4. (G \cup M) \cup N = G \cup (M \cup N)
  OBVIOUS
<1> QED  BY <1>3, <1>4 DEF Open

LEMMA OpenWrite ==
    ASSUME NEW p, NEW o, NEW d, NEW e, NEW L, NEW M, NEW out, out.cmp \in Nat, out.bool \in Nat,
           NEW text, Leads(p, text, <<o, d>>, <<o, e>>, L, M)
    PROVE  Open(p, o, Write(text, out), d, e, L, M)
<1>1. Way(p, o, Write(text, out), d, e, L, M)
  BY WayWrite
<1>2. {} \cup L = L /\ {} \cup M = M
  OBVIOUS
<1>3. Way(p, o, Write(text, out), d, e, {} \cup L, {} \cup M)
  BY <1>1, <1>2
<1> QED  BY <1>3 DEF Open

LEMMA BehindOpen == ASSUME NEW p, NEW o, NEW d, NEW e, NEW r, NEW L, NEW M, Open(p, o, r, d, e, L, M)
                    PROVE  Behind(r) \in Counters
  BY BehindWay DEF Open

LEMMA BehindWhole == ASSUME NEW p, NEW o, NEW d, NEW e, NEW r, Whole(p, o, r, d, e)
                     PROVE  Behind(r) \in Counters
  BY BehindWay DEF Whole

\* What is written for the trees of S leads from one level to another.
LeadsAll(p, o, X, S, d, e) == \A n \in S, out \in Counters : Whole(p, o, X[n, out], d, e)
\* Expressions leave one word more, instructions leave nothing.
Pushes(p, o, X, S) == \A d \in Nat : LeadsAll(p, o, X, S, d, d + 1)
Leaves(p, o, X, S) == LeadsAll(p, o, X, S, 0, 0)

LEMMA FollowedWhole ==
    ASSUME NEW p, NEW o, NEW X, NEW S, NEW d, NEW e, NEW k, LeadsAll(p, o, X, S, e, k), NEW n, n \in S,
           NEW r, Whole(p, o, r, d, e)
    PROVE  Whole(p, o, Followed(r, X, n), d, k)
<1>1. Behind(r) \in Counters
  BY BehindWhole
<1>2. Whole(p, o, X[n, Behind(r)], e, k)
  BY <1>1 DEF LeadsAll
<1> QED  BY <1>2, WholeThen DEF Followed

LEMMA EachOfThem ==
    ASSUME NEW X, NEW S, NEW list, list \in Seq(S), NEW out
    PROVE  \E g : /\ g[0] = Write(<<>>, out)
                  /\ \A k \in 1 .. Len(list) : g[k] = Followed(g[k - 1], X, list[k])
                  /\ Each(X, list, out) = g[Len(list)]
<1>1. Len(list) \in Nat
  OBVIOUS
<1> QED  BY <1>1, EachIs

\* The members of a list, at the levels that v gives.
LEMMA EachWhole ==
    ASSUME NEW p, NEW o \in STRING, NEW X, NEW S, NEW v \in [Nat -> Nat],
           \A k \in Nat : LeadsAll(p, o, X, S, v[k], v[k + 1]),
           NEW list \in Seq(S), NEW out \in Counters
    PROVE  Whole(p, o, Each(X, list, out), v[0], v[Len(list)])
<1> DEFINE n == Len(list)
<1>1. n \in Nat /\ \A k \in 1 .. n : list[k] \in S
  OBVIOUS
<1>2. PICK g : /\ g[0] = Write(<<>>, out)
               /\ \A k \in 1 .. n : g[k] = Followed(g[k - 1], X, list[k])
               /\ Each(X, list, out) = g[n]
  BY EachOfThem
<1> HIDE DEF n
<1> DEFINE R == {k \in 0 .. n : Whole(p, o, g[k], v[0], v[k])}
<1>3. 0 \in R
  <2>0. v[0] \in Int
    OBVIOUS
  <2>1. <<o, v[0]>> \in Sites
    BY <2>0, SitesAre
  <2>2. Leads(p, <<>>, <<o, v[0]>>, <<o, v[0]>>, {}, {})
    BY <2>1, LeadsNone
  <2>3. Whole(p, o, Write(<<>>, out), v[0], v[0])
    BY <2>2, WholeWrite
  <2>4. 0 \in 0 .. n
    BY <1>1
  <2> QED  BY <1>2, <2>3, <2>4
<1>4. ASSUME NEW k \in 0 .. n, k + 1 \in 0 .. n, k \in R PROVE k + 1 \in R
  <2>1. k + 1 \in 1 .. n /\ (k + 1) - 1 = k /\ k \in Nat
    BY <1>1, <1>4
  <2>2. g[k + 1] = Followed(g[k], X, list[k + 1]) /\ list[k + 1] \in S
    BY <1>1, <1>2, <2>1
  <2>3. Whole(p, o, g[k], v[0], v[k])
    BY <1>4
  <2>4. LeadsAll(p, o, X, S, v[k], v[k + 1])
    BY <2>1
  <2> DEFINE x == list[k + 1]
             r == g[k]
             d == v[0]
             e == v[k]
             h == v[k + 1]
  <2>5. x \in S /\ LeadsAll(p, o, X, S, e, h) /\ Whole(p, o, r, d, e)
    BY <2>2, <2>3, <2>4
  <2> HIDE DEF x, r, d, e, h
  <2>6. Whole(p, o, Followed(r, X, x), d, h)
    BY <2>5, FollowedWhole
  <2>7. Whole(p, o, g[k + 1], v[0], v[k + 1])
    BY <2>2, <2>6 DEF x, r, d, e, h
  <2> QED  BY <1>4, <2>7
<1> HIDE DEF R
<1>5. 0 .. n \subseteq R
  BY <1>1, <1>3, <1>4, Reaches
<1>6. n \in R
  BY <1>1, <1>5
<1> QED  BY <1>2, <1>6 DEF R, n
-----------------------------------------------------------------------------
(* Sites of the texts of the operations                                    *)

LEMMA QuietOne ==
    ASSUME NEW p, NEW a, NEW s, NEW t, Quiet(p, a, s, t), NEW P
    PROVE  Leads(p, <<a>>, s, t, P, {})
  BY LeadsOne DEF Quiet

LEMMA QuietTwo ==
    ASSUME NEW p, NEW a, NEW b, NEW s, NEW u, NEW t, Quiet(p, a, s, u), Quiet(p, b, u, t), NEW P
    PROVE  Leads(p, <<a, b>>, s, t, P, {})
<1>1. Leads(p, <<b>>, u, t, P, {})
  BY QuietOne
<1>2. Leads(p, <<a>> \o <<b>>, s, t, P, {})
  BY <1>1, QuietNext
<1> QED
  <2>1. <<a>> \o <<b>> = <<a, b>>
    BY CutTwo
  <2> QED  BY <1>2, <2>1

LEMMA QuietThree ==
    ASSUME NEW p, NEW a, NEW b, NEW c, NEW s, NEW u, NEW v, NEW t,
           Quiet(p, a, s, u), Quiet(p, b, u, v), Quiet(p, c, v, t), NEW P
    PROVE  Leads(p, <<a, b, c>>, s, t, P, {})
<1>1. Leads(p, <<b, c>>, u, t, P, {})
  BY QuietTwo
<1>2. Leads(p, <<a>> \o <<b, c>>, s, t, P, {})
  BY <1>1, QuietNext
<1> QED
  <2>1. <<a>> \o <<b, c>> = <<a, b, c>>
    BY CutThree
  <2> QED  BY <1>2, <2>1

LEMMA QuietFive ==
    ASSUME NEW p, NEW a, NEW b, NEW c, NEW d, NEW e, NEW s, NEW s1, NEW s2, NEW s3, NEW s4, NEW t,
           Quiet(p, a, s, s1), Quiet(p, b, s1, s2), Quiet(p, c, s2, s3), Quiet(p, d, s3, s4),
           Quiet(p, e, s4, t), NEW P
    PROVE  Leads(p, <<a, b, c, d, e>>, s, t, P, {})
<1>1. Leads(p, <<c, d, e>>, s2, t, P, {})
  BY QuietThree
<1>2. Leads(p, <<b>> \o <<c, d, e>>, s1, t, P, {})
  BY <1>1, QuietNext
<1>3. Leads(p, <<b, c, d, e>>, s1, t, P, {})
  <2>1. <<b>> \o <<c, d, e>> = <<b, c, d, e>>
    BY CutFour
  <2> QED  BY <1>2, <2>1
<1>4. Leads(p, <<a>> \o <<b, c, d, e>>, s, t, P, {})
  BY <1>3, QuietNext
<1> QED
  <2>1. <<a>> \o <<b, c, d, e>> = <<a, b, c, d, e>>
    BY CutFive
  <2> QED  BY <1>4, <2>1

LEMMA LabelNext ==
    ASSUME NEW p, NEW l, NEW s, NEW u, Onward(p, Label(l), s, u),
           NEW P, NEW text, NEW t, NEW G, Leads(p, text, u, t, P, G)
    PROVE  Leads(p, <<Label(l)>> \o text, s, t, P, {<<l, s>>} \cup G)
<1>1. Leads(p, <<Label(l)>>, s, u, P, {<<l, s>>})
  BY LeadsLabel
<1> QED  BY <1>1, LeadsBoth

\* The value on top is compared with zero.
LEMMA TestLeads ==
    ASSUME NEW p, NEW o \in STRING, NEW d \in Nat, NEW cond \in Jumps, cond # "jmp", NEW l,
           NEW P, <<l, <<o, d>>>> \in P
    PROVE  Leads(p, <<Pop(Reg("rax")), Compare("rax", Imm(0)), Jump(cond, l)>>, <<o, d + 1>>, <<o, d>>, P, {})
<1> DEFINE a == Pop(Reg("rax"))
           b == Compare("rax", Imm(0))
           c == Jump(cond, l)
<1>1. Quiet(p, a, <<o, d + 1>>, <<o, d>>)
  BY ResultsAre, PopRule
<1>2. Quiet(p, b, <<o, d>>, <<o, d>>)
  <2>1. b[1] = "cmp"
    BY DEF Compare
  <2> HIDE DEF b
  <2> QED  BY <2>1, SilentRule
<1>3. Onward(p, c, <<o, d>>, <<o, d>>) /\ c[2] = l
  <2>1. d \in Int
    OBVIOUS
  <2> QED  BY <2>1, JumpRule
<1> HIDE DEF a, b, c
<1>4. Leads(p, <<c>>, <<o, d>>, <<o, d>>, P, {})
  BY <1>3, LeadsOne
<1>5. Leads(p, <<b>> \o <<c>>, <<o, d>>, <<o, d>>, P, {})
  BY <1>2, <1>4, QuietNext
<1>6. Leads(p, <<b, c>>, <<o, d>>, <<o, d>>, P, {})
  <2>1. <<b>> \o <<c>> = <<b, c>>
    BY CutTwo
  <2> QED  BY <1>5, <2>1
<1>7. Leads(p, <<a>> \o <<b, c>>, <<o, d + 1>>, <<o, d>>, P, {})
  BY <1>1, <1>6, QuietNext
<1>8. Leads(p, <<a, b, c>>, <<o, d + 1>>, <<o, d>>, P, {})
  <2>1. <<a>> \o <<b, c>> = <<a, b, c>>
    BY CutThree
  <2> QED  BY <1>7, <2>1
<1> QED  BY <1>8 DEF a, b, c

LEMMA NotLeads ==
    ASSUME NEW p, NEW o \in STRING, NEW d \in Nat
    PROVE  Leads(p, Not, <<o, d + 1>>, <<o, d + 1>>, {}, {})
<1> DEFINE a == Pop(Reg("rdi"))
           b == Compare("rdi", Imm(0))
           c == <<"sete">>
           e == <<"movzx">>
           g == Push(Reg("rax"))
<1>1. Quiet(p, a, <<o, d + 1>>, <<o, d>>)
  BY ResultsAre, PopRule
<1>2. b[1] = "cmp" /\ c[1] = "sete" /\ e[1] = "movzx"
  BY DEF Compare
<1>3. Quiet(p, g, <<o, d>>, <<o, d + 1>>)
  <2>1. Reg("rax") \in Results
    BY ResultsAre
  <2> QED  BY <2>1, ResultsAre, PushRule
<1> HIDE DEF a, b, c, e, g
<1>4. Quiet(p, b, <<o, d>>, <<o, d>>) /\ Quiet(p, c, <<o, d>>, <<o, d>>) /\ Quiet(p, e, <<o, d>>, <<o, d>>)
  BY <1>2, SilentRule
<1>5. Leads(p, <<a, b, c, e, g>>, <<o, d + 1>>, <<o, d + 1>>, {}, {})
  BY <1>1, <1>3, <1>4, QuietFive
<1> QED  BY <1>5 DEF Not, a, b, c, e, g

LEMMA OperandsLeads ==
    ASSUME NEW p, NEW o \in STRING, NEW d \in Nat
    PROVE  Leads(p, Operands, <<o, (d + 1) + 1>>, <<o, d>>, {}, {})
<1>1. Quiet(p, Pop(Reg("rcx")), <<o, (d + 1) + 1>>, <<o, d + 1>>)
  <2>1. d + 1 \in Nat
    OBVIOUS
  <2> QED  BY <2>1, ResultsAre, PopRule
<1>2. Quiet(p, Pop(Reg("rax")), <<o, d + 1>>, <<o, d>>)
  BY ResultsAre, PopRule
<1> QED  BY <1>1, <1>2, QuietTwo DEF Operands

LEMMA OpeArithLeads ==
    ASSUME NEW p, NEW o \in STRING, NEW d \in Nat, NEW op \in {"+", "-", "*", "/", "%"}
    PROVE  Leads(p, OpeArith(op), <<o, (d + 1) + 1>>, <<o, d + 1>>, {}, {})
<1>0. Leads(p, Operands, <<o, (d + 1) + 1>>, <<o, d>>, {}, {})
  BY OperandsLeads
<1>1. ASSUME NEW r \in {"rax", "rdx"} PROVE Quiet(p, Push(Reg(r)), <<o, d>>, <<o, d + 1>>)
  <2>1. Reg(r) \in Results
    BY ResultsAre
  <2> QED  BY <2>1, ResultsAre, PushRule
<1>2. CASE op \in {"/", "%"}
  <2> DEFINE a == Mov(Reg("rdx"), Imm(0))
             b == <<"cqo">>
             c == <<"idiv", Reg("rcx")>>
             e == Push(Reg(IF op = "/" THEN "rax" ELSE "rdx"))
  <2>1. Quiet(p, a, <<o, (d + 1) + 1>>, <<o, (d + 1) + 1>>)
    <3>1. (d + 1) + 1 \in Nat /\ Reg("rdx") \in Results
      BY ResultsAre
    <3> QED  BY <3>1, MovRule
  <2>2. b[1] = "cqo" /\ c[1] = "idiv"
    OBVIOUS
  <2>3. Quiet(p, e, <<o, d>>, <<o, d + 1>>)
    BY <1>1
  <2>4. OpeArith(op) = <<a>> \o Operands \o <<b, c, e>>
    BY <1>2 DEF OpeArith
  <2> HIDE DEF a, b, c, e
  <2>5. Quiet(p, b, <<o, d>>, <<o, d>>) /\ Quiet(p, c, <<o, d>>, <<o, d>>)
    BY <2>2, SilentRule
  <2>6. Leads(p, <<b, c, e>>, <<o, d>>, <<o, d + 1>>, {}, {})
    BY <2>3, <2>5, QuietThree
  <2>7. Leads(p, <<a>> \o Operands, <<o, (d + 1) + 1>>, <<o, d>>, {}, {})
    BY <1>0, <2>1, QuietNext
  <2>8. {} \cup {} = {}
    OBVIOUS
  <2>9. Leads(p, (<<a>> \o Operands) \o <<b, c, e>>, <<o, (d + 1) + 1>>, <<o, d + 1>>, {}, {} \cup {})
    BY <2>6, <2>7, LeadsBoth
  <2> QED  BY <2>4, <2>8, <2>9
<1>3. CASE op \notin {"/", "%"}
  <2> DEFINE a == Compute(ArithInstr(op), "rax", Reg("rcx"))
             b == Push(Reg("rax"))
  <2>1. a[1] \in {"add", "sub", "imul"} /\ a[2] = Reg("rax") /\ Reg("rax") \in Results
    BY <1>3, ResultsAre DEF Compute, ArithInstr
  <2>2. Quiet(p, b, <<o, d>>, <<o, d + 1>>)
    BY <1>1
  <2>3. OpeArith(op) = Operands \o <<a, b>>
    BY <1>3 DEF OpeArith
  <2> HIDE DEF a, b
  <2>4. Quiet(p, a, <<o, d>>, <<o, d>>)
    BY <2>1, ResultRule
  <2>5. Leads(p, <<a, b>>, <<o, d>>, <<o, d + 1>>, {}, {})
    BY <2>2, <2>4, QuietTwo
  <2>6. {} \cup {} = {}
    OBVIOUS
  <2>7. Leads(p, Operands \o <<a, b>>, <<o, (d + 1) + 1>>, <<o, d + 1>>, {}, {} \cup {})
    BY <1>0, <2>5, LeadsBoth
  <2> QED  BY <2>3, <2>6, <2>7
<1> QED  BY <1>2, <1>3

LEMMA OpeUnaireLeads ==
    ASSUME NEW p, NEW o \in STRING, NEW d \in Nat, NEW op
    PROVE  Leads(p, OpeUnaire(op), <<o, d + 1>>, <<o, d + 1>>, {}, {})
<1>1. CASE op = "-"
  <2> DEFINE a == Pop(Reg("rax"))
             b == <<"neg", Reg("rax")>>
             c == Push(Reg("rax"))
  <2>0. Reg("rax") \in Results
    BY ResultsAre
  <2>1. Quiet(p, a, <<o, d + 1>>, <<o, d>>)
    BY <2>0, PopRule
  <2>2. b[1] = "neg" /\ b[2] = Reg("rax")
    OBVIOUS
  <2>3. Quiet(p, c, <<o, d>>, <<o, d + 1>>)
    BY <2>0, ResultsAre, PushRule
  <2>4. OpeUnaire(op) = <<a, b, c>>
    BY <1>1 DEF OpeUnaire
  <2> HIDE DEF a, b, c
  <2>5. Quiet(p, b, <<o, d>>, <<o, d>>)
    BY <2>0, <2>2, ResultRule
  <2> QED  BY <2>1, <2>3, <2>4, <2>5, QuietThree
<1>2. CASE op # "-"
  <2>1. OpeUnaire(op) = <<>>
    BY <1>2 DEF OpeUnaire
  <2>0. d + 1 \in Int
    OBVIOUS
  <2>2. <<o, d + 1>> \in Sites
    BY <2>0, SitesAre
  <2> QED  BY <2>1, <2>2, LeadsNone
<1> QED  BY <1>1, <1>2

LEMMA CutTen == ASSUME NEW a, NEW b, NEW c, NEW d, NEW e, NEW f, NEW g, NEW h, NEW i, NEW j
                PROVE  <<a, b, c, d, e>> \o <<f, g, h, i, j>> = <<a, b, c, d, e, f, g, h, i, j>>
<1> DEFINE S == {a, b, c, d, e, f, g, h, i, j}
           A == <<a, b, c, d, e>>
           B == <<f, g, h, i, j>>
           D == <<a, b, c, d, e, f, g, h, i, j>>
           C == A \o B
<1>1. A \in Seq(S) /\ Len(A) = 5 /\ A[1] = a /\ A[2] = b /\ A[3] = c /\ A[4] = d /\ A[5] = e
  OBVIOUS
<1>2. B \in Seq(S) /\ Len(B) = 5 /\ B[1] = f /\ B[2] = g /\ B[3] = h /\ B[4] = i /\ B[5] = j
  OBVIOUS
<1>3. D \in Seq(S) /\ Len(D) = 10
  OBVIOUS
<1>4. D[1] = a /\ D[2] = b /\ D[3] = c /\ D[4] = d /\ D[5] = e
  OBVIOUS
<1>5. D[6] = f /\ D[7] = g /\ D[8] = h /\ D[9] = i /\ D[10] = j
  OBVIOUS
<1> HIDE DEF S, A, B, D
<1>6. /\ C \in Seq(S) /\ Len(C) = Len(A) + Len(B)
      /\ \A k \in 1 .. Len(A) : C[k] = A[k]
      /\ \A k \in 1 .. Len(B) : C[Len(A) + k] = B[k]
  <2>1. A \in Seq(S) /\ B \in Seq(S)
    BY <1>1, <1>2
  <2> QED  BY <2>1, BehindIt
<1> HIDE DEF C
<1>7. Len(C) = 10
  BY <1>1, <1>2, <1>6
<1>8. C[1] = a /\ C[2] = b /\ C[3] = c /\ C[4] = d /\ C[5] = e
  BY <1>1, <1>6
<1>9. C[5 + 1] = f /\ C[5 + 2] = g /\ C[5 + 3] = h /\ C[5 + 4] = i /\ C[5 + 5] = j
  BY <1>1, <1>2, <1>6
<1>10. ASSUME NEW k \in 1 .. 10 PROVE C[k] = D[k]
  BY <1>4, <1>5, <1>8, <1>9
<1>11. C = D
  BY <1>3, <1>6, <1>7, <1>10, SameSequence
<1> QED  BY <1>11 DEF A, B, C, D

\* A jump to the end, the label of a branch.
LEMMA BranchLeads ==
    ASSUME NEW p, NEW o \in STRING, o # "_start", NEW d \in Nat, NEW e \in Nat,
           NEW end, NEW name \in LocalNames, NEW n, name \in StatementLabels => e = 0,
           NEW P, <<end, <<o, d>>>> \in P
    PROVE  LET l == <<o, name, n>>
           IN Leads(p, <<Jump("jmp", end), Label(l)>>, <<o, d>>, <<o, e>>, P, {<<l, <<o, e>>>>})
<1> DEFINE l == <<o, name, n>>
           a == Jump("jmp", end)
<1>1. Onward(p, a, <<o, d>>, <<o, e>>) /\ a[2] = end
  <2>1. "jmp" \in Jumps /\ e \in Int
    BY DEF Jumps
  <2> QED  BY <2>1, JumpRule
<1>2. Onward(p, Label(l), <<o, e>>, <<o, e>>)
  BY LabelRule
<1> HIDE DEF a, l
<1>3. Leads(p, <<Label(l)>>, <<o, e>>, <<o, e>>, P, {<<l, <<o, e>>>>})
  BY <1>2, LeadsLabel
<1>4. Leads(p, <<a>> \o <<Label(l)>>, <<o, d>>, <<o, e>>, P, {<<l, <<o, e>>>>})
  BY <1>1, <1>3, LeadsNext
<1>5. Leads(p, <<a, Label(l)>>, <<o, d>>, <<o, e>>, P, {<<l, <<o, e>>>>})
  <2>1. <<a>> \o <<Label(l)>> = <<a, Label(l)>>
    BY CutTwo
  <2> QED  BY <1>4, <2>1
<1> QED  BY <1>5 DEF a, l

LEMMA ImmRule == ASSUME NEW p, NEW o \in STRING, NEW d \in Nat, NEW n
                 PROVE  Quiet(p, Push(Imm(n)), <<o, d>>, <<o, d + 1>>)
  BY ResultsAre, PushRule

LEMMA CmpLeads ==
    ASSUME NEW p, NEW o \in STRING, o # "_start", NEW d \in Nat, NEW f, f.func.ident = o, NEW n,
           NEW op \in {"==", "!=", "<", "<=", ">", ">="}
    PROVE  \E L : Leads(p, Cmp(f, op, n), <<o, (d + 1) + 1>>, <<o, d + 1>>, L, L)
<1> DEFINE l == <<o, "cmp", n>>
           end == <<o, "cmp_end", n>>
           L == {<<l, <<o, d>>>>, <<end, <<o, d + 1>>>>}
           o1 == Pop(Reg("rax"))
           o2 == Pop(Reg("rcx"))
           o3 == Compare("rcx", Reg("rax"))
           o4 == Jump(Jcc(op), l)
           o5 == Push(Imm(0))
           o6 == Jump("jmp", end)
           o7 == Label(l)
           o8 == Push(Imm(1))
           o10 == Label(end)
           b == <<o, d>>
           t == <<o, d + 1>>
           z == <<o, (d + 1) + 1>>
<1>1. Cmp(f, op, n) = <<o1, o2, o3, o4, o5, o6, o7, o8, o6, o10>>
  BY DEF Cmp, Local
<1>2. Quiet(p, o1, z, t) /\ Quiet(p, o2, t, b) /\ Quiet(p, o3, b, b)
  <2>0. d + 1 \in Nat /\ Reg("rax") \in Results /\ Reg("rcx") \in Results
    BY ResultsAre
  <2>1. Quiet(p, o1, <<o, (d + 1) + 1>>, <<o, d + 1>>)
    BY <2>0, PopRule
  <2>2. Quiet(p, o2, <<o, d + 1>>, <<o, d>>)
    BY <2>0, PopRule
  <2>3. o3[1] = "cmp"
    BY DEF Compare
  <2> HIDE DEF o1, o2, o3
  <2>4. Quiet(p, o3, <<o, d>>, <<o, d>>)
    BY <2>3, SilentRule
  <2> QED  BY <2>1, <2>2, <2>4
<1>3. Onward(p, o4, b, b) /\ <<o4[2], b>> \in L
  <2>1. Jcc(op) \in Jumps /\ Jcc(op) # "jmp" /\ d \in Int
    BY DEF Jcc, Jumps
  <2> HIDE DEF l
  <2> QED  BY <2>1, JumpRule
<1>4. Quiet(p, o5, b, t) /\ Quiet(p, o8, b, t)
  BY ImmRule
<1>5. Onward(p, o6, t, b) /\ Onward(p, o6, t, t) /\ <<o6[2], t>> \in L
  <2>1. "jmp" \in Jumps /\ d + 1 \in Nat /\ d \in Int /\ d + 1 \in Int
    BY DEF Jumps
  <2> HIDE DEF end
  <2> QED  BY <2>1, JumpRule
<1>6. "cmp" \in LocalNames \ StatementLabels /\ "cmp_end" \in LocalNames \ StatementLabels
  BY DEF LocalNames, StatementLabels
<1>7. Onward(p, o7, b, b) /\ Onward(p, o10, t, t)
  <2>1. d + 1 \in Nat
    OBVIOUS
  <2> QED  BY <1>6, <2>1, LabelRule
<1>8. o7 = Label(l) /\ o10 = Label(end)
  OBVIOUS
<1>9. {<<l, b>>} \cup {<<end, t>>} = L
  BY DEF L, b, t
<1> HIDE DEF L, l, end, b, t, z, o1, o2, o3, o4, o5, o6, o7, o8, o10
<1>10. Leads(p, <<o5>>, b, t, L, {})
  BY <1>4, QuietOne
<1>11. Leads(p, <<o4>> \o <<o5>>, b, t, L, {})
  BY <1>3, <1>10, LeadsNext
<1>12. Leads(p, <<o4, o5>>, b, t, L, {})
  <2>1. <<o4>> \o <<o5>> = <<o4, o5>>
    BY CutTwo
  <2> QED  BY <1>11, <2>1
<1>13. Leads(p, <<o3>> \o <<o4, o5>>, b, t, L, {})
  BY <1>2, <1>12, QuietNext
<1>14. Leads(p, <<o3, o4, o5>>, b, t, L, {})
  <2>1. <<o3>> \o <<o4, o5>> = <<o3, o4, o5>>
    BY CutThree
  <2> QED  BY <1>13, <2>1
<1>15. Leads(p, <<o2>> \o <<o3, o4, o5>>, t, t, L, {})
  BY <1>2, <1>14, QuietNext
<1>16. Leads(p, <<o2, o3, o4, o5>>, t, t, L, {})
  <2>1. <<o2>> \o <<o3, o4, o5>> = <<o2, o3, o4, o5>>
    BY CutFour
  <2> QED  BY <1>15, <2>1
<1>17. Leads(p, <<o1>> \o <<o2, o3, o4, o5>>, z, t, L, {})
  BY <1>2, <1>16, QuietNext
<1>18. Leads(p, <<o1, o2, o3, o4, o5>>, z, t, L, {})
  <2>1. <<o1>> \o <<o2, o3, o4, o5>> = <<o1, o2, o3, o4, o5>>
    BY CutFive
  <2> QED  BY <1>17, <2>1
<1>19. Leads(p, <<o10>>, t, t, L, {<<end, t>>})
  BY <1>7, <1>8, LeadsLabel
<1>20. Leads(p, <<o6>> \o <<o10>>, t, t, L, {<<end, t>>})
  BY <1>5, <1>19, LeadsNext
<1>21. Leads(p, <<o6, o10>>, t, t, L, {<<end, t>>})
  <2>1. <<o6>> \o <<o10>> = <<o6, o10>>
    BY CutTwo
  <2> QED  BY <1>20, <2>1
<1>22. Leads(p, <<o8>> \o <<o6, o10>>, b, t, L, {<<end, t>>})
  BY <1>4, <1>21, QuietNext
<1>23. Leads(p, <<o8, o6, o10>>, b, t, L, {<<end, t>>})
  <2>1. <<o8>> \o <<o6, o10>> = <<o8, o6, o10>>
    BY CutThree
  <2> QED  BY <1>22, <2>1
<1>24. Leads(p, <<o7>> \o <<o8, o6, o10>>, b, t, L, L)
  BY <1>7, <1>8, <1>9, <1>23, LabelNext
<1>25. Leads(p, <<o7, o8, o6, o10>>, b, t, L, L)
  <2>1. <<o7>> \o <<o8, o6, o10>> = <<o7, o8, o6, o10>>
    BY CutFour
  <2> QED  BY <1>24, <2>1
<1>26. Leads(p, <<o6>> \o <<o7, o8, o6, o10>>, t, t, L, L)
  BY <1>5, <1>25, LeadsNext
<1>27. Leads(p, <<o6, o7, o8, o6, o10>>, t, t, L, L)
  <2>1. <<o6>> \o <<o7, o8, o6, o10>> = <<o6, o7, o8, o6, o10>>
    BY CutFive
  <2> QED  BY <1>26, <2>1
<1>28. Leads(p, <<o1, o2, o3, o4, o5>> \o <<o6, o7, o8, o6, o10>>, z, t, L, {} \cup L)
  BY <1>18, <1>27, LeadsBoth
<1>29. {} \cup L = L
  OBVIOUS
<1>30. Leads(p, <<o1, o2, o3, o4, o5, o6, o7, o8, o6, o10>>, z, t, L, L)
  <2>1. <<o1, o2, o3, o4, o5>> \o <<o6, o7, o8, o6, o10>> = <<o1, o2, o3, o4, o5, o6, o7, o8, o6, o10>>
    BY CutTen
  <2> QED  BY <1>28, <1>29, <2>1
<1> QED  BY <1>1, <1>30 DEF t, z

\* The two values of a logical operation.
LEMMA OutcomesLeads ==
    ASSUME NEW p, NEW o \in STRING, o # "_start", NEW d \in Nat, NEW n, NEW m, NEW k,
           NEW name \in {"bool_false", "bool_true"}
    PROVE  LET l == <<o, name, n>>
               end == <<o, "bool_end", n>>
               L == {<<l, <<o, d>>>>, <<end, <<o, d + 1>>>>}
           IN Leads(p, <<Push(Imm(m)), Jump("jmp", end), Label(l), Push(Imm(k)), Label(end)>>,
                    <<o, d>>, <<o, d + 1>>, L, L)
<1> DEFINE l == <<o, name, n>>
           end == <<o, "bool_end", n>>
           L == {<<l, <<o, d>>>>, <<end, <<o, d + 1>>>>}
           o1 == Push(Imm(m))
           o2 == Jump("jmp", end)
           o3 == Label(l)
           o4 == Push(Imm(k))
           o5 == Label(end)
           b == <<o, d>>
           t == <<o, d + 1>>
<1>1. Quiet(p, o1, b, t) /\ Quiet(p, o4, b, t)
  BY ImmRule
<1>2. Onward(p, o2, t, b) /\ <<o2[2], t>> \in L
  <2>1. "jmp" \in Jumps /\ d + 1 \in Nat /\ d \in Int
    BY DEF Jumps
  <2> HIDE DEF end
  <2> QED  BY <2>1, JumpRule
<1>3. name \in LocalNames \ StatementLabels /\ "bool_end" \in LocalNames \ StatementLabels
  BY DEF LocalNames, StatementLabels
<1>4. Onward(p, o3, b, b) /\ Onward(p, o5, t, t)
  <2>1. d + 1 \in Nat
    OBVIOUS
  <2> QED  BY <1>3, <2>1, LabelRule
<1>5. o3 = Label(l) /\ o5 = Label(end)
  OBVIOUS
<1>6. {<<l, b>>} \cup {<<end, t>>} = L
  BY DEF L, b, t
<1> HIDE DEF L, l, end, b, t, o1, o2, o3, o4, o5
<1>7. Leads(p, <<o5>>, t, t, L, {<<end, t>>})
  BY <1>4, <1>5, LeadsLabel
<1>8. Leads(p, <<o4>> \o <<o5>>, b, t, L, {<<end, t>>})
  BY <1>1, <1>7, QuietNext
<1>9. Leads(p, <<o4, o5>>, b, t, L, {<<end, t>>})
  <2>1. <<o4>> \o <<o5>> = <<o4, o5>>
    BY CutTwo
  <2> QED  BY <1>8, <2>1
<1>10. Leads(p, <<o3>> \o <<o4, o5>>, b, t, L, L)
  BY <1>4, <1>5, <1>6, <1>9, LabelNext
<1>11. Leads(p, <<o3, o4, o5>>, b, t, L, L)
  <2>1. <<o3>> \o <<o4, o5>> = <<o3, o4, o5>>
    BY CutThree
  <2> QED  BY <1>10, <2>1
<1>12. Leads(p, <<o2>> \o <<o3, o4, o5>>, t, t, L, L)
  BY <1>2, <1>11, LeadsNext
<1>13. Leads(p, <<o2, o3, o4, o5>>, t, t, L, L)
  <2>1. <<o2>> \o <<o3, o4, o5>> = <<o2, o3, o4, o5>>
    BY CutFour
  <2> QED  BY <1>12, <2>1
<1>14. Leads(p, <<o1>> \o <<o2, o3, o4, o5>>, b, t, L, L)
  BY <1>1, <1>13, QuietNext
<1>15. Leads(p, <<o1, o2, o3, o4, o5>>, b, t, L, L)
  <2>1. <<o1>> \o <<o2, o3, o4, o5>> = <<o1, o2, o3, o4, o5>>
    BY CutFive
  <2> QED  BY <1>14, <2>1
<1> QED  BY <1>15 DEF L, l, end, b, t, o1, o2, o3, o4, o5
-----------------------------------------------------------------------------
(* Sites of expressions, in the function o                                 *)

\* The words that variables stand for are where the function may find them.
Placed(p, o, f) ==
    /\ f = FnOf(p, o) /\ o \in STRING /\ o # "_start" /\ f.func.ident = o /\ InTables(f)
    /\ \A x : Resolves(f, x) /\ Symbol(f, x).kind = "value" => Cell(f, x) \in CellsOf(f)
    /\ \A x : Resolves(f, x) /\ Home(f, x).type = "param" =>
                Mem("rbp", Symbol(f, x).addr) \in CellsOf(f)

LEMMA LeadsThen ==
    ASSUME NEW p, NEW a, NEW b, NEW s, NEW u, NEW t, NEW P,
           Leads(p, a, s, u, P, {}), Leads(p, b, u, t, P, {})
    PROVE  Leads(p, a \o b, s, t, P, {})
<1>1. Leads(p, a \o b, s, t, P, {} \cup {})
  BY LeadsBoth
<1>2. {} \cup {} = {}
  OBVIOUS
<1> QED  BY <1>1, <1>2

LEMMA ArrayAddressLeads ==
    ASSUME NEW p, NEW o, NEW f, Placed(p, o, f), NEW x, Resolves(f, x), NEW d \in Nat
    PROVE  Leads(p, ArrayAddress(f, x), <<o, d>>, <<o, d>>, {}, {})
<1> DEFINE addr == Symbol(f, x).addr
           home == Home(f, x).type
           o1 == Mov(Reg("rdx"), Static(addr))
           o2 == Push(Mem("rbp", addr))
           o3 == Pop(Reg("rdx"))
           o4 == Lea("rdx", Mem("rbp", addr))
<1>1. home \in {"global", "param", "local"}
  BY SymbolIs DEF Placed
<1>2. ArrayAddress(f, x) = CASE home = "global" -> <<o1>>
                             [] home = "param" -> <<o2, o3>>
                             [] home = "local" -> <<o4>>
  BY DEF ArrayAddress
<1>3. o \in STRING /\ f = FnOf(p, o) /\ (home = "param" => Mem("rbp", addr) \in CellsOf(f))
  BY DEF Placed
<1> HIDE DEF addr, home
<1>4. Reg("rdx") \in Results
  BY ResultsAre
<1>5. Quiet(p, o1, <<o, d>>, <<o, d>>)
  BY <1>3, <1>4, MovRule
<1>6. home = "param" => Quiet(p, o2, <<o, d>>, <<o, d + 1>>)
  BY <1>3, ResultsAre, PushRule
<1>7. Quiet(p, o3, <<o, d + 1>>, <<o, d>>)
  BY <1>3, <1>4, PopRule
<1>8. Quiet(p, o4, <<o, d>>, <<o, d>>)
  <2>1. o4[1] = "lea" /\ o4[2] = Reg("rdx")
    BY DEF Lea
  <2> HIDE DEF o4
  <2> QED  BY <1>3, <1>4, <2>1, ResultRule
<1> HIDE DEF o1, o2, o3, o4
<1>9. Leads(p, <<o1>>, <<o, d>>, <<o, d>>, {}, {}) /\ Leads(p, <<o4>>, <<o, d>>, <<o, d>>, {}, {})
  BY <1>5, <1>8, QuietOne
<1>10. home = "param" => Leads(p, <<o2, o3>>, <<o, d>>, <<o, d>>, {}, {})
  BY <1>6, <1>7, QuietTwo
<1> QED  BY <1>1, <1>2, <1>9, <1>10

LEMMA ElementAddressWhole ==
    ASSUME NEW p, NEW o, NEW f, Placed(p, o, f), NEW E, NEW S, Pushes(p, o, E, S),
           NEW e, e.child[1] \in S, Resolves(f, e.ident), NEW out \in Counters, NEW d \in Nat
    PROVE  Whole(p, o, ElementAddress(f, E, e, out), d, d + 1)
<1> DEFINE a == Pop(Reg("rax"))
           b == Lea("rax", Element)
           c == Push(Reg("rax"))
           t == <<a>> \o ArrayAddress(f, e.ident) \o <<b, c>>
<1>1. Whole(p, o, E[e.child[1], out], d, d + 1)
  BY DEF Pushes, LeadsAll
<1>2. ElementAddress(f, E, e, out) = Emit(E[e.child[1], out], t)
  BY DEF ElementAddress, Element
<1>3. o \in STRING /\ f = FnOf(p, o) /\ Reg("rax") \in Results
  BY ResultsAre DEF Placed
<1>4. Quiet(p, a, <<o, d + 1>>, <<o, d>>)
  BY <1>3, PopRule
<1>5. Quiet(p, b, <<o, d>>, <<o, d>>)
  <2>1. b[1] = "lea" /\ b[2] = Reg("rax")
    BY DEF Lea
  <2> HIDE DEF b
  <2> QED  BY <1>3, <2>1, ResultRule
<1>6. Quiet(p, c, <<o, d>>, <<o, d + 1>>)
  BY <1>3, ResultsAre, PushRule
<1>7. Leads(p, ArrayAddress(f, e.ident), <<o, d>>, <<o, d>>, {}, {})
  BY ArrayAddressLeads
<1> HIDE DEF a, b, c
<1>8. Leads(p, <<a>> \o ArrayAddress(f, e.ident), <<o, d + 1>>, <<o, d>>, {}, {})
  BY <1>4, <1>7, QuietNext
<1>9. Leads(p, <<b, c>>, <<o, d>>, <<o, d + 1>>, {}, {})
  BY <1>5, <1>6, QuietTwo
<1>10. Leads(p, t, <<o, d + 1>>, <<o, d + 1>>, {}, {})
  BY <1>8, <1>9, LeadsThen
<1> HIDE DEF t
<1> QED  BY <1>1, <1>2, <1>10, WholeEmit

LEMMA LoadArrayWhole ==
    ASSUME NEW p, NEW o, NEW f, Placed(p, o, f), NEW E, NEW S, Pushes(p, o, E, S),
           NEW e, e.child[1] \in S, Resolves(f, e.ident), NEW out \in Counters, NEW d \in Nat
    PROVE  Whole(p, o, LoadArray(f, E, e, out), d, d + 1)
<1> DEFINE a == Pop(Reg("rax"))
           b == Push(Mem("rax", 0))
<1>1. o \in STRING /\ f = FnOf(p, o) /\ Reg("rax") \in Results
  BY ResultsAre DEF Placed
<1>2. Quiet(p, a, <<o, d + 1>>, <<o, d>>)
  BY <1>1, PopRule
<1>3. Quiet(p, b, <<o, d>>, <<o, d + 1>>)
  BY <1>1, ResultsAre, PushRule
<1>4. LoadArray(f, E, e, out) = Emit(ElementAddress(f, E, e, out), <<a, b>>)
  BY DEF LoadArray
<1> HIDE DEF a, b
<1>5. Leads(p, <<a, b>>, <<o, d + 1>>, <<o, d + 1>>, {}, {})
  BY <1>2, <1>3, QuietTwo
<1>6. Whole(p, o, ElementAddress(f, E, e, out), d, d + 1)
  BY ElementAddressWhole
<1> QED  BY <1>4, <1>5, <1>6, WholeEmit

\* What is written is taken off the stack.
LEMMA WriteVarWhole ==
    ASSUME NEW p, NEW o, NEW f, Placed(p, o, f), NEW E, NEW S, Pushes(p, o, E, S),
           NEW e, IsTarget(Scope(f), S, e), NEW out \in Counters, NEW d \in Nat
    PROVE  Whole(p, o, WriteVar(f, E, e, out), d + 1, d)
<1>1. o \in STRING /\ f = FnOf(p, o) /\ Reg("rax") \in Results
  BY ResultsAre DEF Placed
<1> DEFINE a == Pop(Reg("rax"))
<1>2. CASE e.label = "ArrayLR"
  <2> DEFINE b == Pop(Mem("rax", 0))
  <2>1. e.child[1] \in S /\ Resolves(f, e.ident)
    BY <1>2, ScopeIs DEF IsTarget, IsUnary
  <2>2. d + 1 \in Nat
    OBVIOUS
  <2>3. Quiet(p, a, <<o, (d + 1) + 1>>, <<o, d + 1>>)
    BY <1>1, <2>2, PopRule
  <2>4. Quiet(p, b, <<o, d + 1>>, <<o, d>>)
    BY <1>1, PopRule
  <2>5. WriteVar(f, E, e, out) = Emit(ElementAddress(f, E, e, out), <<a, b>>)
    BY <1>2 DEF WriteVar
  <2> HIDE DEF a, b
  <2>6. Leads(p, <<a, b>>, <<o, (d + 1) + 1>>, <<o, d>>, {}, {})
    BY <2>3, <2>4, QuietTwo
  <2>7. Whole(p, o, ElementAddress(f, E, e, out), d + 1, (d + 1) + 1)
    BY <2>1, <2>2, ElementAddressWhole
  <2> QED  BY <2>5, <2>6, <2>7, WholeEmit
<1>3. CASE e.label # "ArrayLR"
  <2> DEFINE b == Mov(Cell(f, e.ident), Reg("rax"))
  <2>1. Resolves(f, e.ident) /\ Symbol(f, e.ident).kind = "value"
    BY <1>3, ScopeIs DEF IsTarget, IsUnary
  <2>2. Cell(f, e.ident) \in CellsOf(f)
    BY <2>1 DEF Placed
  <2>3. Quiet(p, a, <<o, d + 1>>, <<o, d>>)
    BY <1>1, PopRule
  <2>4. Quiet(p, b, <<o, d>>, <<o, d>>)
    BY <1>1, <2>2, MovRule
  <2>5. WriteVar(f, E, e, out) = Write(<<a, b>>, out)
    BY <1>3 DEF WriteVar
  <2> HIDE DEF a, b
  <2>6. Leads(p, <<a, b>>, <<o, d + 1>>, <<o, d>>, {}, {})
    BY <2>3, <2>4, QuietTwo
  <2> QED  BY <2>5, <2>6, WholeWrite
<1> QED  BY <1>2, <1>3

\* A text that is given as a function, with the level before each instruction.
LEMMA LeadsAlong ==
    ASSUME NEW p, NEW o \in STRING, NEW A, NEW text \in Seq(A), NEW v \in [1 .. Len(text) + 1 -> Int],
           \A i \in 1 .. Len(text) : Quiet(p, text[i], <<o, v[i]>>, <<o, v[i + 1]>>)
    PROVE  Leads(p, text, <<o, v[1]>>, <<o, v[Len(text) + 1]>>, {}, {})
<1> DEFINE n == Len(text)
           S == [i \in 1 .. n + 1 |-> <<o, v[i]>>]
<1>1. n \in Nat /\ 1 \in 1 .. n + 1 /\ n + 1 \in 1 .. n + 1
  OBVIOUS
<1>2. S \in [1 .. n + 1 -> Sites]
  BY DEF Sites
<1>3. ASSUME NEW i \in 1 .. n
      PROVE  Onward(p, text[i], S[i], S[i + 1]) /\ text[i][1] \notin Jumps
  <2>1. i \in 1 .. n + 1 /\ i + 1 \in 1 .. n + 1
    BY <1>1
  <2>2. S[i] = <<o, v[i]>> /\ S[i + 1] = <<o, v[i + 1]>>
    BY <2>1
  <2> QED  BY <2>2 DEF Quiet
<1>4. S[1] = <<o, v[1]>> /\ S[n + 1] = <<o, v[n + 1]>>
  BY <1>1
<1> HIDE DEF S
<1>5. Sited(p, text, S, {}, {})
  BY <1>2, <1>3 DEF Sited
<1> QED  BY <1>4, <1>5 DEF Leads

LEMMA PopsLead ==
    ASSUME NEW p, NEW o \in STRING, NEW m \in Nat, m <= NbRegs, NEW d \in Nat
    PROVE  Leads(p, [i \in 1 .. m |-> Pop(Reg(ParamReg[i]))], <<o, d + m>>, <<o, d>>, {}, {})
<1> DEFINE text == [i \in 1 .. m |-> Pop(Reg(ParamReg[i]))]
           v == [i \in 1 .. m + 1 |-> d + m + 1 - i]
<1>1. \A i \in 1 .. m : Reg(ParamReg[i]) \in Results
  <2>1. \A i \in 1 .. 6 : ParamReg[i] \in {"rax", "rcx", "rdx", "rdi", "rsi", "r8", "r9"}
    BY DEF ParamReg
  <2>2. Len(ParamReg) = 6
    BY DEF ParamReg
  <2>3. \A i \in 1 .. m : i \in 1 .. 6
    BY <2>2, NbRegsAssumption, RegistersAssumption
  <2> QED  BY <2>1, <2>3, ResultsAre
<1>2. ASSUME NEW i \in 1 .. m PROVE Quiet(p, text[i], <<o, v[i]>>, <<o, v[i + 1]>>)
  <2>1. v[i] = (d + m - i) + 1 /\ v[i + 1] = d + m - i /\ d + m - i \in Nat
    OBVIOUS
  <2>2. text[i] = Pop(Reg(ParamReg[i]))
    OBVIOUS
  <2> HIDE DEF v, text
  <2>3. Quiet(p, Pop(Reg(ParamReg[i])), <<o, (d + m - i) + 1>>, <<o, d + m - i>>)
    BY <1>1, <2>1, PopRule
  <2> QED  BY <2>1, <2>2, <2>3
<1>3. text \in Seq({text[i] : i \in 1 .. m}) /\ Len(text) = m
  <2> DEFINE A == {text[i] : i \in 1 .. m}
  <2>1. DOMAIN text = 1 .. m /\ text \in [1 .. m -> A]
    OBVIOUS
  <2> HIDE DEF text, A
  <2>2. text \in Seq(A)
    BY <2>1
  <2>3. Len(text) = m
    BY <2>1, <2>2
  <2> QED  BY <2>2, <2>3 DEF A
<1>4. v \in [1 .. m + 1 -> Int] /\ v[1] = d + m /\ v[m + 1] = d
  OBVIOUS
<1> HIDE DEF text, v
<1>5. Leads(p, text, <<o, v[1]>>, <<o, v[Len(text) + 1]>>, {}, {})
  <2>1. v \in [1 .. Len(text) + 1 -> Int] /\ \A i \in 1 .. Len(text) : Quiet(p, text[i], <<o, v[i]>>, <<o, v[i + 1]>>)
    BY <1>2, <1>3, <1>4
  <2> QED  BY <1>3, <2>1, LeadsAlong
<1>6. Leads(p, text, <<o, d + m>>, <<o, d>>, {}, {})
  BY <1>3, <1>4, <1>5
<1> QED  BY <1>6 DEF text
-----------------------------------------------------------------------------
(* Sites of calls                                                          *)

LEMMA NoText == ASSUME NEW p, NEW o \in STRING, NEW d \in Int, NEW out \in Counters
                PROVE  Whole(p, o, Write(<<>>, out), d, d)
<1>1. <<o, d>> \in Sites
  BY DEF Sites
<1> QED  BY <1>1, LeadsNone, WholeWrite

\* A function is called with as many arguments as it has parameters.
LEMMA CalleeIs ==
    ASSUME NEW f, InTables(f), NEW S, NEW e, IsCallOver(Scope(f), S, e)
    PROVE  /\ e.ident \in DOMAIN f.functions
           /\ ParamCount(f.functions[e.ident]) = Len(e.child[1].child)
           /\ e.child[1].child \in Seq(S)
           /\ e.child[1].label = "EmptyArgs" => Len(e.child[1].child) = 0
<1>1. <<e.ident, Len(e.child[1].child)>> \in Scope(f).calls
  BY DEF IsCallOver
<1>2. Resolves(f, e.ident) /\ Symbol(f, e.ident).kind = "function"
  BY <1>1, ScopeIs
<1>3. e.ident \in DOMAIN f.functions
  BY <1>2, SymbolIs
<1>4. ParamCount(f.functions[e.ident]) = Len(e.child[1].child)
  BY <1>1 DEF Scope
<1>5. e.child[1].child \in Seq(S) /\ (e.child[1].label = "EmptyArgs" => e.child[1].child = <<>>)
  BY DEF IsCallOver
<1>6. Len(<<>>) = 0
  OBVIOUS
<1> QED  BY <1>3, <1>4, <1>5, <1>6

LEMMA ArgumentsWhole ==
    ASSUME NEW p, NEW o \in STRING, NEW E, NEW S, Pushes(p, o, E, S), NEW args \in Seq(S),
           NEW out \in Counters, NEW d \in Nat
    PROVE  Whole(p, o, Arguments(E, args, out), d, d + Len(args))
<1> DEFINE n == Len(args)
           back == [i \in 1 .. n |-> args[n + 1 - i]]
           v == [k \in Nat |-> d + k]
<1>1. n \in Nat /\ \A i \in 1 .. n : n + 1 - i \in 1 .. n /\ args[n + 1 - i] \in S
  OBVIOUS
<1>2. Arguments(E, args, out) = Each(E, back, out)
  BY DEF Arguments
<1> HIDE DEF n
<1>3. back \in Seq(S) /\ Len(back) = n
  <2>1. back \in [1 .. n -> S]
    BY <1>1
  <2> HIDE DEF back
  <2> QED  BY <1>1, <2>1
<1>4. /\ v \in [Nat -> Nat] /\ v[0] = d /\ v[n] = d + n
      /\ \A k \in Nat : v[k] \in Nat /\ v[k + 1] = v[k] + 1
  BY <1>1
<1> HIDE DEF v, back
<1>5. ASSUME NEW k \in Nat PROVE LeadsAll(p, o, E, S, v[k], v[k + 1])
  BY <1>4 DEF Pushes
<1>6. Whole(p, o, Each(E, back, out), v[0], v[Len(back)])
  BY <1>3, <1>4, <1>5, EachWhole
<1> QED  BY <1>2, <1>3, <1>4, <1>6 DEF n

LEMMA CallWhole ==
    ASSUME NEW p, NEW o, NEW f, Placed(p, o, f), NEW E, NEW S, Pushes(p, o, E, S),
           NEW e, IsCallOver(Scope(f), S, e), NEW out \in Counters, NEW d \in Nat
    PROVE  Whole(p, o, Call(f, E, e, out), d, d)
<1> DEFINE callee == f.functions[e.ident]
           n == ParamCount(callee)
           r == InRegisters(callee)
           m == Extra(callee)
           pops == [i \in 1 .. r |-> Pop(Reg(ParamReg[i]))]
           args == e.child[1].child
           ready == IF e.child[1].label = "EmptyArgs" THEN Write(<<>>, out)
                    ELSE Emit(Arguments(E, args, out), pops)
           i == <<"call", FunctionLabel(e.ident)>>
           drop == DropArguments(callee)
<1>1. o \in STRING /\ f = FnOf(p, o) /\ InTables(f)
  BY DEF Placed
<1>2. /\ e.ident \in DOMAIN f.functions /\ n = Len(args) /\ args \in Seq(S)
      /\ e.child[1].label = "EmptyArgs" => n = 0
  BY <1>1, CalleeIs
<1>3. Call(f, E, e, out) = Emit(ready, <<i>> \o drop)
  BY DEF Call
<1>4. n \in Nat
  BY <1>2
<1>5. r \in Nat /\ r <= NbRegs /\ m \in Nat /\ n = m + r /\ m = IF n > NbRegs THEN n - NbRegs ELSE 0
  BY <1>4, NbRegsAssumption DEF Extra, InRegisters
<1>6. drop = IF n > NbRegs THEN <<Compute("add", "rsp", Imm((n - NbRegs) * WordSize))>> ELSE <<>>
  BY DEF DropArguments
<1>7. Quiet(p, i, <<o, d + m>>, <<o, d + m>>)
  <2>1. d + m \in Nat /\ Extra(callee) <= d + m
    BY <1>5
  <2> HIDE DEF m
  <2> QED  BY <1>1, <1>2, <2>1, CallRule
<1> HIDE DEF callee, n, r, m, args, i, drop
<1>8. Whole(p, o, Arguments(E, args, out), d, d + n)
  BY <1>1, <1>2, ArgumentsWhole
<1>9. Leads(p, pops, <<o, d + n>>, <<o, d + m>>, {}, {})
  <2>1. d + m \in Nat /\ (d + m) + r = d + n
    BY <1>5
  <2>2. Leads(p, pops, <<o, (d + m) + r>>, <<o, d + m>>, {}, {})
    BY <1>1, <1>5, <2>1, PopsLead
  <2> QED  BY <2>1, <2>2
<1> HIDE DEF pops
<1>10. Whole(p, o, Emit(Arguments(E, args, out), pops), d, d + m)
  BY <1>8, <1>9, WholeEmit
<1>11. Whole(p, o, ready, d, d + m)
  <2>1. CASE e.child[1].label = "EmptyArgs"
    <3>1. d + m = d /\ d \in Int
      BY <1>2, <1>5, <2>1, NbRegsAssumption
    <3> QED  BY <1>1, <2>1, <3>1, NoText
  <2> QED  BY <1>10, <2>1
<1> HIDE DEF ready
<1>12. Leads(p, drop, <<o, d + m>>, <<o, d>>, {}, {})
  <2>1. CASE n > NbRegs
    <3>1. drop = <<Compute("add", "rsp", Imm(m * WordSize))>>
      BY <1>5, <1>6, <2>1
    <3>2. Quiet(p, Compute("add", "rsp", Imm(m * WordSize)), <<o, d + m>>, <<o, d>>)
      BY <1>1, <1>5, DropRule
    <3> QED  BY <3>1, <3>2, QuietOne
  <2>2. CASE ~(n > NbRegs)
    <3>1. d + m = d /\ d \in Int
      BY <1>1, <1>5, <2>2
    <3>2. <<o, d>> \in Sites
      BY <1>1, <3>1, SitesAre
    <3> QED  BY <1>6, <2>2, <3>1, <3>2, LeadsNone
  <2> QED  BY <2>1, <2>2
<1>13. Leads(p, <<i>> \o drop, <<o, d + m>>, <<o, d>>, {}, {})
  BY <1>7, <1>12, QuietNext
<1> QED  BY <1>3, <1>11, <1>13, WholeEmit

LEMMA LoadVarWhole ==
    ASSUME NEW p, NEW o, NEW f, Placed(p, o, f), NEW E, NEW S, Pushes(p, o, E, S),
           NEW e, \/ IsCallOver(Scope(f), S, e)
                  \/ e.child = <<>> /\ e.ident \in Scope(f).values \cup Scope(f).arrays
                  \/ e.child # <<>> /\ e.child[1] \in S /\ e.ident \in Scope(f).arrays,
           NEW out \in Counters, NEW d \in Nat
    PROVE  Whole(p, o, LoadVar(f, E, e, out), d, d + 1)
<1>1. o \in STRING /\ f = FnOf(p, o) /\ Reg("rax") \in Results /\ Reg("rdx") \in Results
  BY ResultsAre DEF Placed
<1>2. ASSUME NEW r \in {"rax", "rdx"}
      PROVE  Leads(p, <<Push(Reg(r))>>, <<o, d>>, <<o, d + 1>>, {}, {})
  <2>1. Reg(r) # Reg("rbp") /\ Reg(r)[1] # "mem"
    BY <1>1, ResultsAre
  <2>2. Quiet(p, Push(Reg(r)), <<o, d>>, <<o, d + 1>>)
    BY <1>1, <2>1, PushRule
  <2> QED  BY <2>2, QuietOne
<1>3. CASE IsCallOver(Scope(f), S, e)
  <2>1. <<e.ident, Len(e.child[1].child)>> \in Scope(f).calls
    BY <1>3 DEF IsCallOver
  <2>2. Symbol(f, e.ident).kind = "function"
    BY <2>1, ScopeIs
  <2>3. LoadVar(f, E, e, out) = Emit(Call(f, E, e, out), <<Push(Reg("rax"))>>)
    BY <2>2 DEF LoadVar
  <2>4. Whole(p, o, Call(f, E, e, out), d, d)
    BY <1>3, CallWhole
  <2> QED  BY <1>2, <2>3, <2>4, WholeEmit
<1>4. CASE e.child = <<>> /\ e.ident \in Scope(f).values
  <2> DEFINE c == Cell(f, e.ident)
  <2>1. Resolves(f, e.ident) /\ Symbol(f, e.ident).kind = "value"
    BY <1>4, ScopeIs
  <2>2. LoadVar(f, E, e, out) = Write(<<Push(c)>>, out)
    BY <2>1 DEF LoadVar
  <2>3. c \in CellsOf(f)
    BY <2>1 DEF Placed
  <2> HIDE DEF c
  <2>4. c # Reg("rbp")
    BY <2>3, CellsAre
  <2>5. Quiet(p, Push(c), <<o, d>>, <<o, d + 1>>)
    BY <1>1, <2>3, <2>4, PushRule
  <2>6. Leads(p, <<Push(c)>>, <<o, d>>, <<o, d + 1>>, {}, {})
    BY <2>5, QuietOne
  <2> QED  BY <2>2, <2>6, WholeWrite
<1>5. CASE e.child = <<>> /\ e.ident \in Scope(f).arrays
  <2> DEFINE a == ArrayAddress(f, e.ident)
  <2>1. Resolves(f, e.ident) /\ Symbol(f, e.ident).kind = "array"
    BY <1>5, ScopeIs
  <2>2. LoadVar(f, E, e, out) = Write(a \o <<Push(Reg("rdx"))>>, out)
    BY <1>5, <2>1 DEF LoadVar
  <2>3. Leads(p, a, <<o, d>>, <<o, d>>, {}, {})
    BY <2>1, ArrayAddressLeads
  <2> HIDE DEF a
  <2>4. Leads(p, a \o <<Push(Reg("rdx"))>>, <<o, d>>, <<o, d + 1>>, {}, {})
    BY <1>2, <2>3, LeadsThen
  <2> QED  BY <2>2, <2>4, WholeWrite
<1>6. CASE e.child # <<>> /\ e.child[1] \in S /\ e.ident \in Scope(f).arrays
  <2>1. Resolves(f, e.ident) /\ Symbol(f, e.ident).kind = "array"
    BY <1>6, ScopeIs
  <2>2. LoadVar(f, E, e, out) = LoadArray(f, E, e, out)
    BY <1>6, <2>1 DEF LoadVar
  <2> QED  BY <1>6, <2>1, <2>2, LoadArrayWhole
<1> QED  BY <1>3, <1>4, <1>5, <1>6

LEMMA OpeBoolWhole ==
    ASSUME NEW p, NEW o, NEW f, Placed(p, o, f), NEW E, NEW S, Pushes(p, o, E, S),
           NEW e, e.child[1] \in S, e.child[2] \in S, NEW out \in Counters, NEW d \in Nat
    PROVE  Whole(p, o, OpeBool(f, E, e, out), d, d + 1)
<1> DEFINE and == e.label = "And"
           n == out.bool
           name == IF and THEN "bool_false" ELSE "bool_true"
           shortcut == <<o, name, n>>
           end == <<o, "bool_end", n>>
           L == {<<shortcut, <<o, d>>>>, <<end, <<o, d + 1>>>>}
           cond == IF and THEN "je" ELSE "jne"
           test == <<Pop(Reg("rax")), Compare("rax", Imm(0)), Jump(cond, shortcut)>>
           m == IF and THEN 1 ELSE 0
           k == IF and THEN 0 ELSE 1
           outcomes == <<Push(Imm(m)), Jump("jmp", end), Label(shortcut), Push(Imm(k)), Label(end)>>
           from == [out EXCEPT !.bool = n + 1]
           fst == E[e.child[1], from]
           left == Emit(fst, test)
           snd == E[e.child[2], Behind(left)]
           both == Then(left, snd)
           right == Emit(both, test)
           whole == Emit(right, outcomes)
<1>0. o \in STRING /\ o # "_start" /\ f.func.ident = o
  BY DEF Placed
<1>1. OpeBool(f, E, e, out) = whole
  BY <1>0 DEF OpeBool, Followed, Local
<1>2. from \in Counters
  BY CountersAre, CountersGrow
<1>3. Leads(p, test, <<o, d + 1>>, <<o, d>>, L, {})
  <2>1. cond \in Jumps /\ cond # "jmp"
    BY DEF Jumps
  <2>2. <<shortcut, <<o, d>>>> \in L
    OBVIOUS
  <2> HIDE DEF L, shortcut, cond
  <2> QED  BY <1>0, <2>1, <2>2, TestLeads
<1>4. Leads(p, outcomes, <<o, d>>, <<o, d + 1>>, L, L)
  <2>1. name \in {"bool_false", "bool_true"}
    OBVIOUS
  <2> HIDE DEF name, m, k, n
  <2> QED  BY <1>0, <2>1, OutcomesLeads
<1> HIDE DEF test, outcomes, from, L
<1>5. Whole(p, o, fst, d, d + 1)
  BY <1>2 DEF Pushes, LeadsAll
<1> HIDE DEF fst
<1>6. Open(p, o, left, d, d, L, {} \cup {})
  <2>1. Open(p, o, fst, d, d + 1, L, {})
    BY <1>5, WholeOpen
  <2> QED  BY <1>3, <2>1, OpenEmit
<1> HIDE DEF left
<1>7. Open(p, o, snd, d, d + 1, L, {})
  <2>1. Behind(left) \in Counters
    BY <1>6, BehindOpen
  <2>2. Whole(p, o, snd, d, d + 1)
    BY <2>1 DEF Pushes, LeadsAll
  <2> QED  BY <2>2, WholeOpen
<1> HIDE DEF snd
<1>8. Open(p, o, both, d, d + 1, L, ({} \cup {}) \cup {})
  BY <1>6, <1>7, OpenThen
<1> HIDE DEF both
<1>9. Open(p, o, right, d, d, L, (({} \cup {}) \cup {}) \cup {})
  BY <1>3, <1>8, OpenEmit
<1> HIDE DEF right
<1>10. Open(p, o, whole, d, d + 1, L, ((({} \cup {}) \cup {}) \cup {}) \cup L)
  BY <1>4, <1>9, OpenEmit
<1>11. ((({} \cup {}) \cup {}) \cup {}) \cup L = L
  OBVIOUS
<1> HIDE DEF whole
<1>12. Whole(p, o, whole, d, d + 1)
  BY <1>10, <1>11, WholeOpen
<1> QED  BY <1>1, <1>12

LEMMA TwoOperandsWhole ==
    ASSUME NEW p, NEW o, NEW E, NEW S, Pushes(p, o, E, S),
           NEW e, e.child[1] \in S, e.child[2] \in S, NEW out \in Counters, NEW d \in Nat
    PROVE  Whole(p, o, TwoOperands(E, e, out), d, (d + 1) + 1)
<1>1. Whole(p, o, E[e.child[1], out], d, d + 1)
  BY DEF Pushes, LeadsAll
<1>2. LeadsAll(p, o, E, S, d + 1, (d + 1) + 1)
  <2>1. d + 1 \in Nat
    OBVIOUS
  <2> QED  BY <2>1 DEF Pushes
<1> QED  BY <1>1, <1>2, FollowedWhole DEF TwoOperands

LEMMA ComparisonWhole ==
    ASSUME NEW p, NEW o, NEW f, Placed(p, o, f), NEW d \in Nat, NEW r, Whole(p, o, r, d, (d + 1) + 1),
           NEW op \in {"==", "!=", "<", "<=", ">", ">="}
    PROVE  Whole(p, o, Emit([r EXCEPT !.cmp = @ + 1], Cmp(f, op, r.cmp)), d, d + 1)
<1> DEFINE next == [r EXCEPT !.cmp = @ + 1]
<1>1. o \in STRING /\ o # "_start" /\ f.func.ident = o
  BY DEF Placed
<1>2. Whole(p, o, next, d, (d + 1) + 1)
  BY WayCount DEF Whole
<1> HIDE DEF next
<1>3. PICK L : Leads(p, Cmp(f, op, r.cmp), <<o, (d + 1) + 1>>, <<o, d + 1>>, L, L)
  BY <1>1, CmpLeads
<1>4. Whole(p, o, Emit(next, Cmp(f, op, r.cmp)), d, d + 1)
  BY <1>2, <1>3, WholeEmit
<1> QED  BY <1>4 DEF next

LEMMA ExprOverWhole ==
    ASSUME NEW p, NEW o, NEW f, Placed(p, o, f), NEW E, NEW lower, Pushes(p, o, E, lower),
           NEW e \in ExpNodes(Scope(f), lower), NEW out \in Counters, NEW d \in Nat
    PROVE  Whole(p, o, ExprOver(f, E, e, out), d, d + 1)
<1> DEFINE s == Scope(f)
<1>0. o \in STRING
  BY DEF Placed
<1>1. IsLeaf(s, e) \/ IsCallOver(s, lower, e) \/ IsUnary(s, lower, e) \/ IsBinary(lower, e)
  BY ExpNodesAre
<1> HIDE DEF s
<1>2. CASE e.label \in {"Num", "Character"}
  <2>1. ExprOver(f, E, e, out) = Write(<<Push(Imm(e.num))>>, out)
    BY <1>2 DEF ExprOver
  <2>2. Quiet(p, Push(Imm(e.num)), <<o, d>>, <<o, d + 1>>)
    BY <1>0, ImmRule
  <2>3. Leads(p, <<Push(Imm(e.num))>>, <<o, d>>, <<o, d + 1>>, {}, {})
    BY <2>2, QuietOne
  <2> QED  BY <2>1, <2>3, WholeWrite
<1>3. CASE e.label \in {"Ident", "ArrayLR"}
  <2>1. \/ IsCallOver(s, lower, e)
        \/ e.child = <<>> /\ e.ident \in s.values \cup s.arrays
        \/ e.child # <<>> /\ e.child[1] \in lower /\ e.ident \in s.arrays
    BY <1>1, <1>3 DEF IsLeaf, IsUnary, IsBinary
  <2>2. ExprOver(f, E, e, out) = LoadVar(f, E, e, out)
    BY <1>3 DEF ExprOver
  <2> QED  BY <2>1, <2>2, LoadVarWhole DEF s
<1>4. CASE e.label \in {"AddsubU", "Not"}
  <2>1. e.child[1] \in lower
    BY <1>1, <1>4 DEF IsLeaf, IsCallOver, IsUnary, IsBinary
  <2>2. Whole(p, o, E[e.child[1], out], d, d + 1)
    BY <2>1 DEF Pushes, LeadsAll
  <2>3. CASE e.label = "AddsubU"
    <3>1. ExprOver(f, E, e, out) = Emit(E[e.child[1], out], OpeUnaire(e.ident))
      BY <2>3 DEF ExprOver
    <3>2. Leads(p, OpeUnaire(e.ident), <<o, d + 1>>, <<o, d + 1>>, {}, {})
      BY <1>0, OpeUnaireLeads
    <3> QED  BY <2>2, <3>1, <3>2, WholeEmit
  <2>4. CASE e.label = "Not"
    <3>1. ExprOver(f, E, e, out) = Emit(E[e.child[1], out], Not)
      BY <2>4 DEF ExprOver
    <3>2. Leads(p, Not, <<o, d + 1>>, <<o, d + 1>>, {}, {})
      BY <1>0, NotLeads
    <3> QED  BY <2>2, <3>1, <3>2, WholeEmit
  <2> QED  BY <1>4, <2>3, <2>4
<1>5. CASE e.label \in {"Or", "And"}
  <2>1. e.child[1] \in lower /\ e.child[2] \in lower
    BY <1>1, <1>5 DEF IsLeaf, IsCallOver, IsUnary, IsBinary
  <2>2. ExprOver(f, E, e, out) = OpeBool(f, E, e, out)
    BY <1>5 DEF ExprOver
  <2> QED  BY <2>1, <2>2, OpeBoolWhole
<1>6. CASE e.label \in {"Addsub", "Divstar"}
  <2>1. e.child[1] \in lower /\ e.child[2] \in lower /\ e.ident \in {"+", "-", "*", "/", "%"}
    BY <1>1, <1>6 DEF IsLeaf, IsCallOver, IsUnary, IsBinary
  <2>2. ExprOver(f, E, e, out) = Emit(TwoOperands(E, e, out), OpeArith(e.ident))
    BY <1>6 DEF ExprOver
  <2>3. Whole(p, o, TwoOperands(E, e, out), d, (d + 1) + 1)
    BY <2>1, TwoOperandsWhole
  <2>4. Leads(p, OpeArith(e.ident), <<o, (d + 1) + 1>>, <<o, d + 1>>, {}, {})
    BY <1>0, <2>1, OpeArithLeads
  <2> QED  BY <2>2, <2>3, <2>4, WholeEmit
<1>7. CASE e.label \in {"Eq", "Order"}
  <2>1. /\ e.child[1] \in lower /\ e.child[2] \in lower
        /\ e.ident \in {"==", "!=", "<", "<=", ">", ">="}
    BY <1>1, <1>7 DEF IsLeaf, IsCallOver, IsUnary, IsBinary
  <2> DEFINE r == TwoOperands(E, e, out)
  <2>2. ExprOver(f, E, e, out) = Emit([r EXCEPT !.cmp = @ + 1], Cmp(f, e.ident, r.cmp))
    BY <1>7 DEF ExprOver
  <2>3. Whole(p, o, r, d, (d + 1) + 1)
    BY <2>1, TwoOperandsWhole
  <2> HIDE DEF r
  <2> QED  BY <2>1, <2>2, <2>3, ComparisonWhole
<1>8. e.label \in {"Num", "Character", "Ident", "ArrayLR", "AddsubU", "Not", "Or", "And", "Addsub",
                   "Divstar", "Eq", "Order"}
  BY <1>1 DEF IsLeaf, IsCallOver, IsUnary, IsBinary
<1> QED  BY <1>2, <1>3, <1>4, <1>5, <1>6, <1>7, <1>8

\* Every expression leaves its value on the stack, and nothing else.
LEMMA ExprWhole ==
    ASSUME NEW p, NEW o, NEW f, Placed(p, o, f)
    PROVE  Pushes(p, o, Expr(f), Exps(Scope(f)))
<1> DEFINE exps == ExpsUpTo(Scope(f))
           upTo == ExprUpTo(f)
           S == {h \in 0 .. Height : Pushes(p, o, upTo[h], exps[h])}
<1>1. ExpLevels(Scope(f), Height, exps)
  BY ExpLevelsAre
<1>2. 0 \in S
  <2>1. exps[0] = {} /\ 0 \in 0 .. Height
    BY <1>1, HeightAssumption DEF ExpLevels
  <2>2. Pushes(p, o, upTo[0], exps[0])
    BY <2>1 DEF Pushes, LeadsAll
  <2> QED  BY <2>1, <2>2
<1>3. ASSUME NEW k \in 0 .. Height, k + 1 \in 0 .. Height, k \in S PROVE k + 1 \in S
  <2>1. k + 1 \in 1 .. Height /\ (k + 1) - 1 = k
    BY <1>3, HeightAssumption
  <2>2. exps[k + 1] = ExpNodes(Scope(f), exps[k])
    BY <1>1, <2>1 DEF ExpLevels
  <2>3. exps[k + 1] \subseteq ExpsUpTo(AnyScope)[k + 1]
    <3>1. Narrower(Scope(f), AnyScope)
      BY ScopeIs
    <3> QED  BY <1>3, <3>1, ExpsGrow
  <2>4. ASSUME NEW d \in Nat, NEW n \in exps[k + 1], NEW out \in Counters
        PROVE  Whole(p, o, upTo[k + 1][n, out], d, d + 1)
    <3>1. upTo[k + 1][n, out] = ExprOver(f, upTo[k], n, out)
      BY <2>1, <2>3, ExprCodeAre
    <3>2. n \in ExpNodes(Scope(f), exps[k]) /\ Pushes(p, o, upTo[k], exps[k])
      BY <1>3, <2>2
    <3> HIDE DEF exps, upTo
    <3>3. Whole(p, o, ExprOver(f, upTo[k], n, out), d, d + 1)
      BY <3>2, ExprOverWhole
    <3> QED  BY <3>1, <3>3
  <2>5. Pushes(p, o, upTo[k + 1], exps[k + 1])
    <3> HIDE DEF exps, upTo
    <3> QED  BY <2>4 DEF Pushes, LeadsAll
  <2> QED  BY <1>3, <2>5
<1> HIDE DEF S
<1>4. 0 .. Height \subseteq S
  BY <1>2, <1>3, Reaches, HeightAssumption
<1> QED  BY <1>4, HeightAssumption DEF S, Expr, Exps
-----------------------------------------------------------------------------
(* Sites of instructions                                                   *)

\* A frame is left at any level, and what comes behind may be anything.
LEMMA EndingLeads ==
    ASSUME NEW p, NEW o \in STRING, NEW d \in Nat, NEW t \in Sites
    PROVE  Leads(p, FrameEnd \o Ret, <<o, d>>, t, {}, {})
<1> DEFINE a == Mov(Reg("rsp"), Reg("rbp"))
           b == Pop(Reg("rbp"))
           c == <<"ret">>
<1>1. Quiet(p, a, <<o, d>>, <<o, Framed>>)
  BY FrameRules
<1>2. Quiet(p, b, <<o, Framed>>, <<o, Entered>>)
  BY FrameRules
<1>3. Quiet(p, c, <<o, Entered>>, t)
  BY FrameRules
<1>4. FrameEnd = <<a, b>> /\ Ret = <<c>>
  BY DEF FrameEnd, Ret
<1> HIDE DEF a, b, c
<1>5. Leads(p, <<a, b>>, <<o, d>>, <<o, Entered>>, {}, {})
  BY <1>1, <1>2, QuietTwo
<1>6. Leads(p, <<c>>, <<o, Entered>>, t, {}, {})
  BY <1>3, QuietOne
<1> QED  BY <1>4, <1>5, <1>6, LeadsThen

LEMMA ReturnWhole ==
    ASSUME NEW p, NEW o, NEW f, Placed(p, o, f),
           NEW i, i.child = <<>> \/ i.child[1] \in Exps(Scope(f)), NEW out \in Counters
    PROVE  Whole(p, o, Return(f, i, out), 0, 0)
<1> DEFINE frame == FrameEnd \o Ret
           a == Pop(Reg("rax"))
           b == FrameEnd
           c == Ret
           value == Expr(f)[i.child[1], out]
<1>0. o \in STRING /\ <<o, 0>> \in Sites
  BY DEF Placed, Sites
<1>1. \/ Return(f, i, out) = Write(frame, out)
      \/ Return(f, i, out) = Write(<<>>, out)
      \/ i.child # <<>> /\ Return(f, i, out) = Emit(value, <<a>> \o b \o c)
  BY DEF Return
<1>2. Leads(p, b \o c, <<o, 0>>, <<o, 0>>, {}, {})
  BY <1>0, EndingLeads
<1>3. Whole(p, o, Write(frame, out), 0, 0)
  BY <1>2, WholeWrite
<1>4. Whole(p, o, Write(<<>>, out), 0, 0)
  BY <1>0, NoText
<1>5. ASSUME i.child # <<>> PROVE Whole(p, o, Emit(value, <<a>> \o b \o c), 0, 0)
  <2>1. Whole(p, o, value, 0, 0 + 1)
    BY <1>5, ExprWhole DEF Pushes, LeadsAll
  <2>2. Quiet(p, a, <<o, 0 + 1>>, <<o, 0>>)
    BY <1>0, ResultsAre, PopRule
  <2>3. Leads(p, <<a>> \o (b \o c), <<o, 0 + 1>>, <<o, 0>>, {}, {})
    <3> HIDE DEF a, b, c
    <3> QED  BY <1>2, <2>2, QuietNext
  <2>4. <<a>> \o (b \o c) = <<a>> \o b \o c
    <3> DEFINE A == <<a>>
               B == {a} \cup {b[1], b[2]} \cup {c[1]}
    <3>1. A \in Seq(B) /\ b \in Seq(B) /\ c \in Seq(B)
      BY DEF FrameEnd, Ret
    <3> HIDE DEF A, B, b, c
    <3>2. A \o (b \o c) = A \o b \o c
      BY <3>1
    <3> QED  BY <3>2 DEF A
  <2>5. Leads(p, <<a>> \o b \o c, <<o, 0 + 1>>, <<o, 0>>, {}, {})
    BY <2>3, <2>4
  <2> HIDE DEF value, a, b, c
  <2> QED  BY <2>1, <2>5, WholeEmit
<1> QED  BY <1>1, <1>3, <1>4, <1>5

LEMMA AssignationWhole ==
    ASSUME NEW p, NEW o, NEW f, Placed(p, o, f),
           NEW i, IsTarget(Scope(f), Exps(Scope(f)), i.child[1]), i.child[2] \in Exps(Scope(f)),
           NEW out \in Counters
    PROVE  Whole(p, o, Assignation(f, i, out), 0, 0)
<1> DEFINE value == Expr(f)[i.child[2], out]
           target == WriteVar(f, Expr(f), i.child[1], Behind(value))
<1>1. Assignation(f, i, out) = Then(value, target)
  BY DEF Assignation
<1>2. Pushes(p, o, Expr(f), Exps(Scope(f)))
  BY ExprWhole
<1>3. Whole(p, o, value, 0, 0 + 1)
  BY <1>2 DEF Pushes, LeadsAll
<1> HIDE DEF value
<1>4. Behind(value) \in Counters
  BY <1>3, BehindWhole
<1>5. Whole(p, o, target, 0 + 1, 0)
  BY <1>2, <1>4, WriteVarWhole
<1> HIDE DEF target
<1> QED  BY <1>1, <1>3, <1>5, WholeThen

LEMMA ConditionLeads ==
    ASSUME NEW p, NEW o \in STRING, NEW l, NEW P, <<l, <<o, 0>>>> \in P
    PROVE  Leads(p, Condition(l), <<o, 0 + 1>>, <<o, 0>>, P, {})
<1>1. "je" \in Jumps /\ "je" # "jmp" /\ 0 \in Nat
  BY DEF Jumps
<1>2. Leads(p, <<Pop(Reg("rax")), Compare("rax", Imm(0)), Jump("je", l)>>, <<o, 0 + 1>>, <<o, 0>>, P, {})
  BY <1>1, TestLeads
<1> QED  BY <1>2 DEF Condition

LEMMA IfWhole ==
    ASSUME NEW p, NEW o, NEW f, Placed(p, o, f), NEW I, NEW S, Leaves(p, o, I, S),
           NEW i, i.child[1] \in Exps(Scope(f)), i.child[2] \in S,
           Len(i.child) = 2 \/ (Len(i.child) = 3 /\ i.child[3] \in S), NEW out \in Counters
    PROVE  Whole(p, o, If(f, I, i, out), 0, 0)
<1> DEFINE n == out.cmp
           else == <<o, "else", n>>
           end == <<o, "end_if", n>>
           L == {<<else, <<o, 0>>>>, <<end, <<o, 0>>>>}
           M == {<<else, <<o, 0>>>>}
           N == {<<end, <<o, 0>>>>}
           from == [out EXCEPT !.cmp = @ + 1]
           test == Expr(f)[i.child[1], from]
           cond == Emit(test, Condition(else))
           fst == I[i.child[2], Behind(cond)]
           then == Emit(fst, <<Jump("jmp", end), Label(else)>>)
           other == IF Len(i.child) = 3 THEN I[i.child[3], Behind(then)] ELSE Write(<<>>, then)
           both == Then(then, other)
           all == Then(cond, both)
           whole == Emit(all, <<Label(end)>>)
<1>0. o \in STRING /\ o # "_start" /\ f.func.ident = o
  BY DEF Placed
<1>1. If(f, I, i, out) = whole
  BY <1>0 DEF If, Local
<1>2. from \in Counters
  BY CountersAre, CountersGrow
<1>3. "else" \in LocalNames /\ "end_if" \in LocalNames /\ 0 \in Nat
  BY DEF LocalNames
<1>4. Leads(p, Condition(else), <<o, 0 + 1>>, <<o, 0>>, L, {})
  <2>1. <<else, <<o, 0>>>> \in L
    OBVIOUS
  <2> HIDE DEF L, else
  <2> QED  BY <1>0, <2>1, ConditionLeads
<1>5. Leads(p, <<Jump("jmp", end), Label(else)>>, <<o, 0>>, <<o, 0>>, L, M)
  <2>1. <<end, <<o, 0>>>> \in L
    OBVIOUS
  <2> HIDE DEF L, end, n
  <2> QED  BY <1>0, <1>3, <2>1, BranchLeads
<1>6. Leads(p, <<Label(end)>>, <<o, 0>>, <<o, 0>>, L, N)
  <2>1. Onward(p, Label(end), <<o, 0>>, <<o, 0>>)
    <3> HIDE DEF n
    <3> QED  BY <1>0, <1>3, LabelRule
  <2> HIDE DEF L, end
  <2> QED  BY <2>1, LeadsLabel
<1> HIDE DEF from, L, M, N, else, end
<1>7. Whole(p, o, test, 0, 0 + 1)
  BY <1>2, ExprWhole DEF Pushes, LeadsAll
<1> HIDE DEF test
<1>8. Open(p, o, cond, 0, 0, L, {} \cup {})
  <2>1. Open(p, o, test, 0, 0 + 1, L, {})
    BY <1>7, WholeOpen
  <2> QED  BY <1>4, <2>1, OpenEmit
<1> HIDE DEF cond
<1>9. Open(p, o, fst, 0, 0, L, {})
  <2>1. Behind(cond) \in Counters
    BY <1>8, BehindOpen
  <2>2. Whole(p, o, fst, 0, 0)
    BY <2>1 DEF Leaves, LeadsAll
  <2> QED  BY <2>2, WholeOpen
<1> HIDE DEF fst
<1>10. Open(p, o, then, 0, 0, L, {} \cup M)
  BY <1>5, <1>9, OpenEmit
<1> HIDE DEF then
<1>11. Behind(then) \in Counters /\ then.cmp \in Nat /\ then.bool \in Nat
  BY <1>10, BehindOpen DEF Open, Way, Block
<1>12. Open(p, o, other, 0, 0, L, {})
  <2>1. CASE Len(i.child) = 3
    <3>1. Whole(p, o, I[i.child[3], Behind(then)], 0, 0)
      BY <1>11, <2>1 DEF Leaves, LeadsAll
    <3>2. Open(p, o, I[i.child[3], Behind(then)], 0, 0, L, {})
      BY <3>1, WholeOpen
    <3> QED  BY <2>1, <3>2
  <2>2. CASE Len(i.child) # 3
    <3>1. <<o, 0>> \in Sites
      BY <1>0 DEF Sites
    <3>2. Leads(p, <<>>, <<o, 0>>, <<o, 0>>, L, {})
      BY <3>1, LeadsNone
    <3>3. Open(p, o, Write(<<>>, then), 0, 0, L, {})
      BY <1>11, <3>2, OpenWrite
    <3> QED  BY <2>2, <3>3
  <2> QED  BY <2>1, <2>2
<1> HIDE DEF other
<1>13. Open(p, o, both, 0, 0, L, ({} \cup M) \cup {})
  BY <1>10, <1>12, OpenThen
<1> HIDE DEF both
<1>14. Open(p, o, all, 0, 0, L, ({} \cup {}) \cup (({} \cup M) \cup {}))
  BY <1>8, <1>13, OpenThen
<1> HIDE DEF all
<1>15. Open(p, o, whole, 0, 0, L, (({} \cup {}) \cup (({} \cup M) \cup {})) \cup N)
  BY <1>6, <1>14, OpenEmit
<1>16. (({} \cup {}) \cup (({} \cup M) \cup {})) \cup N = L
  BY DEF L, M, N
<1> HIDE DEF whole
<1>17. Whole(p, o, whole, 0, 0)
  BY <1>15, <1>16, WholeOpen
<1> QED  BY <1>1, <1>17

LEMMA WhileWhole ==
    ASSUME NEW p, NEW o, NEW f, Placed(p, o, f), NEW I, NEW S, Leaves(p, o, I, S),
           NEW i, i.child[1] \in Exps(Scope(f)), i.child[2] \in S, NEW out \in Counters
    PROVE  Whole(p, o, While(f, I, i, out), 0, 0)
<1> DEFINE n == out.cmp
           start == <<o, "while_start", n>>
           end == <<o, "end_while", n>>
           L == {<<start, <<o, 0>>>>, <<end, <<o, 0>>>>}
           M == {<<start, <<o, 0>>>>}
           N == {<<end, <<o, 0>>>>}
           from == [out EXCEPT !.cmp = @ + 1]
           init == Write(<<Label(start)>>, from)
           test == Expr(f)[i.child[1], Behind(init)]
           cond == Emit(test, Condition(end))
           fst == I[i.child[2], Behind(cond)]
           body == Emit(fst, <<Jump("jmp", start), Label(end)>>)
           loop == Then(cond, body)
           whole == Then(init, loop)
<1>0. o \in STRING /\ o # "_start" /\ f.func.ident = o
  BY DEF Placed
<1>1. While(f, I, i, out) = whole
  BY <1>0 DEF While, Local
<1>2. from \in Counters /\ from.cmp \in Nat /\ from.bool \in Nat
  BY CountersAre, CountersGrow
<1>3. "while_start" \in LocalNames /\ "end_while" \in LocalNames /\ 0 \in Nat
  BY DEF LocalNames
<1>4. Leads(p, <<Label(start)>>, <<o, 0>>, <<o, 0>>, L, M)
  <2>1. Onward(p, Label(start), <<o, 0>>, <<o, 0>>)
    <3> HIDE DEF n
    <3> QED  BY <1>0, <1>3, LabelRule
  <2> HIDE DEF L, start
  <2> QED  BY <2>1, LeadsLabel
<1>5. Leads(p, Condition(end), <<o, 0 + 1>>, <<o, 0>>, L, {})
  <2>1. <<end, <<o, 0>>>> \in L
    OBVIOUS
  <2> HIDE DEF L, end
  <2> QED  BY <1>0, <2>1, ConditionLeads
<1>6. Leads(p, <<Jump("jmp", start), Label(end)>>, <<o, 0>>, <<o, 0>>, L, N)
  <2>1. <<start, <<o, 0>>>> \in L
    OBVIOUS
  <2> HIDE DEF L, start, n
  <2> QED  BY <1>0, <1>3, <2>1, BranchLeads
<1> HIDE DEF from, L, M, N, start, end
<1>7. Open(p, o, init, 0, 0, L, M)
  BY <1>2, <1>4, OpenWrite
<1> HIDE DEF init
<1>8. Whole(p, o, test, 0, 0 + 1)
  <2>1. Behind(init) \in Counters
    BY <1>7, BehindOpen
  <2> QED  BY <2>1, ExprWhole DEF Pushes, LeadsAll
<1> HIDE DEF test
<1>9. Open(p, o, cond, 0, 0, L, {} \cup {})
  <2>1. Open(p, o, test, 0, 0 + 1, L, {})
    BY <1>8, WholeOpen
  <2> QED  BY <1>5, <2>1, OpenEmit
<1> HIDE DEF cond
<1>10. Open(p, o, fst, 0, 0, L, {})
  <2>1. Behind(cond) \in Counters
    BY <1>9, BehindOpen
  <2>2. Whole(p, o, fst, 0, 0)
    BY <2>1 DEF Leaves, LeadsAll
  <2> QED  BY <2>2, WholeOpen
<1> HIDE DEF fst
<1>11. Open(p, o, body, 0, 0, L, {} \cup N)
  BY <1>6, <1>10, OpenEmit
<1> HIDE DEF body
<1>12. Open(p, o, loop, 0, 0, L, ({} \cup {}) \cup ({} \cup N))
  BY <1>9, <1>11, OpenThen
<1> HIDE DEF loop
<1>13. Open(p, o, whole, 0, 0, L, M \cup (({} \cup {}) \cup ({} \cup N)))
  BY <1>7, <1>12, OpenThen
<1>14. M \cup (({} \cup {}) \cup ({} \cup N)) = L
  BY DEF L, M, N
<1> HIDE DEF whole
<1>15. Whole(p, o, whole, 0, 0)
  BY <1>13, <1>14, WholeOpen
<1> QED  BY <1>1, <1>15

LEMMA SuiteWhole ==
    ASSUME NEW p, NEW o \in STRING, NEW I, NEW S, Leaves(p, o, I, S), NEW list \in Seq(S), NEW out \in Counters
    PROVE  Whole(p, o, Each(I, list, out), 0, 0)
<1> DEFINE v == [k \in Nat |-> 0]
<1>1. v \in [Nat -> Nat] /\ \A k \in Nat : v[k] = 0 /\ v[k + 1] = 0
  OBVIOUS
<1>2. v[0] = 0 /\ v[Len(list)] = 0
  OBVIOUS
<1> HIDE DEF v
<1>3. \A k \in Nat : LeadsAll(p, o, I, S, v[k], v[k + 1])
  BY <1>1 DEF Leaves
<1>4. Whole(p, o, Each(I, list, out), v[0], v[Len(list)])
  BY <1>1, <1>3, EachWhole
<1> QED  BY <1>2, <1>4

LEMMA InstrOverWhole ==
    ASSUME NEW p, NEW o, NEW f, Placed(p, o, f), NEW I, NEW lower, Leaves(p, o, I, lower),
           NEW i \in InstrNodes(Scope(f), Exps(Scope(f)), lower), NEW out \in Counters
    PROVE  Whole(p, o, InstrOver(f, I, i, out), 0, 0)
<1> DEFINE exps == Exps(Scope(f))
<1>0. o \in STRING
  BY DEF Placed
<1>1. InstrForm(Scope(f), exps, lower, i)
  BY InstrNodesAre
<1> HIDE DEF exps
<1>2. CASE i.label = "EmptyInstr"
  <2>1. InstrOver(f, I, i, out) = Write(<<>>, out)
    BY <1>2 DEF InstrOver
  <2>2. Whole(p, o, Write(<<>>, out), 0, 0)
    <3>1. 0 \in Int
      OBVIOUS
    <3> QED  BY <1>0, <3>1, NoText
  <2> QED  BY <2>1, <2>2
<1>3. CASE i.label = "Return"
  <2>1. i.child = <<>> \/ i.child[1] \in exps
    BY <1>1, <1>3 DEF InstrForm, IsCallOver
  <2>2. InstrOver(f, I, i, out) = Return(f, i, out)
    BY <1>3 DEF InstrOver
  <2> QED  BY <2>1, <2>2, ReturnWhole DEF exps
<1>4. CASE i.label = "Assignation"
  <2>1. IsTarget(Scope(f), exps, i.child[1]) /\ i.child[2] \in exps
    BY <1>1, <1>4 DEF InstrForm, IsCallOver
  <2>2. InstrOver(f, I, i, out) = Assignation(f, i, out)
    BY <1>4 DEF InstrOver
  <2> QED  BY <2>1, <2>2, AssignationWhole DEF exps
<1>5. CASE i.label = "Ident"
  <2>1. IsCallOver(Scope(f), exps, i)
    BY <1>1, <1>5 DEF InstrForm
  <2>2. InstrOver(f, I, i, out) = Call(f, Expr(f), i, out)
    BY <1>5 DEF InstrOver
  <2>3. Pushes(p, o, Expr(f), exps)
    BY ExprWhole DEF exps
  <2> QED  BY <2>1, <2>2, <2>3, CallWhole
<1>6. CASE i.label = "If"
  <2>1. /\ i.child[1] \in exps /\ i.child[2] \in lower
        /\ Len(i.child) = 2 \/ (Len(i.child) = 3 /\ i.child[3] \in lower)
    BY <1>1, <1>6 DEF InstrForm, IsCallOver
  <2>2. InstrOver(f, I, i, out) = If(f, I, i, out)
    BY <1>6 DEF InstrOver
  <2> QED  BY <2>1, <2>2, IfWhole DEF exps
<1>7. CASE i.label = "While"
  <2>1. i.child[1] \in exps /\ i.child[2] \in lower
    BY <1>1, <1>7 DEF InstrForm, IsCallOver
  <2>2. InstrOver(f, I, i, out) = While(f, I, i, out)
    BY <1>7 DEF InstrOver
  <2> QED  BY <2>1, <2>2, WhileWhole DEF exps
<1>8. CASE i.label = "SuiteInstr"
  <2>1. i.child \in Seq(lower)
    BY <1>1, <1>8 DEF InstrForm, IsCallOver
  <2>2. InstrOver(f, I, i, out) = Each(I, i.child, out)
    BY <1>8 DEF InstrOver, SuiteInst
  <2> QED  BY <1>0, <2>1, <2>2, SuiteWhole
<1>9. i.label \in {"EmptyInstr", "Return", "Assignation", "Ident", "If", "While", "SuiteInstr"}
  BY <1>1 DEF InstrForm, IsCallOver
<1> QED  BY <1>2, <1>3, <1>4, <1>5, <1>6, <1>7, <1>8, <1>9

\* No instruction leaves anything on the stack.
LEMMA InstrWhole ==
    ASSUME NEW p, NEW o, NEW f, Placed(p, o, f)
    PROVE  Leaves(p, o, Instr(f), Instrs(Scope(f)))
<1> DEFINE instrs == InstrsUpTo(Scope(f))
           upTo == InstrUpTo(f)
           S == {h \in 0 .. Height : Leaves(p, o, upTo[h], instrs[h])}
<1>1. InstrLevels(Scope(f), Exps(Scope(f)), Height, instrs)
  BY InstrLevelsAre
<1>2. 0 \in S
  <2>1. instrs[0] = {} /\ 0 \in 0 .. Height
    BY <1>1, HeightAssumption DEF InstrLevels
  <2>2. Leaves(p, o, upTo[0], instrs[0])
    BY <2>1 DEF Leaves, LeadsAll
  <2> QED  BY <2>1, <2>2
<1>3. ASSUME NEW k \in 0 .. Height, k + 1 \in 0 .. Height, k \in S PROVE k + 1 \in S
  <2>1. k + 1 \in 1 .. Height /\ (k + 1) - 1 = k
    BY <1>3, HeightAssumption
  <2>2. instrs[k + 1] = InstrNodes(Scope(f), Exps(Scope(f)), instrs[k])
    BY <1>1, <2>1 DEF InstrLevels
  <2>3. instrs[k + 1] \subseteq InstrsUpTo(AnyScope)[k + 1]
    <3>1. Narrower(Scope(f), AnyScope)
      BY ScopeIs
    <3> QED  BY <1>3, <3>1, InstrsGrow
  <2>4. ASSUME NEW n \in instrs[k + 1], NEW out \in Counters
        PROVE  Whole(p, o, upTo[k + 1][n, out], 0, 0)
    <3>1. upTo[k + 1][n, out] = InstrOver(f, upTo[k], n, out)
      BY <2>1, <2>3, InstrCodeAre
    <3>2. n \in InstrNodes(Scope(f), Exps(Scope(f)), instrs[k]) /\ Leaves(p, o, upTo[k], instrs[k])
      BY <1>3, <2>2
    <3> HIDE DEF instrs, upTo
    <3>3. Whole(p, o, InstrOver(f, upTo[k], n, out), 0, 0)
      BY <3>2, InstrOverWhole
    <3> QED  BY <3>1, <3>3
  <2>5. Leaves(p, o, upTo[k + 1], instrs[k + 1])
    <3> HIDE DEF instrs, upTo
    <3> QED  BY <2>4 DEF Leaves, LeadsAll
  <2> QED  BY <1>3, <2>5
<1> HIDE DEF S
<1>4. 0 .. Height \subseteq S
  BY <1>2, <1>3, Reaches, HeightAssumption
<1> QED  BY <1>4, HeightAssumption DEF S, Instr, Instrs
-----------------------------------------------------------------------------
(* Sites of functions and of programs                                      *)

\* The arguments in registers have their words in the frame.
Filled(f) == /\ InRegisters(f.func) \in Nat
             /\ \A i \in 1 .. InRegisters(f.func) : Mem("rbp", Param(f.func, i - 1).addr) \in CellsOf(f)

LEMMA FrameStartLeads ==
    ASSUME NEW p, NEW o \in STRING, Filled(FnOf(p, o))
    PROVE  Leads(p, FrameStart(FnOf(p, o).func), <<o, Entered>>, <<o, 0>>, {}, {})
<1> DEFINE f == FnOf(p, o)
           n == InRegisters(f.func)
           a == Push(Reg("rbp"))
           b == Mov(Reg("rbp"), Reg("rsp"))
           c == Compute("sub", "rsp", Imm(FrameOf(f)))
           movs == [i \in 1 .. n |-> Mov(Mem("rbp", Param(f.func, i - 1).addr), Reg(ParamReg[i]))]
           v == [i \in 1 .. n + 1 |-> 0]
<1>1. FrameStart(f.func) = <<a, b, c>> \o movs
  BY DEF FrameStart, FrameOf
<1>2. /\ Quiet(p, a, <<o, Entered>>, <<o, Saved>>) /\ Quiet(p, b, <<o, Saved>>, <<o, Framed>>)
      /\ Quiet(p, c, <<o, Framed>>, <<o, 0>>)
  BY FrameRules
<1>3. n \in Nat
  BY DEF Filled
<1>4. ASSUME NEW i \in 1 .. n PROVE Quiet(p, movs[i], <<o, 0>>, <<o, 0>>)
  <2> DEFINE x == Mem("rbp", Param(f.func, i - 1).addr)
             y == Reg(ParamReg[i])
  <2>1. x \in CellsOf(f)
    BY DEF Filled
  <2>2. movs[i] = Mov(x, y)
    OBVIOUS
  <2> HIDE DEF x, y, movs, f
  <2>3. 0 \in Nat
    OBVIOUS
  <2>4. Quiet(p, Mov(x, y), <<o, 0>>, <<o, 0>>)
    BY <2>1, <2>3, MovRule DEF f
  <2> QED  BY <2>2, <2>4
<1>5. movs \in Seq({movs[i] : i \in 1 .. n}) /\ Len(movs) = n
  <2> DEFINE A == {movs[i] : i \in 1 .. n}
  <2>1. DOMAIN movs = 1 .. n /\ movs \in [1 .. n -> A]
    OBVIOUS
  <2> HIDE DEF movs, A, n
  <2>2. movs \in Seq(A)
    BY <1>3, <2>1
  <2>3. Len(movs) = n
    BY <1>3, <2>1, <2>2
  <2> QED  BY <2>2, <2>3 DEF A
<1> HIDE DEF f, a, b, c, movs, n
<1>6. v \in [1 .. n + 1 -> Int] /\ \A i \in 1 .. n : v[i] = 0 /\ v[i + 1] = 0
  BY <1>3
<1>7. v[1] = 0 /\ v[n + 1] = 0
  BY <1>3
<1> HIDE DEF v
<1>8. Leads(p, movs, <<o, v[1]>>, <<o, v[Len(movs) + 1]>>, {}, {})
  <2>1. v \in [1 .. Len(movs) + 1 -> Int]
    BY <1>5, <1>6
  <2>2. \A i \in 1 .. Len(movs) : Quiet(p, movs[i], <<o, v[i]>>, <<o, v[i + 1]>>)
    BY <1>4, <1>5, <1>6
  <2> QED  BY <1>5, <2>1, <2>2, LeadsAlong
<1>9. Leads(p, movs, <<o, 0>>, <<o, 0>>, {}, {})
  BY <1>5, <1>7, <1>8
<1>10. Leads(p, <<a, b, c>>, <<o, Entered>>, <<o, 0>>, {}, {})
  BY <1>2, QuietThree
<1>11. Leads(p, <<a, b, c>> \o movs, <<o, Entered>>, <<o, 0>>, {}, {})
  BY <1>9, <1>10, LeadsThen
<1> QED  BY <1>1, <1>11 DEF f

\* The text of a function, whatever comes behind it.
LEMMA FunctionLeads ==
    ASSUME NEW p, p.globals \in Seq(Declarations), p.functions \in Seq(Definitions), Translatable(p),
           NEW i \in DOMAIN p.functions,
           Placed(p, p.functions[i].ident, FnOf(p, p.functions[i].ident)),
           Filled(FnOf(p, p.functions[i].ident)),
           NEW out \in Counters, NEW t \in Sites
    PROVE  LET d == p.functions[i]
               r == DeclFonct(ProgramTables(p), d, out)
           IN Block(r) /\ \E G : Leads(p, r.text, <<d.ident, Entered>>, t, G, G)
<1> DEFINE d == p.functions[i]
           o == d.ident
           f == Within(ProgramTables(p), d)
           l == FunctionLabel(o)
           start == FrameStart(f.func)
           a == <<Label(l)>>
           end == FrameEnd \o Ret
           head == Write(a \o start, out)
           suite == SuiteInst(Instr(f), d.body.child, out)
           body == Emit(suite, end)
           whole == Then(head, body)
<1>1. DeclFonct(ProgramTables(p), d, out) = whole
  BY DEF DeclFonct
<1>2. f = FnOf(p, o) /\ Placed(p, o, f) /\ Filled(f)
  <2>1. f = FnOf(p, o)
    BY DEF FnOf, Within
  <2> QED  BY <2>1
<1>3. d.body.child \in Seq(Instrs(Scope(f)))
  <2>1. d.body \in Bodies(Scope(f))
    BY DEF Translatable
  <2> HIDE DEF d, f
  <2> QED  BY <2>1 DEF Bodies, Nodes
<1> HIDE DEF d, f
<1>4. o \in STRING /\ o # "_start"
  BY <1>2 DEF Placed
<1> HIDE DEF o
<1>5. Onward(p, Label(l), <<o, Entered>>, <<o, Entered>>)
  BY <1>4, FrameRules
<1> DEFINE M == {<<l, <<o, Entered>>>>}
<1>6. Leads(p, a, <<o, Entered>>, <<o, Entered>>, {}, M)
  BY <1>5, LeadsLabel
<1>7. Leads(p, a, <<o, Entered>>, <<o, Entered>>, {}, {})
  BY <1>6, LeadsLess
<1>8. Leads(p, start, <<o, Entered>>, <<o, 0>>, {}, {})
  BY <1>2, <1>4, FrameStartLeads
<1> HIDE DEF a, start, l
<1>9. Leads(p, a \o start, <<o, Entered>>, <<o, 0>>, {}, {})
  BY <1>7, <1>8, LeadsThen
<1>10. Whole(p, o, suite, 0, 0)
  <2>1. Leaves(p, o, Instr(f), Instrs(Scope(f)))
    BY <1>2, InstrWhole
  <2>2. Whole(p, o, Each(Instr(f), d.body.child, out), 0, 0)
    BY <1>3, <1>4, <2>1, SuiteWhole
  <2> QED  BY <2>2 DEF SuiteInst
<1> HIDE DEF suite
<1>11. PICK G : Way(p, o, suite, 0, 0, G, G)
  BY <1>10 DEF Whole
<1>12. Block(suite) /\ Leads(p, suite.text, <<o, 0>>, <<o, 0>>, G, G)
  BY <1>11 DEF Way
<1>13. Leads(p, end, <<o, 0>>, t, G, {})
  <2>1. 0 \in Nat
    OBVIOUS
  <2>2. Leads(p, end, <<o, 0>>, t, {}, {})
    BY <1>4, <2>1, EndingLeads
  <2> HIDE DEF end
  <2> QED  BY <2>2, LeadsLess
<1> HIDE DEF end
<1>14. body = [text |-> suite.text \o end, cmp |-> suite.cmp, bool |-> suite.bool]
  BY <1>12, BlockIs
<1>15. Block(body) /\ body.text = suite.text \o end
  BY <1>12, <1>14, BlockMade DEF Block
<1>16. Leads(p, body.text, <<o, 0>>, t, G, G)
  <2>1. Leads(p, suite.text \o end, <<o, 0>>, t, G, G \cup {})
    BY <1>12, <1>13, LeadsBoth
  <2>2. G \cup {} = G
    OBVIOUS
  <2> QED  BY <1>15, <2>1, <2>2
<1> HIDE DEF body
<1>17. head.text = a \o start
  BY DEF Write
<1> HIDE DEF head
<1>18. whole = [text |-> head.text \o body.text, cmp |-> body.cmp, bool |-> body.bool]
  BY <1>15, BlockIs
<1> HIDE DEF whole
<1>19. Block(whole) /\ whole.text = head.text \o body.text
  BY <1>15, <1>18, BlockMade DEF Block
<1>20. Leads(p, whole.text, <<o, Entered>>, t, G, G)
  <2>1. Leads(p, head.text, <<o, Entered>>, <<o, 0>>, G, {})
    BY <1>9, <1>17, LeadsLess
  <2>2. Leads(p, head.text \o body.text, <<o, Entered>>, t, G, {} \cup G)
    BY <1>16, <2>1, LeadsBoth
  <2>3. {} \cup G = G
    OBVIOUS
  <2> QED  BY <1>19, <2>2, <2>3
<1> QED  BY <1>1, <1>19, <1>20 DEF d, o

\* All functions of a program: each one is placed, and its arguments are.
AllPlaced(p) == \A i \in DOMAIN p.functions : /\ Placed(p, p.functions[i].ident, FnOf(p, p.functions[i].ident))
                                             /\ Filled(FnOf(p, p.functions[i].ident))
\* A text of functions may come before any site.
Chained(p, r) == Block(r) /\ \A t \in Sites : \E s \in Sites : \E G : Leads(p, r.text, s, t, G, G)

LEMMA ChainedThen ==
    ASSUME NEW p, NEW r, Chained(p, r), NEW q, Block(q), NEW s, s \in Sites,
           \A t \in Sites : \E G : Leads(p, q.text, s, t, G, G)
    PROVE  Chained(p, Then(r, q))
<1> DEFINE w == Then(r, q)
<1>1. w = [text |-> r.text \o q.text, cmp |-> q.cmp, bool |-> q.bool]
  BY BlockIs
<1> HIDE DEF w
<1>2. Block(w) /\ w.text = r.text \o q.text
  BY <1>1, BlockMade DEF Block
<1>3. ASSUME NEW t \in Sites PROVE \E z \in Sites : \E G : Leads(p, w.text, z, t, G, G)
  <2>1. PICK H : Leads(p, q.text, s, t, H, H)
    OBVIOUS
  <2>2. PICK z \in Sites : \E G : Leads(p, r.text, z, s, G, G)
    BY DEF Chained
  <2>5. PICK G : Leads(p, r.text, z, s, G, G)
    BY <2>2
  <2>3. Leads(p, r.text, z, s, G \cup H, G) /\ Leads(p, q.text, s, t, G \cup H, H)
    BY <2>1, <2>5, LeadsLess
  <2>4. Leads(p, r.text \o q.text, z, t, G \cup H, G \cup H)
    BY <2>3, LeadsBoth
  <2> QED  BY <1>2, <2>4
<1>4. Chained(p, w)
  BY <1>2, <1>3 DEF Chained
<1> QED  BY <1>4 DEF w

LEMMA FunctionsLead ==
    ASSUME NEW p, p.globals \in Seq(Declarations), p.functions \in Seq(Definitions), Translatable(p),
           AllPlaced(p)
    PROVE  LET defined == {p.functions[i] : i \in DOMAIN p.functions}
               pieces == [x \in defined \X Counters |-> DeclFonct(ProgramTables(p), x[1], x[2])]
           IN Chained(p, Each(pieces, p.functions, [cmp |-> 0, bool |-> 0]))
<1> DEFINE defined == {p.functions[i] : i \in DOMAIN p.functions}
           tables == ProgramTables(p)
           pieces == [x \in defined \X Counters |-> DeclFonct(tables, x[1], x[2])]
           out == [cmp |-> 0, bool |-> 0]
           list == p.functions
           n == Len(list)
<1>1. n \in Nat /\ DOMAIN list = 1 .. n
  OBVIOUS
<1>2. out \in Counters
  BY DEF Counters
<1> HIDE DEF tables, out, list
<1>3. \A d \in defined, o \in Counters : pieces[d, o] = DeclFonct(tables, d, o)
  <2> HIDE DEF defined
  <2> QED  OBVIOUS
<1> HIDE DEF pieces, defined
<1>4. PICK g : /\ g[0] = Write(<<>>, out)
               /\ \A k \in 1 .. n : g[k] = Followed(g[k - 1], pieces, list[k])
               /\ Each(pieces, list, out) = g[n]
  <2>1. list \in Seq(Definitions)
    BY DEF list
  <2> QED  BY <2>1, EachOfThem
<1> HIDE DEF n
<1> DEFINE R == {k \in 0 .. n : Chained(p, g[k])}
<1>5. 0 \in R
  <2> DEFINE w == Write(<<>>, out)
  <2>1. Block(w) /\ w.text = <<>>
    <3>1. out.cmp \in Nat /\ out.bool \in Nat
      BY <1>2, CountersAre
    <3> QED  BY <3>1, BlockMade DEF Write
  <2> HIDE DEF w
  <2>2. ASSUME NEW t \in Sites PROVE \E s \in Sites : \E G : Leads(p, w.text, s, t, G, G)
    <3>1. Leads(p, <<>>, t, t, {}, {})
      BY LeadsNone
    <3> QED  BY <2>1, <3>1
  <2>3. Chained(p, w)
    BY <2>1, <2>2 DEF Chained
  <2>4. 0 \in 0 .. n
    BY <1>1
  <2> QED  BY <1>4, <2>3, <2>4 DEF w
<1>6. ASSUME NEW k \in 0 .. n, k + 1 \in 0 .. n, k \in R PROVE k + 1 \in R
  <2>1. k + 1 \in 1 .. n /\ (k + 1) - 1 = k
    BY <1>1, <1>6
  <2>2. g[k + 1] = Followed(g[k], pieces, list[k + 1])
    BY <1>4, <2>1
  <2>3. Chained(p, g[k])
    BY <1>6
  <2> DEFINE z == Behind(g[k])
             i == k + 1
             q == DeclFonct(tables, list[i], z)
             o == list[i].ident
  <2>4. z \in Counters
    BY <2>3, BlockIs DEF Chained
  <2>5. i \in DOMAIN p.functions /\ list[i] \in defined
    <3>1. k + 1 \in DOMAIN list
      BY <1>1, <2>1
    <3> QED  BY <3>1 DEF defined, list
  <2>6. g[k + 1] = Then(g[k], q)
    BY <1>3, <2>2, <2>4, <2>5 DEF Followed
  <2> HIDE DEF z, i
  <2>7. ASSUME NEW t \in Sites PROVE Block(q) /\ \E G : Leads(p, q.text, <<o, Entered>>, t, G, G)
    BY <2>4, <2>5, FunctionLeads DEF AllPlaced, tables, list
  <2>8. <<o, Entered>> \in Sites
    <3>1. o \in STRING
      BY <2>5 DEF AllPlaced, Placed, list
    <3> HIDE DEF o
    <3> QED  BY <3>1, LevelsAre, SitesAre
  <2> HIDE DEF q, o
  <2>9. Chained(p, Then(g[k], q))
    <3> DEFINE s == <<o, Entered>>
    <3>1. s \in Sites
      BY <2>8
    <3>2. Block(q) /\ \A t \in Sites : \E G : Leads(p, q.text, s, t, G, G)
      BY <2>7, <2>8
    <3> HIDE DEF s
    <3> QED  BY <2>3, <3>1, <3>2, ChainedThen
  <2> QED  BY <1>6, <2>6, <2>9
<1> HIDE DEF R
<1>7. n \in R
  <2>1. 0 .. n \subseteq R
    BY <1>1, <1>5, <1>6, Reaches
  <2> QED  BY <1>1, <2>1
<1> QED  BY <1>4, <1>7 DEF R, pieces, defined, tables, out, list, n

\* The call of main is the first one.
LEMMA EntryPointLeads ==
    ASSUME NEW p, "main" \in STRING, "main" \in DOMAIN FnOf(p, "main").functions,
           Extra(FnOf(p, "main").functions["main"]) <= 0, NEW t \in Sites
    PROVE  Leads(p, EntryPoint, <<"main", Outside>>, t, {}, {})
<1> DEFINE l == FunctionLabel("_start")
           s == <<"main", Outside>>
           a == Label(l)
           b == <<"call", FunctionLabel("main")>>
           c == Mov(Reg("rdi"), Reg("rax"))
           d == Mov(Reg("rax"), Imm(60))
           e == <<"syscall">>
<1>1. EntryPoint = <<a, b, c, d, e>>
  BY DEF EntryPoint
<1>2. Onward(p, a, <<"main", Outside>>, <<"main", Outside>>) /\ Quiet(p, e, <<"main", Outside>>, t)
  <2> HIDE DEF l, s
  <2> QED  BY FrameRules DEF l
<1>3. Quiet(p, b, <<"main", Outside>>, <<"main", Outside>>)
  <2>1. Outside \in Nat \cup {Outside}
    OBVIOUS
  <2> QED  BY <2>1, CallRule
<1>4. Quiet(p, c, <<"main", Outside>>, <<"main", Outside>>) /\ Quiet(p, d, <<"main", Outside>>, <<"main", Outside>>)
  <2>1. Outside \in Nat \cup {Outside}
    OBVIOUS
  <2>2. Reg("rdi") \in Results /\ Reg("rax") \in Results
    BY ResultsAre
  <2>3. Quiet(p, Mov(Reg("rdi"), Reg("rax")), <<"main", Outside>>, <<"main", Outside>>)
    BY <2>1, <2>2, MovRule
  <2>4. Quiet(p, Mov(Reg("rax"), Imm(60)), <<"main", Outside>>, <<"main", Outside>>)
    BY <2>1, <2>2, MovRule
  <2> QED  BY <2>3, <2>4
<1>5. a[1] \notin Jumps
  <2>1. a[1] = "label"
    BY DEF Label
  <2>2. "label" \notin Jumps
    BY DEF Jumps
  <2> QED  BY <2>1, <2>2
<1> HIDE DEF a, b, c, d, e
<1>7. Quiet(p, a, s, s) /\ Quiet(p, b, s, s) /\ Quiet(p, c, s, s) /\ Quiet(p, d, s, s) /\ Quiet(p, e, s, t)
  BY <1>2, <1>3, <1>4, <1>5 DEF Quiet
<1> HIDE DEF s
<1>6. Leads(p, <<a, b, c, d, e>>, s, t, {}, {})
  BY <1>7, QuietFive
<1> QED  BY <1>1, <1>6 DEF s

\* Every program has sites for its text, that tell of all its jumps.
LEMMA ProgramLeads ==
    ASSUME NEW p \in Programs, AllPlaced(p), Extra(ProgramTables(p).functions["main"]) <= 0
    PROVE  \E S, G : Sited(p, Prog(p).text, S, G, G) /\ S[1] = <<"main", Outside>>
<1> DEFINE defined == {p.functions[i] : i \in DOMAIN p.functions}
           pieces == [x \in defined \X Counters |-> DeclFonct(ProgramTables(p), x[1], x[2])]
           r == Each(pieces, p.functions, [cmp |-> 0, bool |-> 0])
           s == <<"main", Outside>>
<1>1. /\ p.globals \in Seq(Declarations) /\ p.functions \in Seq(Definitions) /\ Translatable(p)
      /\ \E i \in DOMAIN p.functions : p.functions[i].ident = "main"
  BY ProgramsAssumption
<1>2. Prog(p).text = EntryPoint \o r.text
  BY DEF Prog
<1>3. Chained(p, r)
  BY <1>1, FunctionsLead
<1> HIDE DEF r, s
<1>4. PICK i \in DOMAIN p.functions : p.functions[i].ident = "main"
  BY <1>1
<1>5. "main" \in STRING
  BY <1>4 DEF AllPlaced, Placed
<1>6. s \in Sites
  BY <1>5, LevelsAre, SitesAre DEF s
<1>7. PICK t \in Sites : \E G : Leads(p, r.text, t, s, G, G)
  BY <1>3, <1>6 DEF Chained
<1>8. PICK G : Leads(p, r.text, t, s, G, G)
  BY <1>7
<1>9. FnOf(p, "main").functions = ProgramTables(p).functions
  BY DEF FnOf, Within
<1>10. "main" \in DOMAIN ProgramTables(p).functions
  <2>1. "main" \in DefinedNames(p)
    BY <1>4 DEF DefinedNames
  <2> QED  BY <1>1, <2>1, ProgramTablesAre
<1>11. Leads(p, EntryPoint, s, t, {}, {})
  BY <1>5, <1>7, <1>9, <1>10, EntryPointLeads DEF s
<1>12. Leads(p, EntryPoint, s, t, G, {})
  BY <1>11, LeadsLess
<1>13. Leads(p, EntryPoint \o r.text, s, s, G, {} \cup G)
  BY <1>8, <1>12, LeadsBoth
<1>14. {} \cup G = G
  OBVIOUS
<1>15. Leads(p, Prog(p).text, s, s, G, G)
  BY <1>2, <1>13, <1>14
<1> QED  BY <1>15 DEF Leads, s
-----------------------------------------------------------------------------
(* Addresses                                                               *)

\* Symbols whose size is one of whole words, and one word for a value.
Plainly(X) == {s \in Symbols(X) : \E j \in Nat : s.size = WordSize * j /\ (s.kind = "value" => j = 1)}

\* The first m words of the block of the program are taken, those of values by
\* one each; and so for the words of a frame, of which m0 are not for locals.
LaidGlobals(X) ==
    {t \in Grown("global", X) : \E m \in Nat :
       /\ t.next_addr = WordSize * m
       /\ t.next_addr <= IntMax => \A s \in t.symbols : s.kind = "value" =>
                                     \E k \in 0 .. m - 1 : s.addr = WordSize * k}
LaidLocals(m0) ==
    {t \in Grown("local", {}) : \E m \in Nat :
       /\ m0 <= m /\ t.next_addr = WordSize * m
       /\ t.next_addr <= IntMax => \A s \in t.symbols : s.kind = "value" =>
                                     \E k \in 1 .. m : s.addr = -(WordSize * k)}
\* Parameters, one word each: those of registers first.
PlaceOfParam(i) == IF i < NbRegs THEN -(WordSize * (i + 1))
                   ELSE FirstStackParam + WordSize * (i - NbRegs)
LaidParams ==
    {t \in Grown("param", {}) :
       /\ t.next_addr = WordSize * (IF t.len < NbRegs THEN t.len ELSE NbRegs)
       /\ \A s \in t.symbols : s.index \in 0 .. t.len - 1
       /\ FirstStackParam + WordSize * t.len <= IntMax =>
            /\ t.next_addr_param = FirstStackParam + WordSize * (IF t.len < NbRegs THEN 0 ELSE t.len - NbRegs)
            /\ \A s \in t.symbols : s.addr = PlaceOfParam(s.index)}

LEMMA AddedIs ==
    ASSUME NEW t, NEW s, NEW u \in Add(t, s)
    PROVE  \/ u = t
           \/ /\ ~Declared(t, s.ident) /\ u.type = t.type /\ u.symbols = t.symbols \cup {Place(t, s)}
              /\ u.len = t.len + 1 /\ u.next_addr = NextAddr(t, s.size)
              /\ u.next_addr_param = NextAddrParam(t, s.size)
<1> SUFFICES ASSUME u # t
             PROVE  /\ ~Declared(t, s.ident) /\ u.type = t.type /\ u.symbols = t.symbols \cup {Place(t, s)}
                    /\ u.len = t.len + 1 /\ u.next_addr = NextAddr(t, s.size)
                    /\ u.next_addr_param = NextAddrParam(t, s.size)
  OBVIOUS
<1>1. ~Declared(t, s.ident)
  BY DEF Add
<1>2. Place(t, s).ident = s.ident
  BY DEF Place
<1> DEFINE symbols == t.symbols \cup {Place(t, s)}
<1>3. symbols # t.symbols
  BY <1>1, <1>2 DEF Declared
<1>4. <<t.type, t.len>> \notin FullAt
  BY LayoutAssumption
<1>5. u = Moved(t, s, symbols)
  BY <1>1, <1>4 DEF Add, Stored
<1> HIDE DEF symbols
<1>6. /\ u.type = t.type /\ u.symbols = symbols /\ u.len = t.len + 1 /\ u.next_addr = NextAddr(t, s.size)
      /\ u.next_addr_param = NextAddrParam(t, s.size)
  BY <1>3, <1>5 DEF Moved
<1> QED  BY <1>1, <1>6 DEF symbols

LEMMA ToIntIs == ASSUME NEW n \in Int, -IntMax - 1 <= n, n <= IntMax PROVE ToInt(n) = n
  BY DEF ToInt

LEMMA AddLaidGlobals ==
    ASSUME NEW X, NEW t \in LaidGlobals(X), NEW s \in Plainly(X)
    PROVE  Add(t, s) # {} /\ Add(t, s) \subseteq LaidGlobals(X)
<1>1. t \in Grown("global", X) /\ s \in Symbols(X)
  BY DEF LaidGlobals, Plainly
<1>2. Add(t, s) # {} /\ Add(t, s) \subseteq Grown("global", X)
  BY <1>1, AddGrown
<1>3. PICK m \in Nat : /\ t.next_addr = WordSize * m
                       /\ t.next_addr <= IntMax => \A v \in t.symbols : v.kind = "value" =>
                                                     \E k \in 0 .. m - 1 : v.addr = WordSize * k
  BY DEF LaidGlobals
<1>4. PICK j \in Nat : s.size = WordSize * j /\ (s.kind = "value" => j = 1)
  BY DEF Plainly
<1>5. t.type = "global"
  BY <1>1 DEF Grown
<1>6. ASSUME NEW u \in Add(t, s), u # t PROVE u \in LaidGlobals(X)
  <2>1. u.symbols = t.symbols \cup {Place(t, s)} /\ u.next_addr = NextAddr(t, s.size)
    BY <1>6, AddedIs
  <2>2. u.next_addr = WordSize * (m + j) /\ m + j \in Nat
    BY <1>3, <1>4, <1>5, <2>1 DEF NextAddr, OnCallerStack, WordSize
  <2>3. ASSUME u.next_addr <= IntMax, NEW v \in u.symbols, v.kind = "value"
        PROVE  \E k \in 0 .. (m + j) - 1 : v.addr = WordSize * k
    <3>1. t.next_addr \in Nat /\ t.next_addr <= IntMax
      BY <1>3, <2>2, <2>3, IntMaxAssumption DEF WordSize
    <3>2. CASE v \in t.symbols
      <4>1. PICK k \in 0 .. m - 1 : v.addr = WordSize * k
        BY <1>3, <2>3, <3>1, <3>2
      <4>2. k \in 0 .. (m + j) - 1
        OBVIOUS
      <4> QED  BY <4>1, <4>2
    <3>3. CASE v = Place(t, s)
      <4>1. v.kind = s.kind /\ v.addr = Address(t, s.size)
        BY <3>3 DEF Place
      <4>2. j = 1
        BY <1>4, <2>3, <4>1
      <4>3. v.addr = ToInt(t.next_addr)
        BY <1>5, <4>1 DEF Address, OnCallerStack
      <4>4. v.addr = WordSize * m
        BY <1>3, <3>1, <4>3, ToIntIs, IntMaxAssumption
      <4>5. m \in 0 .. (m + j) - 1
        BY <4>2
      <4> QED  BY <4>4, <4>5
    <3> QED  BY <2>1, <3>2, <3>3
  <2>4. u \in Grown("global", X)
    BY <1>2
  <2> QED  BY <2>2, <2>3, <2>4 DEF LaidGlobals
<1> QED  BY <1>2, <1>6

LEMMA AddLaidLocals ==
    ASSUME NEW m0 \in Nat, NEW t \in LaidLocals(m0), NEW s \in Plainly({})
    PROVE  Add(t, s) # {} /\ Add(t, s) \subseteq LaidLocals(m0)
<1>1. t \in Grown("local", {}) /\ s \in Symbols({})
  BY DEF LaidLocals, Plainly
<1>2. Add(t, s) # {} /\ Add(t, s) \subseteq Grown("local", {})
  BY <1>1, AddGrown
<1>3. PICK m \in Nat : /\ m0 <= m /\ t.next_addr = WordSize * m
                       /\ t.next_addr <= IntMax => \A v \in t.symbols : v.kind = "value" =>
                                                     \E k \in 1 .. m : v.addr = -(WordSize * k)
  BY DEF LaidLocals
<1>4. PICK j \in Nat : s.size = WordSize * j /\ (s.kind = "value" => j = 1)
  BY DEF Plainly
<1>5. t.type = "local"
  BY <1>1 DEF Grown
<1>6. ASSUME NEW u \in Add(t, s), u # t PROVE u \in LaidLocals(m0)
  <2>1. u.symbols = t.symbols \cup {Place(t, s)} /\ u.next_addr = NextAddr(t, s.size)
    BY <1>6, AddedIs
  <2>2. u.next_addr = WordSize * (m + j) /\ m + j \in Nat /\ m0 <= m + j
    BY <1>3, <1>4, <1>5, <2>1 DEF NextAddr, OnCallerStack, WordSize
  <2>3. ASSUME u.next_addr <= IntMax, NEW v \in u.symbols, v.kind = "value"
        PROVE  \E k \in 1 .. m + j : v.addr = -(WordSize * k)
    <3>1. t.next_addr \in Nat /\ t.next_addr <= IntMax
      BY <1>3, <2>2, <2>3, IntMaxAssumption DEF WordSize
    <3>2. CASE v \in t.symbols
      <4>1. PICK k \in 1 .. m : v.addr = -(WordSize * k)
        BY <1>3, <2>3, <3>1, <3>2
      <4>2. k \in 1 .. m + j
        OBVIOUS
      <4> QED  BY <4>1, <4>2
    <3>3. CASE v = Place(t, s)
      <4>1. v.kind = s.kind /\ v.addr = Address(t, s.size)
        BY <3>3 DEF Place
      <4>2. j = 1
        BY <1>4, <2>3, <4>1
      <4>3. v.addr = ToInt(-t.next_addr - s.size)
        BY <1>5, <4>1 DEF Address, OnCallerStack
      <4>4. -t.next_addr - s.size = -(WordSize * (m + j))
        BY <1>3, <1>4 DEF WordSize
      <4>5. v.addr = -(WordSize * (m + j))
        <5> DEFINE a == -(WordSize * (m + j))
        <5>1. a \in Int /\ -IntMax - 1 <= a /\ a <= IntMax
          BY <2>2, <2>3, IntMaxAssumption DEF WordSize
        <5> HIDE DEF a
        <5>2. ToInt(a) = a
          BY <5>1, ToIntIs
        <5> QED  BY <4>3, <4>4, <5>2 DEF a
      <4>6. m + j \in 1 .. m + j
        BY <4>2
      <4> QED  BY <4>5, <4>6
    <3> QED  BY <2>1, <3>2, <3>3
  <2>4. u \in Grown("local", {})
    BY <1>2
  <2> QED  BY <2>2, <2>3, <2>4 DEF LaidLocals
<1> QED  BY <1>2, <1>6

LEMMA AddLaidParams ==
    ASSUME NEW t \in LaidParams, NEW s \in Symbols({}), s.size = WordSize
    PROVE  Add(t, s) # {} /\ Add(t, s) \subseteq LaidParams
<1>1. t \in Grown("param", {})
  BY DEF LaidParams
<1>2. Add(t, s) # {} /\ Add(t, s) \subseteq Grown("param", {})
  BY <1>1, AddGrown
<1> DEFINE n == t.len
           Words(k) == IF k < NbRegs THEN k ELSE NbRegs
           Above(k) == FirstStackParam + WordSize * (IF k < NbRegs THEN 0 ELSE k - NbRegs)
<1>3. /\ t.next_addr = WordSize * Words(n)
      /\ \A v \in t.symbols : v.index \in 0 .. n - 1
      /\ FirstStackParam + WordSize * n <= IntMax =>
           t.next_addr_param = Above(n) /\ \A v \in t.symbols : v.addr = PlaceOfParam(v.index)
  BY DEF LaidParams
<1>4. t.type = "param" /\ n \in Nat /\ NbRegs \in Nat /\ IntMax \in Nat
  BY <1>1, NbRegsAssumption, IntMaxAssumption DEF Grown
<1>5. ASSUME NEW u \in Add(t, s), u # t PROVE u \in LaidParams
  <2>1. /\ u.symbols = t.symbols \cup {Place(t, s)} /\ u.len = n + 1
        /\ u.next_addr = NextAddr(t, WordSize) /\ u.next_addr_param = NextAddrParam(t, WordSize)
    BY <1>5, AddedIs
  <2>2. u.next_addr = WordSize * Words(n + 1)
    BY <1>3, <1>4, <2>1 DEF NextAddr, OnCallerStack, WordSize
  <2>3. Place(t, s).index = n /\ Place(t, s).addr = Address(t, WordSize)
    BY DEF Place
  <2> HIDE DEF n
  <2>4. ASSUME NEW v \in u.symbols PROVE v.index \in 0 .. (n + 1) - 1
    <3>1. n \in 0 .. (n + 1) - 1 /\ 0 .. n - 1 \subseteq 0 .. (n + 1) - 1
      BY <1>4
    <3> QED  BY <1>3, <2>1, <2>3, <3>1
  <2>5. ASSUME FirstStackParam + WordSize * (n + 1) <= IntMax
        PROVE  u.next_addr_param = Above(n + 1) /\ \A v \in u.symbols : v.addr = PlaceOfParam(v.index)
    <3>1. FirstStackParam + WordSize * n <= IntMax
      BY <1>4, <2>5 DEF WordSize, FirstStackParam
    <3>2. t.next_addr_param = Above(n) /\ \A v \in t.symbols : v.addr = PlaceOfParam(v.index)
      BY <1>3, <3>1
    <3>3. CASE n < NbRegs
      <4>1. NextAddrParam(t, WordSize) = t.next_addr_param /\ Address(t, WordSize) = ToInt(-t.next_addr - WordSize)
        BY <1>4, <3>3 DEF NextAddrParam, Address, OnCallerStack, n
      <4>2. Above(n + 1) = Above(n)
        BY <1>4, <3>3 DEF FirstStackParam, WordSize
      <4> DEFINE a == PlaceOfParam(n)
      <4>3. a = -t.next_addr - WordSize
        BY <1>3, <1>4, <3>3 DEF PlaceOfParam, WordSize
      <4>4. a \in Int /\ -IntMax - 1 <= a /\ a <= IntMax
        BY <1>4, <2>5, <3>3 DEF PlaceOfParam, WordSize, FirstStackParam
      <4> HIDE DEF a
      <4>5. Address(t, WordSize) = a
        BY <4>1, <4>3, <4>4, ToIntIs
      <4> QED  BY <2>1, <2>3, <3>2, <4>1, <4>2, <4>5 DEF a
    <3>4. CASE ~(n < NbRegs)
      <4>1. NextAddrParam(t, WordSize) = ToInt(t.next_addr_param + WordSize) /\ Address(t, WordSize) = t.next_addr_param
        BY <1>4, <3>4 DEF NextAddrParam, Address, OnCallerStack, n
      <4> DEFINE a == Above(n + 1)
      <4>2. a = Above(n) + WordSize /\ a \in Int /\ -IntMax - 1 <= a /\ a <= IntMax
        BY <1>4, <2>5, <3>4 DEF FirstStackParam, WordSize
      <4>3. Above(n) = PlaceOfParam(n)
        BY <3>4 DEF PlaceOfParam
      <4> HIDE DEF a
      <4>4. ToInt(a) = a
        BY <4>2, ToIntIs
      <4>5. t.next_addr_param + WordSize = a
        BY <3>2, <4>2
      <4>6. u.next_addr_param = a
        BY <2>1, <4>1, <4>4, <4>5
      <4>7. \A v \in u.symbols : v.addr = PlaceOfParam(v.index)
        BY <2>1, <2>3, <3>2, <4>1, <4>3
      <4> QED  BY <4>6, <4>7 DEF a
    <3> QED  BY <3>3, <3>4
  <2>6. u \in Grown("param", {})
    BY <1>2
  <2> QED  BY <2>1, <2>2, <2>4, <2>5, <2>6 DEF LaidParams
<1> QED  BY <1>2, <1>5

LEMMA SizedIs ==
    ASSUME NEW X, NEW s \in Declarations, Sized(s)
    PROVE  s \in Plainly(X)
<1>1. s \in Symbols(X) /\ s.length \in Nat
  BY DeclaredSymbols DEF Declarations
<1>2. s.kind = "value" => s.length = 1
  BY DEF Sized, Value, Array
<1> QED  BY <1>1, <1>2 DEF Sized, Plainly

LEMMA PassedIs ==
    ASSUME NEW s \in Declarations, Passed(s)
    PROVE  s \in Symbols({}) /\ s.size = WordSize
<1>1. s \in Symbols({})
  BY DeclaredSymbols
<1>2. s.size = WordSize
  BY DEF Passed, Value, ArrayParam
<1> QED  BY <1>1, <1>2

LEMMA ParamsLaid ==
    ASSUME NEW symbols \in Seq(Declarations), \A k \in DOMAIN symbols : Passed(symbols[k])
    PROVE  AddAll(Table("param"), symbols) \in LaidParams
<1> DEFINE X == {s \in Symbols({}) : s.size = WordSize}
<1>1. symbols \in Seq(X)
  <2>1. \A k \in 1 .. Len(symbols) : symbols[k] \in X
    BY PassedIs
  <2> HIDE DEF X
  <2> QED  BY <2>1
<1>2. Table("param") \in LaidParams
  <2>1. Table("param") \in Grown("param", {})
    BY TableGrown
  <2>2. /\ Table("param").next_addr = 0 /\ Table("param").len = 0 /\ Table("param").symbols = {}
        /\ Table("param").next_addr_param = FirstStackParam
    BY DEF Table
  <2> QED  BY <2>1, <2>2, NbRegsAssumption DEF LaidParams, WordSize, FirstStackParam
<1>3. \A t \in LaidParams, s \in X : Add(t, s) # {} /\ Add(t, s) \subseteq LaidParams
  BY AddLaidParams
<1> HIDE DEF X
<1> QED  BY <1>1, <1>2, <1>3, AddAllIn

LEMMA FunctionLaid ==
    ASSUME NEW d \in Definitions, \A k \in DOMAIN d.params : Passed(d.params[k]),
           \A k \in DOMAIN d.locals : Sized(d.locals[k]),
           FirstStackParam + WordSize * ParamCount(FunctionTables(d)) <= IntMax
    PROVE  /\ FunctionTables(d).parameters \in LaidParams
           /\ FunctionTables(d).locals \in LaidLocals(InRegisters(FunctionTables(d)))
<1> DEFINE fst == FunctionTables(d)
           params == AddAll(Table("param"), d.params)
           offset == ToInt(params.next_addr)
           empty == [Table("local") EXCEPT !.next_addr = offset]
           m == InRegisters(fst)
           X == Plainly({})
<1>1. d.params \in Seq(Declarations) /\ d.locals \in Seq(Declarations)
  BY DEF Definitions
<1>2. params \in LaidParams
  BY <1>1, ParamsLaid
<1>3. fst.parameters = params /\ fst.locals = AddAll(empty, d.locals)
  BY DEF FunctionTables
<1> HIDE DEF params, fst
<1>4. params.len \in Nat /\ ParamCount(fst) = params.len
  BY <1>2, <1>3 DEF LaidParams, Grown, ParamCount
<1>5. m \in Nat /\ m <= params.len /\ params.next_addr = WordSize * m
  BY <1>2, <1>4, NbRegsAssumption DEF LaidParams, InRegisters
<1> HIDE DEF m
<1>6. offset = WordSize * m
  <2> DEFINE n == WordSize * m
  <2>1. n \in Int /\ -IntMax - 1 <= n /\ n <= IntMax
    BY <1>4, <1>5, IntMaxAssumption DEF WordSize, FirstStackParam, fst
  <2> HIDE DEF n
  <2> QED  BY <1>5, <2>1, ToIntIs DEF n
<1> HIDE DEF offset
<1>7. empty \in LaidLocals(m)
  <2> DEFINE t == Table("local")
  <2>1. /\ t = [type |-> "local", symbols |-> {}, len |-> 0, next_addr |-> 0,
                next_addr_param |-> FirstStackParam]
    BY DEF Table
  <2>2. empty = [type |-> "local", symbols |-> {}, len |-> 0, next_addr |-> offset,
                 next_addr_param |-> FirstStackParam]
    BY <2>1
  <2> HIDE DEF empty
  <2>3. empty \in Grown("local", {})
    <3>1. offset \in Int
      BY <1>5, <1>6 DEF WordSize
    <3> QED  BY <2>2, <3>1 DEF Grown, FirstStackParam
  <2>4. empty.next_addr = WordSize * m /\ empty.symbols = {}
    BY <1>6, <2>2
  <2>5. m <= m
    BY <1>5
  <2> QED  BY <1>5, <2>3, <2>4, <2>5 DEF LaidLocals
<1>8. d.locals \in Seq(X)
  <2>1. \A k \in 1 .. Len(d.locals) : d.locals[k] \in X
    BY <1>1, SizedIs
  <2> HIDE DEF X
  <2> QED  BY <1>1, <2>1
<1>9. \A t \in LaidLocals(m), s \in X : Add(t, s) # {} /\ Add(t, s) \subseteq LaidLocals(m)
  BY <1>5, AddLaidLocals
<1> HIDE DEF X, empty
<1>10. AddAll(empty, d.locals) \in LaidLocals(m)
  BY <1>7, <1>8, <1>9, AddAllIn
<1> QED  BY <1>2, <1>3, <1>10 DEF fst, m

LEMMA GlobalsLaid ==
    ASSUME NEW p, p.globals \in Seq(Declarations), p.functions \in Seq(Definitions),
           \A i \in DOMAIN p.globals : Sized(p.globals[i])
    PROVE  ProgramTables(p).globals \in LaidGlobals(FunctionNames(p))
<1> DEFINE builtins == [i \in DOMAIN Builtins |-> Function(Builtins[i].ident, Builtins[i].size)]
           functions == [i \in DOMAIN p.functions |-> Function(p.functions[i].ident, 0)]
           first == AddAll(Table("global"), builtins)
           start == [first EXCEPT !.next_addr = 0]
           variables == AddAll(start, p.globals)
           X == FunctionNames(p)
           C == {s \in Symbols(X) : s.kind = "function"}
           T == {t \in Grown("global", X) : \A s \in t.symbols : s.kind = "function"}
<1>1. ProgramTables(p).globals = AddAll(variables, functions)
  BY DEF ProgramTables
<1>2. \A t \in T, s \in C : Add(t, s) # {} /\ Add(t, s) \subseteq T
  <2> SUFFICES ASSUME NEW t \in T, NEW s \in C PROVE Add(t, s) # {} /\ Add(t, s) \subseteq T
    OBVIOUS
  <2>1. t \in Grown("global", X) /\ s \in Symbols(X) /\ s.kind = "function"
    OBVIOUS
  <2>2. Add(t, s) # {} /\ Add(t, s) \subseteq Grown("global", X)
    BY <2>1, AddGrown
  <2>3. ASSUME NEW u \in Add(t, s) PROVE \A v \in u.symbols : v.kind = "function"
    <3>1. u = t \/ u.symbols = t.symbols \cup {Place(t, s)}
      BY AddedIs
    <3>2. Place(t, s).kind = "function"
      BY <2>1 DEF Place
    <3> QED  BY <3>1, <3>2
  <2> QED  BY <2>2, <2>3
<1>3. \A x \in Idents : \A n \in Int : x \in X => Function(x, n) \in C
  <2>1. \A x, n : Function(x, n).kind = "function"
    BY DEF Function
  <2> HIDE DEF X
  <2> QED  BY <2>1, NewSymbols
<1>4. builtins \in Seq(C)
  <2>1. DOMAIN Builtins = 1 .. 4
    BY DEF Builtins
  <2>2. \A i \in DOMAIN Builtins : Builtins[i].ident \in X
    BY DEF FunctionNames, BuiltinNames
  <2>3. \A i \in DOMAIN Builtins : Function(Builtins[i].ident, Builtins[i].size) \in C
    <3> HIDE DEF X, C
    <3> QED  BY <1>3, <2>2, BuiltinsAre
  <2> HIDE DEF C
  <2> QED  BY <2>1, <2>3
<1>5. first \in T
  <2>1. Table("global") \in T
    <3>1. Table("global") \in Grown("global", X)
      BY TableGrown
    <3>2. Table("global").symbols = {}
      BY DEF Table
    <3> QED  BY <3>1, <3>2
  <2> HIDE DEF T, C, builtins
  <2> QED  BY <1>2, <1>4, <2>1, AddAllIn
<1> HIDE DEF first
<1>6. start \in LaidGlobals(X)
  <2>1. start \in Grown("global", X)
    <3>1. first \in Grown("global", X)
      BY <1>5
    <3> HIDE DEF X
    <3> QED  BY <3>1, AtStart
  <2>2. start.next_addr = 0 /\ start.symbols = first.symbols
    <3> DEFINE Fields == [type : {"global"}, symbols : SUBSET Symbols(X), len : Nat, next_addr : Int,
                      next_addr_param : Int]
    <3>1. first \in Fields
      BY <1>5 DEF Grown
    <3>2. first = [type |-> first.type, symbols |-> first.symbols, len |-> first.len,
                   next_addr |-> first.next_addr, next_addr_param |-> first.next_addr_param]
      BY <3>1
    <3>3. start = [type |-> first.type, symbols |-> first.symbols, len |-> first.len,
                   next_addr |-> 0, next_addr_param |-> first.next_addr_param]
      BY <3>2
    <3> HIDE DEF start
    <3> QED  BY <3>3
  <2>3. \A s \in start.symbols : s.kind # "value"
    BY <1>5, <2>2
  <2>4. start.next_addr = WordSize * 0
    BY <2>2 DEF WordSize
  <2> HIDE DEF start
  <2> QED  BY <2>1, <2>3, <2>4 DEF LaidGlobals
<1> HIDE DEF start
<1> DEFINE Y == Plainly(X)
<1>7. \A t \in LaidGlobals(X), s \in Y : Add(t, s) # {} /\ Add(t, s) \subseteq LaidGlobals(X)
  BY AddLaidGlobals
<1>8. p.globals \in Seq(Y)
  <2>1. \A k \in 1 .. Len(p.globals) : p.globals[k] \in Y
    <3> HIDE DEF X
    <3> QED  BY SizedIs
  <2> HIDE DEF Y
  <2> QED  BY <2>1
<1>9. functions \in Seq(Y)
  <2>1. \A i \in DOMAIN p.functions : Function(p.functions[i].ident, 0) \in Y
    <3> SUFFICES ASSUME NEW i \in DOMAIN p.functions PROVE Function(p.functions[i].ident, 0) \in Y
      OBVIOUS
    <3> DEFINE x == p.functions[i].ident
               s == Function(x, 0)
    <3>1. x \in X
      BY DEF FunctionNames, DefinedNames
    <3>2. x \in Idents
      <4>1. p.functions[i] \in Definitions
        OBVIOUS
      <4> QED  BY <4>1 DEF Definitions, Idents
    <3> HIDE DEF x
    <3>3. s \in C
      <4> HIDE DEF C, X
      <4> QED  BY <1>3, <3>1, <3>2
    <3>4. s.size = WordSize * 0 /\ s.kind # "value"
      BY DEF Function, WordSize
    <3> HIDE DEF s
    <3>5. s \in Y
      BY <3>3, <3>4 DEF Plainly
    <3> QED  BY <3>5 DEF s, x
  <2>2. DOMAIN p.functions = 1 .. Len(p.functions) /\ Len(p.functions) \in Nat
    OBVIOUS
  <2>3. functions \in [1 .. Len(p.functions) -> Y]
    <3> HIDE DEF Y
    <3> QED  BY <2>1, <2>2
  <2> HIDE DEF functions, Y
  <2> QED  BY <2>2, <2>3
<1> HIDE DEF Y, X, functions, C, T
<1>10. variables \in LaidGlobals(X)
  BY <1>6, <1>7, <1>8, AddAllIn
<1> HIDE DEF variables
<1>11. AddAll(variables, functions) \in LaidGlobals(X)
  BY <1>7, <1>9, <1>10, AddAllIn
<1> QED  BY <1>1, <1>11 DEF X, functions, variables, start, first

\* The tables of a function are those that its definition makes.
LEMMA TablesByName ==
    ASSUME NEW p, p.globals \in Seq(Declarations), p.functions \in Seq(Definitions),
           \A i, j \in DOMAIN p.functions : p.functions[i].ident = p.functions[j].ident => i = j,
           \A i \in DOMAIN p.functions : p.functions[i].ident \notin BuiltinNames
    PROVE  /\ \A i \in DOMAIN p.functions :
                ProgramTables(p).functions[p.functions[i].ident] = FunctionTables(p.functions[i])
           /\ \A x \in BuiltinNames : ProgramTables(p).functions[x].locals = Table("local")
<1> DEFINE tables == {BuiltinTables(Builtins[i]) : i \in DOMAIN Builtins}
                       \cup {FunctionTables(p.functions[i]) : i \in DOMAIN p.functions}
           byName == [x \in {t.ident : t \in tables} |-> CHOOSE t \in tables : t.ident = x]
<1>1. ProgramTables(p).functions = byName
  BY DEF ProgramTables
<1>2. \A i \in DOMAIN Builtins : BuiltinTables(Builtins[i]).ident = Builtins[i].ident
                                 /\ BuiltinTables(Builtins[i]).locals = Table("local")
  BY DEF BuiltinTables
<1>3. \A i \in DOMAIN p.functions : FunctionTables(p.functions[i]).ident = p.functions[i].ident
  BY DEF FunctionTables
<1>4. ASSUME NEW i \in DOMAIN p.functions
      PROVE  byName[p.functions[i].ident] = FunctionTables(p.functions[i])
  <2> DEFINE u == FunctionTables(p.functions[i])
             x == p.functions[i].ident
  <2>1. u \in tables /\ u.ident = x
    BY <1>3
  <2>2. ASSUME NEW t \in tables, t.ident = x PROVE t = u
    <3>1. CASE \E k \in DOMAIN Builtins : t = BuiltinTables(Builtins[k])
      <4>1. x \in BuiltinNames
        BY <1>2, <2>2, <3>1 DEF BuiltinNames
      <4> QED  BY <4>1
    <3>2. CASE \E k \in DOMAIN p.functions : t = FunctionTables(p.functions[k])
      BY <1>3, <2>2, <3>2
    <3> QED  BY <3>1, <3>2
  <2> HIDE DEF tables, u, x
  <2>3. byName[x] = CHOOSE t \in tables : t.ident = x
    BY <2>1
  <2>4. byName[x] = u
    BY <2>1, <2>2, <2>3
  <2> QED  BY <2>4 DEF u, x
<1>5. ASSUME NEW x \in BuiltinNames PROVE byName[x].locals = Table("local")
  <2>1. PICK k \in DOMAIN Builtins : Builtins[k].ident = x
    BY DEF BuiltinNames
  <2>2. BuiltinTables(Builtins[k]) \in tables /\ BuiltinTables(Builtins[k]).ident = x
    BY <1>2, <2>1
  <2>3. \A t \in tables : t.ident = x => t.locals = Table("local")
    BY <1>2, <1>3
  <2> HIDE DEF tables
  <2> QED  BY <2>2, <2>3
<1> QED  BY <1>1, <1>4, <1>5

\* The words of a frame are those of its locals and of its first parameters.
LEMMA FrameWords ==
    ASSUME NEW f, NEW m \in Nat, FrameOf(f) = WordSize * m
    PROVE  FrameOf(f) \div WordSize = m
<1>1. FrameOf(f) = 8 * m
  BY DEF WordSize
<1>2. (8 * m) \div 8 = m
  OBVIOUS
<1> QED  BY <1>1, <1>2 DEF WordSize

LEMMA ParamPlaced ==
    ASSUME NEW f, f.func.parameters \in LaidParams, f.func.locals \in LaidLocals(InRegisters(f.func)),
           FirstStackParam + WordSize * ParamCount(f.func) <= IntMax, NEW s \in f.func.parameters.symbols
    PROVE  Mem("rbp", s.addr) \in CellsOf(f)
<1> DEFINE t == f.func.parameters
           n == t.len
           i == s.index
           r == InRegisters(f.func)
<1>1. ParamCount(f.func) = n
  BY DEF ParamCount
<1>2. n \in Nat /\ i \in 0 .. n - 1 /\ s.addr = PlaceOfParam(i)
  BY <1>1 DEF LaidParams, Grown
<1>3. r = (IF n < NbRegs THEN n ELSE NbRegs) /\ Extra(f.func) = n - r
  BY <1>1 DEF InRegisters, Extra
<1>4. PICK m \in Nat : r <= m /\ FrameOf(f) = WordSize * m
  BY DEF LaidLocals, FrameOf
<1> HIDE DEF n, i, r, t
<1>5. CASE i < NbRegs
  <2>1. i + 1 \in 1 .. m /\ PlaceOfParam(i) = -(WordSize * (i + 1))
    BY <1>2, <1>3, <1>4, <1>5, NbRegsAssumption DEF PlaceOfParam
  <2>2. FrameOf(f) \div WordSize = m
    BY <1>4, FrameWords
  <2>3. s.addr \in LocalPlaces(f)
    BY <1>2, <2>1, <2>2 DEF LocalPlaces
  <2> QED  BY <2>3 DEF CellsOf
<1>6. CASE ~(i < NbRegs)
  <2>1. i - NbRegs \in 0 .. Extra(f.func) - 1
        /\ PlaceOfParam(i) = FirstStackParam + WordSize * (i - NbRegs)
    BY <1>2, <1>3, <1>6, NbRegsAssumption DEF PlaceOfParam
  <2>2. s.addr \in ArgumentPlaces(f)
    BY <1>2, <2>1 DEF ArgumentPlaces
  <2> QED  BY <2>2 DEF CellsOf
<1> QED  BY <1>5, <1>6

LEMMA ProgramPlaced ==
    ASSUME NEW p \in Programs, NEW i \in DOMAIN p.functions
    PROVE  LET o == p.functions[i].ident
           IN Placed(p, o, FnOf(p, o)) /\ Filled(FnOf(p, o))
<1> DEFINE d == p.functions[i]
           o == d.ident
           f == FnOf(p, o)
           X == FunctionNames(p)
<1>1. /\ p.globals \in Seq(Declarations) /\ p.functions \in Seq(Definitions)
      /\ \A k, j \in DOMAIN p.functions : p.functions[k].ident = p.functions[j].ident => k = j
      /\ \A j \in DOMAIN p.functions : p.functions[j].ident \notin BuiltinNames \cup {"_start"}
  <2>1. {b.ident : b \in Range(Builtins)} = BuiltinNames
    BY DEF BuiltinNames, Range
  <2> QED  BY <2>1, ProgramsAssumption
<1>2. /\ \A j \in DOMAIN p.globals : Sized(p.globals[j])
      /\ ProgramTables(p).globals.next_addr <= IntMax
      /\ \A k \in DOMAIN d.params : Passed(d.params[k])
      /\ \A k \in DOMAIN d.locals : Sized(d.locals[k])
      /\ FirstStackParam + WordSize * ParamCount(FunctionTables(d)) <= IntMax
      /\ FunctionTables(d).locals.next_addr <= IntMax
  BY LayoutAssumption
<1>3. d \in Definitions
  BY <1>1
<1>4. f.func = FunctionTables(d)
  <2>1. ProgramTables(p).functions[o] = FunctionTables(d)
    BY <1>1, TablesByName
  <2>2. f.func = ProgramTables(p).functions[o]
    BY DEF FnOf, Within
  <2> QED  BY <2>1, <2>2
<1>5. f.func.parameters \in LaidParams /\ f.func.locals \in LaidLocals(InRegisters(f.func))
  <2> HIDE DEF d, f
  <2>1. FunctionTables(d).parameters \in LaidParams
        /\ FunctionTables(d).locals \in LaidLocals(InRegisters(FunctionTables(d)))
    BY <1>2, <1>3, FunctionLaid
  <2> QED  BY <1>4, <2>1
<1>6. f.globals \in LaidGlobals(X) /\ f.globals.next_addr <= IntMax
  <2>1. f.globals = ProgramTables(p).globals
    BY DEF FnOf, Within
  <2>2. ProgramTables(p).globals \in LaidGlobals(X)
    BY <1>1, <1>2, GlobalsLaid
  <2> QED  BY <1>2, <2>1, <2>2
<1>7. o \in STRING /\ o # "_start"
  BY <1>1, <1>3 DEF Definitions
<1>8. InTables(f) /\ f.func.ident = o
  <2>1. f = Within(ProgramTables(p), d)
    BY DEF FnOf, Within
  <2>2. InFunction(X, o, Within(ProgramTables(p), d))
    BY <1>1, WithinIs
  <2> QED  BY <2>1, <2>2 DEF InFunction
<1>9. FirstStackParam + WordSize * ParamCount(f.func) <= IntMax /\ FrameOf(f) <= IntMax
  BY <1>2, <1>4 DEF FrameOf
<1>14. f = FnOf(p, o)
  OBVIOUS
<1> HIDE DEF f, d, o, X
<1>10. \A s \in f.func.parameters.symbols : Mem("rbp", s.addr) \in CellsOf(f)
  BY <1>5, <1>9, ParamPlaced
<1>11. ASSUME NEW x, Resolves(f, x), Symbol(f, x).kind = "value"
       PROVE  Cell(f, x) \in CellsOf(f)
  <2> DEFINE s == Symbol(f, x)
             h == Home(f, x)
  <2>1. s \in h.symbols /\ h \in {f.func.locals, f.func.parameters, f.globals}
    BY <1>8, <1>11, SymbolIs DEF Home, ScopeIn
  <2>2. /\ f.func.locals.type = "local" /\ f.func.parameters.type = "param" /\ f.globals.type = "global"
    BY <1>5, <1>6 DEF LaidLocals, LaidParams, LaidGlobals, Grown
  <2>3. Cell(f, x) = Mem(IF h.type = "global" THEN "global_vars" ELSE "rbp", s.addr)
    BY DEF Cell
  <2>4. s.kind = "value"
    BY <1>11
  <2> HIDE DEF s, h
  <2>5. CASE h = f.func.locals
    <3>1. PICK m \in Nat : /\ FrameOf(f) = WordSize * m
                           /\ FrameOf(f) <= IntMax => \A v \in f.func.locals.symbols : v.kind = "value" =>
                                                        \E k \in 1 .. m : v.addr = -(WordSize * k)
      BY <1>5 DEF LaidLocals, FrameOf
    <3>2. PICK k \in 1 .. m : s.addr = -(WordSize * k)
      BY <1>9, <2>1, <2>4, <2>5, <3>1
    <3>3. FrameOf(f) \div WordSize = m
      BY <3>1, FrameWords
    <3>4. s.addr \in LocalPlaces(f)
      BY <3>2, <3>3 DEF LocalPlaces
    <3> QED  BY <2>2, <2>3, <2>5, <3>4 DEF CellsOf
  <2>6. CASE h = f.func.parameters
    BY <1>10, <2>1, <2>2, <2>3, <2>6
  <2>7. CASE h = f.globals
    <3>1. PICK m \in Nat : /\ f.globals.next_addr = WordSize * m
                           /\ f.globals.next_addr <= IntMax =>
                                \A v \in f.globals.symbols : v.kind = "value" =>
                                  \E k \in 0 .. m - 1 : v.addr = WordSize * k
      BY <1>6 DEF LaidGlobals
    <3>2. PICK k \in 0 .. m - 1 : s.addr = WordSize * k
      BY <1>6, <2>1, <2>4, <2>7, <3>1
    <3>3. f.globals.next_addr \div WordSize = m
      <4>1. (8 * m) \div 8 = m
        OBVIOUS
      <4> QED  BY <3>1, <4>1 DEF WordSize
    <3>4. s.addr \in GlobalPlaces(f)
      BY <3>2, <3>3 DEF GlobalPlaces
    <3> QED  BY <2>2, <2>3, <2>7, <3>4 DEF CellsOf
  <2> QED  BY <2>1, <2>5, <2>6, <2>7
<1>12. ASSUME NEW x, Resolves(f, x), Home(f, x).type = "param"
       PROVE  Mem("rbp", Symbol(f, x).addr) \in CellsOf(f)
  <2>1. Symbol(f, x) \in Home(f, x).symbols /\ Home(f, x) \in {f.func.locals, f.func.parameters, f.globals}
    BY <1>8, <1>12, SymbolIs DEF Home, ScopeIn
  <2>2. f.func.locals.type = "local" /\ f.globals.type = "global"
    BY <1>5, <1>6 DEF LaidLocals, LaidGlobals, Grown
  <2>3. Symbol(f, x) \in f.func.parameters.symbols
    BY <1>12, <2>1, <2>2
  <2> QED  BY <1>10, <2>3
<1>13. Filled(f)
  <2> DEFINE t == f.func.parameters
             r == InRegisters(f.func)
  <2>1. t.len \in Nat /\ \A k \in 0 .. t.len - 1 : \E s \in t.symbols : s.index = k
    BY <1>5 DEF LaidParams, Grown
  <2>2. r \in Nat /\ r <= t.len
    BY <2>1, NbRegsAssumption DEF InRegisters, ParamCount
  <2>3. ASSUME NEW k \in 1 .. r PROVE Mem("rbp", Param(f.func, k - 1).addr) \in CellsOf(f)
    <3>1. k - 1 \in 0 .. t.len - 1
      BY <2>1, <2>2
    <3>2. Param(f.func, k - 1) \in t.symbols
      <4>1. \E s \in t.symbols : s.index = k - 1
        BY <2>1, <3>1
      <4> QED  BY <4>1 DEF Param
    <3> QED  BY <1>10, <3>2
  <2> QED  BY <2>2, <2>3 DEF Filled
<1> QED  BY <1>7, <1>8, <1>11, <1>12, <1>13, <1>14 DEF Placed, o, d

\* Every frame and the block of the globals are whole words, and main is called
\* with nothing on the stack.
LEMMA ProgramFrames ==
    ASSUME NEW p \in Programs
    PROVE  /\ DOMAIN ProgramTables(p).functions = FunctionNames(p)
           /\ \A x \in FunctionNames(p) : \E m \in Nat : FrameOf(FnOf(p, x)) = WordSize * m
           /\ \E m \in Nat : ProgramTables(p).globals.next_addr = WordSize * m
           /\ \A x \in FunctionNames(p) : Extra(ProgramTables(p).functions[x]) \in Nat
           /\ Extra(ProgramTables(p).functions["main"]) <= 0
<1>1. /\ p.globals \in Seq(Declarations) /\ p.functions \in Seq(Definitions)
      /\ \A k, j \in DOMAIN p.functions : p.functions[k].ident = p.functions[j].ident => k = j
      /\ \A j \in DOMAIN p.functions : p.functions[j].ident \notin BuiltinNames
      /\ \E j \in DOMAIN p.functions : p.functions[j].ident = "main"
  <2>1. {b.ident : b \in Range(Builtins)} = BuiltinNames
    BY DEF BuiltinNames, Range
  <2> QED  BY <2>1, ProgramsAssumption
<1>2. DOMAIN ProgramTables(p).functions = FunctionNames(p)
  BY <1>1, ProgramTablesAre DEF FunctionNames
<1>3. \A x : FrameOf(FnOf(p, x)) = ProgramTables(p).functions[x].locals.next_addr
  BY DEF FrameOf, FnOf, Within
<1>4. ASSUME NEW i \in DOMAIN p.functions
      PROVE  LET fst == ProgramTables(p).functions[p.functions[i].ident]
             IN fst = FunctionTables(p.functions[i]) /\ \E m \in Nat : fst.locals.next_addr = WordSize * m
  <2> DEFINE d == p.functions[i]
  <2>1. ProgramTables(p).functions[d.ident] = FunctionTables(d)
    BY <1>1, TablesByName
  <2>2. d \in Definitions
    BY <1>1
  <2>3. /\ \A k \in DOMAIN d.params : Passed(d.params[k])
        /\ \A k \in DOMAIN d.locals : Sized(d.locals[k])
        /\ FirstStackParam + WordSize * ParamCount(FunctionTables(d)) <= IntMax
    BY LayoutAssumption
  <2> HIDE DEF d
  <2>4. FunctionTables(d).locals \in LaidLocals(InRegisters(FunctionTables(d)))
    BY <2>2, <2>3, FunctionLaid
  <2>5. \E m \in Nat : FunctionTables(d).locals.next_addr = WordSize * m
    BY <2>4 DEF LaidLocals
  <2> QED  BY <2>1, <2>5 DEF d
<1>5. ASSUME NEW x \in FunctionNames(p) PROVE \E m \in Nat : FrameOf(FnOf(p, x)) = WordSize * m
  <2>1. CASE x \in BuiltinNames
    <3>1. ProgramTables(p).functions[x].locals = Table("local")
      BY <1>1, <2>1, TablesByName
    <3>2. Table("local").next_addr = WordSize * 0 /\ 0 \in Nat
      BY DEF Table, WordSize
    <3> QED  BY <1>3, <3>1, <3>2
  <2>2. CASE x \in DefinedNames(p)
    <3>1. PICK i \in DOMAIN p.functions : x = p.functions[i].ident
      BY <2>2 DEF DefinedNames
    <3> QED  BY <1>3, <1>4, <3>1
  <2> QED  BY <2>1, <2>2 DEF FunctionNames
<1>6. \E m \in Nat : ProgramTables(p).globals.next_addr = WordSize * m
  <2>1. ProgramTables(p).globals \in LaidGlobals(FunctionNames(p))
    BY <1>1, GlobalsLaid, LayoutAssumption
  <2> QED  BY <2>1 DEF LaidGlobals
<1>7. ASSUME NEW x \in FunctionNames(p) PROVE Extra(ProgramTables(p).functions[x]) \in Nat
  <2>1. ProgramTables(p).functions[x].parameters \in Grown("param", {})
    BY <1>1, <1>2, ProgramTablesAre DEF IsFunctionST
  <2> QED  BY <2>1, NbRegsAssumption DEF Grown, Extra, ParamCount, InRegisters
<1>8. Extra(ProgramTables(p).functions["main"]) <= 0
  <2>1. PICK i \in DOMAIN p.functions : p.functions[i].ident = "main"
    BY <1>1
  <2> DEFINE d == p.functions[i]
             fst == FunctionTables(d)
  <2>2. ProgramTables(p).functions["main"] = fst
    BY <1>4, <2>1
  <2>3. d.params = <<>>
    BY <2>1, LayoutAssumption
  <2>4. fst.parameters = AddAll(Table("param"), <<>>)
    BY <2>3 DEF FunctionTables
  <2> HIDE DEF fst, d
  <2>5. AddAll(Table("param"), <<>>) \in {Table("param")}
    <3> DEFINE T == {Table("param")}
    <3>1. \A t \in T, s \in {} : Add(t, s) # {} /\ Add(t, s) \subseteq T
      OBVIOUS
    <3>2. Table("param") \in T /\ <<>> \in Seq({})
      OBVIOUS
    <3> HIDE DEF T
    <3>3. AddAll(Table("param"), <<>>) \in T
      BY <3>1, <3>2, AddAllIn
    <3> QED  BY <3>3 DEF T
  <2>6. ParamCount(fst) = 0
    BY <2>4, <2>5 DEF ParamCount, Table
  <2> QED  BY <2>2, <2>6, NbRegsAssumption DEF Extra, InRegisters
<1> QED  BY <1>2, <1>5, <1>6, <1>7, <1>8

LEMMA ProgramSited ==
    ASSUME NEW p \in Programs
    PROVE  \E S, G : Sited(p, Prog(p).text, S, G, G) /\ S[1] = <<"main", Outside>>
<1>1. AllPlaced(p)
  BY ProgramPlaced DEF AllPlaced
<1>2. Extra(ProgramTables(p).functions["main"]) <= 0
  BY ProgramFrames
<1> QED  BY <1>1, <1>2, ProgramLeads
-----------------------------------------------------------------------------
(* Words of the stack                                                      *)

LEMMA StackAre ==
    /\ StackTop \in Int /\ StackTop + WordSize \in Word /\ StackTop - StackSize \in Word
    /\ \A a \in Stack : a \in Word /\ a \in Int /\ a <= StackTop /\ StackTop - StackSize + WordSize <= a
    /\ \A a, b \in Stack, n \in Nat : a + WordSize * n <= b => a + WordSize * n \in Stack
<1> DEFINE q == StackSize \div WordSize
<1>1. StackTop \in Int /\ StackTop \in Word /\ StackTop + WordSize \in Word /\ StackTop - StackSize \in Word
  BY MachineAssumption, SectionsAssumption, WordsAre
<1>2. StackSize \in Nat /\ StackSize % 8 = 0
  BY MachineAssumption DEF WordSize
<1>3. q \in Int /\ StackSize = 8 * q
  <2>1. \A n \in Nat : n % 8 = 0 => n \div 8 \in Int /\ n = 8 * (n \div 8)
    OBVIOUS
  <2> QED  BY <1>2, <2>1 DEF WordSize
<1> HIDE DEF q
<1>4. Stack = {StackTop - 8 * i : i \in 0 .. q - 1}
  BY DEF Stack, q, WordSize
<1>5. ASSUME NEW a \in Stack
      PROVE  a \in Word /\ a \in Int /\ a <= StackTop /\ StackTop - StackSize + WordSize <= a
  <2>1. PICK i \in 0 .. q - 1 : a = StackTop - 8 * i
    BY <1>4
  <2>2. a \in Int /\ a <= StackTop /\ StackTop - StackSize + 8 <= a
    BY <1>1, <1>3, <2>1
  <2>3. a \in Word
    <3>1. StackTop <= WordMax /\ -WordMax - 1 <= StackTop - StackSize
      BY <1>1 DEF Word
    <3> QED  BY <1>1, <1>2, <2>2, <3>1, WordMaxAssumption DEF Word
  <2> QED  BY <2>2, <2>3 DEF WordSize
<1>6. ASSUME NEW a \in Stack, NEW b \in Stack, NEW n \in Nat, a + WordSize * n <= b
      PROVE  a + WordSize * n \in Stack
  <2>1. PICK i \in 0 .. q - 1 : a = StackTop - 8 * i
    BY <1>4
  <2>2. b <= StackTop /\ b \in Int
    BY <1>5
  <2>3. a + WordSize * n = StackTop - 8 * (i - n)
    BY <1>1, <1>3, <2>1 DEF WordSize
  <2>4. i - n \in 0 .. q - 1
    BY <1>1, <1>3, <1>6, <2>2, <2>3
  <2> QED  BY <1>4, <2>3, <2>4
<1> QED  BY <1>1, <1>5, <1>6

\* Between two words of the stack.
LEMMA StackBetween ==
    ASSUME NEW a \in Stack, NEW b \in Stack, NEW n \in Nat, NEW c, c = a + WordSize * n, c <= b
    PROVE  c \in Stack
  BY StackAre

LEMMA WrapWord == ASSUME NEW n \in Word PROVE Wrap(n) = n
  BY DEF Wrap

\* Wrap only changes a number by a multiple of the number of words.
LEMMA WrapModulo ==
    ASSUME NEW n \in Int
    PROVE  \E k \in Int : Wrap(n) = n - (2 * (WordMax + 1)) * k
<1> DEFINE M == 2 * (WordMax + 1)
<1>1. M \in Nat \ {0} /\ WordMax \in Nat
  BY WordMaxAssumption
<1>2. CASE n \in Word
  <2>1. Wrap(n) = n - M * 0
    BY <1>1, <1>2 DEF Wrap
  <2> QED  BY <2>1
<1>3. CASE n \notin Word
  <2> DEFINE a == n + WordMax + 1
             k == a \div M
  <2>1. \A x \in Int, d \in Nat \ {0} : x \div d \in Int /\ x % d = x - d * (x \div d)
    OBVIOUS
  <2>2. a \in Int
    BY <1>1
  <2>3. Wrap(n) = (a % M) - WordMax - 1
    BY <1>3 DEF Wrap
  <2>7. a = n + WordMax + 1
    OBVIOUS
  <2> HIDE DEF M, a
  <2>4. k \in Int /\ a % M = a - M * k
    BY <1>1, <2>1, <2>2
  <2> HIDE DEF k
  <2>5. M * k \in Int
    BY <1>1, <2>4
  <2>6. Wrap(n) = n - M * k
    BY <1>1, <2>3, <2>4, <2>5, <2>7
  <2> QED  BY <2>4, <2>6 DEF M
<1> QED  BY <1>2, <1>3

LEMMA SameWord ==
    ASSUME NEW a \in Word, NEW b \in Word, NEW k \in Int, a = b + (2 * (WordMax + 1)) * k
    PROVE  a = b
<1> DEFINE M == 2 * (WordMax + 1)
<1>1. M \in Nat /\ M > 0 /\ a \in Int /\ b \in Int /\ a - b < M /\ b - a < M
  BY WordMaxAssumption DEF Word
<1>5. a = b + M * k
  OBVIOUS
<1> HIDE DEF M
<1>2. CASE k = 0
  BY <1>1, <1>2, <1>5
<1>3. CASE k > 0
  <2>1. \A x \in Nat, y \in Int : y > 0 => x <= x * y
    OBVIOUS
  <2>2. M <= M * k
    BY <1>1, <1>3, <2>1
  <2>3. M * k \in Int
    BY <1>1
  <2> QED  BY <1>1, <1>5, <2>2, <2>3
<1>4. CASE k < 0
  <2>1. \A x \in Nat, y \in Int : y < 0 => x * y <= -x
    OBVIOUS
  <2>2. M * k <= -M
    BY <1>1, <1>4, <2>1
  <2>3. M * k \in Int
    BY <1>1
  <2> QED  BY <1>1, <1>5, <2>2, <2>3
<1> QED  BY <1>2, <1>3, <1>4

\* The operand of an addition may be wrapped before it is added.
LEMMA WrapTwice ==
    ASSUME NEW a \in Word, NEW n \in Int
    PROVE  /\ a + n \in Word => Wrap(a + Wrap(n)) = a + n
           /\ a - n \in Word => Wrap(a - Wrap(n)) = a - n
<1> DEFINE M == 2 * (WordMax + 1)
<1>1. M \in Int /\ a \in Int
  BY WordMaxAssumption, WordsAre
<1>2. PICK k \in Int : Wrap(n) = n - M * k
  BY WrapModulo
<1>3. Wrap(n) \in Int
  BY Wrapped, WordsAre
<1>4. ASSUME a + n \in Word PROVE Wrap(a + Wrap(n)) = a + n
  <2> DEFINE s == a + Wrap(n)
  <2>1. s \in Int
    BY <1>1, <1>3
  <2>2. PICK j \in Int : Wrap(s) = s - M * j
    BY <2>1, WrapModulo
  <2>3. Wrap(s) \in Word
    BY <2>1, Wrapped
  <2>8. s = a + Wrap(n)
    OBVIOUS
  <2>5. \A x, y, z \in Int : x * (-y - z) = -(x * y) - (x * z)
    OBVIOUS
  <2> HIDE DEF M, s
  <2>6. M * j \in Int /\ M * k \in Int /\ -j - k \in Int /\ M * (-j - k) = -(M * j) - (M * k)
    BY <1>1, <2>5
  <2>4. Wrap(s) = (a + n) + M * (-j - k)
    BY <1>1, <1>2, <1>3, <2>2, <2>6, <2>8
  <2>7. Wrap(s) = a + n
    BY <1>4, <2>3, <2>4, <2>6, SameWord DEF M
  <2> QED  BY <2>7, <2>8
<1>5. ASSUME a - n \in Word PROVE Wrap(a - Wrap(n)) = a - n
  <2> DEFINE s == a - Wrap(n)
  <2>1. s \in Int
    BY <1>1, <1>3
  <2>2. PICK j \in Int : Wrap(s) = s - M * j
    BY <2>1, WrapModulo
  <2>3. Wrap(s) \in Word
    BY <2>1, Wrapped
  <2>8. s = a - Wrap(n)
    OBVIOUS
  <2>5. \A x, y, z \in Int : x * (z - y) = (x * z) - (x * y)
    OBVIOUS
  <2> HIDE DEF M, s
  <2>6. M * j \in Int /\ M * k \in Int /\ k - j \in Int /\ M * (k - j) = (M * k) - (M * j)
    BY <1>1, <2>5
  <2>4. Wrap(s) = (a - n) + M * (k - j)
    BY <1>1, <1>2, <1>3, <2>2, <2>6, <2>8
  <2>7. Wrap(s) = a - n
    BY <1>5, <2>3, <2>4, <2>6, SameWord DEF M
  <2> QED  BY <2>7, <2>8
<1> QED  BY <1>4, <1>5
-----------------------------------------------------------------------------
(* The calls in progress                                                   *)

SitesOf(p) == CHOOSE S : (\E G : Sited(p, Prog(p).text, S, G, G)) /\ S[1] = <<"main", Outside>>

ExtraOf(p, x) == Extra(ProgramTables(p).functions[x])
FrameSize(p, x) == FrameOf(FnOf(p, x))
LinksOf(cs) == {cs[k].rsp - WordSize : k \in 1 .. Len(cs)} \cup {cs[k].rsp - 2 * WordSize : k \in 1 .. Len(cs)}

\* The words of a call: where it returns to, and the rbp of the caller.
Returns(m, c) == c.rsp - WordSize \in Stack /\ m[c.rsp - WordSize] = c.back
Saves(m, c) == c.rsp - 2 * WordSize \in Stack /\ m[c.rsp - 2 * WordSize] = c.rbp

\* The call c was made at the site s, from the call b.
From(p, b, c, s) ==
    /\ s[2] \in Nat /\ c.rsp \in Stack
    /\ c.rbp = b.rsp - 2 * WordSize
    /\ c.rsp = c.rbp - FrameSize(p, s[1]) - WordSize * s[2]

\* The function that the k-th call is for: the one of the next call, and for the
\* last one that of the instruction at hand.
Callee(S, cs, o, k) == IF k = Len(cs) THEN o ELSE S[cs[k + 1].back][1]

\* The calls in progress have their words, one frame below the other, with the
\* arguments that went into no register above each one.
Linked(p, S, cs, m, o) ==
    /\ \A k \in 1 .. Len(cs) :
         /\ Returns(m, cs[k])
         /\ k < Len(cs) => Saves(m, cs[k])
         /\ k = 1 => S[cs[k].back][2] = Outside /\ cs[k].rsp = StackTop + WordSize
         /\ k > 1 => From(p, cs[k - 1], cs[k], S[cs[k].back])
         /\ Callee(S, cs, o, k) \in FunctionNames(p)
         /\ k = 1 => ExtraOf(p, Callee(S, cs, o, k)) = 0
    /\ \A l \in 1 .. Len(cs) : \A k \in 1 .. l - 1 :
         cs[l].rsp + WordSize * ExtraOf(p, Callee(S, cs, o, l)) <= cs[k].rsp - 2 * WordSize

\* The frame of the last call, at the level d of the function o.
Current(p, cs, m, o, d, rsp, rbp) ==
    /\ d = Outside <=> Len(cs) = 0
    /\ d = Outside => rsp = StackTop + WordSize
    /\ Len(cs) # 0 =>
         LET c == cs[Len(cs)]
             base == c.rsp - 2 * WordSize
         IN /\ d = Entered => rsp = c.rsp - WordSize /\ rbp = c.rbp
            /\ d = Saved => rsp = base /\ rbp = c.rbp
            /\ d = Framed => rsp = base /\ rbp = base
            /\ d \in Nat => rbp = base /\ rsp = rbp - FrameSize(p, o) - WordSize * d /\ rsp \in Stack
            /\ d # Entered => Saves(m, c)

Fine(p, S, cs, m, s, rsp, rbp) ==
    Linked(p, S, cs, m, s[1]) /\ Current(p, cs, m, s[1], s[2], rsp, rbp)

CallRecords(A) == [back : A, rsp : Word, rbp : Word]

LEMMA RecordsAre ==
    ASSUME NEW A, NEW cs \in Seq(CallRecords(A))
    PROVE  /\ Len(cs) \in Nat
           /\ \A k \in 1 .. Len(cs) : cs[k].back \in A /\ cs[k].rsp \in Int /\ cs[k].rbp \in Int
                                      /\ cs[k].rsp \in Word /\ cs[k].rbp \in Word
<1>1. Len(cs) \in Nat /\ \A k \in 1 .. Len(cs) : cs[k] \in CallRecords(A)
  OBVIOUS
<1>2. \A c \in CallRecords(A) : c.back \in A /\ c.rsp \in Word /\ c.rbp \in Word
  BY DEF CallRecords
<1> QED  BY <1>1, <1>2, WordsAre

LEMMA ExtraNat == ASSUME NEW p \in Programs, NEW x \in FunctionNames(p) PROVE ExtraOf(p, x) \in Nat
  BY ProgramFrames DEF ExtraOf

LEMMA FrameNat == ASSUME NEW p \in Programs, NEW x \in FunctionNames(p)
                  PROVE  \E q \in Nat : FrameSize(p, x) = WordSize * q
  BY ProgramFrames DEF FrameSize

\* No word of a call lies below those of the last one, and only its saved rbp
\* lies there.
LEMMA LinksAbove ==
    ASSUME NEW p \in Programs, NEW S, NEW A, NEW cs \in Seq(CallRecords(A)), NEW m, NEW o,
           Linked(p, S, cs, m, o), Len(cs) # 0
    PROVE  LET base == cs[Len(cs)].rsp - 2 * WordSize
           IN /\ \A a \in LinksOf(cs) : a \in Int /\ base <= a
              /\ \A k \in 1 .. Len(cs) : cs[k].rsp - WordSize # base
              /\ \A k \in 1 .. Len(cs) - 1 : cs[k].rsp - 2 * WordSize # base
              /\ \A k \in 1 .. Len(cs) - 1 :
                   cs[Len(cs)].rsp + WordSize * ExtraOf(p, o) <= cs[k].rsp - 2 * WordSize
              /\ o \in FunctionNames(p)
              /\ base + WordSize \in Stack
<1> DEFINE n == Len(cs)
           base == cs[n].rsp - 2 * WordSize
<1>1. n \in Nat /\ n \in 1 .. n /\ \A k \in 1 .. n : cs[k].rsp \in Int
  BY RecordsAre
<1>2. Callee(S, cs, o, n) = o
  BY DEF Callee
<1>3. o \in FunctionNames(p)
  BY <1>1, <1>2 DEF Linked
<1>4. ExtraOf(p, o) \in Nat
  BY <1>3, ExtraNat
<1>5. \A k \in 1 .. n - 1 : cs[n].rsp + WordSize * ExtraOf(p, o) <= cs[k].rsp - 2 * WordSize
  BY <1>1, <1>2 DEF Linked
<1>6. Returns(m, cs[n])
  BY <1>1 DEF Linked
<1>7. base + WordSize \in Stack
  <2>1. base + WordSize = cs[n].rsp - WordSize
    BY <1>1 DEF WordSize
  <2> QED  BY <1>6, <2>1 DEF Returns
<1> HIDE DEF n
<1>8. \A k \in 1 .. n : k = n \/ k \in 1 .. n - 1
  BY <1>1
<1>9. ASSUME NEW k \in 1 .. n
      PROVE  /\ base <= cs[k].rsp - 2 * WordSize /\ base <= cs[k].rsp - WordSize
             /\ cs[k].rsp - WordSize # base
             /\ k # n => cs[k].rsp - 2 * WordSize # base
  <2>1. CASE k = n
    BY <1>1, <2>1 DEF WordSize
  <2>2. CASE k \in 1 .. n - 1
    <3>1. cs[n].rsp + WordSize * ExtraOf(p, o) <= cs[k].rsp - 2 * WordSize
      BY <1>5, <2>2
    <3> DEFINE e == ExtraOf(p, o)
               x == cs[n].rsp
               y == cs[k].rsp
    <3>2. x \in Int /\ y \in Int /\ e \in Nat /\ x + WordSize * e <= y - 2 * WordSize
      BY <1>1, <1>4, <3>1
    <3>4. k # n
      BY <1>1, <2>2
    <3> HIDE DEF e
    <3>3. x <= y - 2 * WordSize
      BY <3>2 DEF WordSize
    <3> QED  BY <3>2, <3>3, <3>4 DEF WordSize
  <2> QED  BY <1>8, <2>1, <2>2
<1>10. ASSUME NEW a \in LinksOf(cs) PROVE a \in Int /\ base <= a
  <2>1. PICK k \in 1 .. n : a = cs[k].rsp - WordSize \/ a = cs[k].rsp - 2 * WordSize
    BY DEF LinksOf, n
  <2> QED  BY <1>1, <1>9, <2>1 DEF WordSize
<1>11. \A k \in 1 .. n - 1 : k \in 1 .. n /\ k # n
  BY <1>1
<1> QED  BY <1>3, <1>5, <1>7, <1>9, <1>10, <1>11 DEF n

\* Memory matters where the words of the calls are.
LEMMA FineKept ==
    ASSUME NEW p, NEW S, NEW A, NEW cs \in Seq(CallRecords(A)), NEW m, NEW s, NEW rsp, NEW rbp,
           Fine(p, S, cs, m, s, rsp, rbp), NEW w, \A a \in LinksOf(cs) : w[a] = m[a]
    PROVE  Fine(p, S, cs, w, s, rsp, rbp)
<1>1. Len(cs) \in Nat
  OBVIOUS
<1>2. \A k \in 1 .. Len(cs) : Returns(m, cs[k]) => Returns(w, cs[k])
  BY DEF Returns, LinksOf
<1>3. \A k \in 1 .. Len(cs) : Saves(m, cs[k]) => Saves(w, cs[k])
  BY DEF Saves, LinksOf
<1>4. Linked(p, S, cs, w, s[1])
  BY <1>2, <1>3 DEF Fine, Linked
<1>5. Len(cs) # 0 => (Saves(m, cs[Len(cs)]) => Saves(w, cs[Len(cs)]))
  BY <1>1, <1>3
<1>6. Current(p, cs, w, s[1], s[2], rsp, rbp)
  BY <1>5 DEF Fine, Current
<1> QED  BY <1>4, <1>6 DEF Fine

\* The levels exclude each other.
LEMMA LevelsApart ==
    /\ Outside \notin Nat /\ Entered \notin Nat /\ Saved \notin Nat /\ Framed \notin Nat
    /\ Outside # Entered /\ Outside # Saved /\ Outside # Framed
    /\ Entered # Saved /\ Entered # Framed /\ Saved # Framed
  BY DEF Outside, Entered, Saved, Framed

\* Inside a function, with its frame made.
InFrame(p, cs, m, o, d, rsp, rbp) ==
    /\ Len(cs) # 0 /\ o \in FunctionNames(p) /\ rsp \in Stack /\ rbp \in Stack
    /\ rbp = cs[Len(cs)].rsp - 2 * WordSize /\ rsp = rbp - FrameSize(p, o) - WordSize * d
    /\ rsp \in Int /\ rbp \in Int /\ rsp <= rbp
    /\ \A a \in LinksOf(cs) : a \in Int /\ rbp <= a
    /\ Saves(m, cs[Len(cs)])

LEMMA Inside ==
    ASSUME NEW p \in Programs, NEW S, NEW A, NEW cs \in Seq(CallRecords(A)), NEW m, NEW o, NEW d, d \in Nat,
           NEW rsp, NEW rbp, Linked(p, S, cs, m, o), Current(p, cs, m, o, d, rsp, rbp)
    PROVE  InFrame(p, cs, m, o, d, rsp, rbp)
<1> DEFINE n == Len(cs)
           base == cs[n].rsp - 2 * WordSize
<1>1. Linked(p, S, cs, m, o) /\ Current(p, cs, m, o, d, rsp, rbp)
  OBVIOUS
<1>2. n # 0 /\ rbp = base /\ rsp = rbp - FrameSize(p, o) - WordSize * d /\ rsp \in Stack /\ Saves(m, cs[n])
  BY <1>1, LevelsApart DEF Current
<1>3. o \in FunctionNames(p) /\ \A a \in LinksOf(cs) : a \in Int /\ base <= a
  BY <1>1, <1>2, LinksAbove
<1>4. rbp \in Stack
  BY <1>2 DEF Saves
<1>5. rsp \in Int /\ rbp \in Int
  BY <1>2, <1>4, StackAre
<1>6. PICK q \in Nat : FrameSize(p, o) = WordSize * q
  BY <1>3, FrameNat
<1>7. rsp <= rbp
  BY <1>2, <1>5, <1>6 DEF WordSize
<1> QED  BY <1>2, <1>3, <1>4, <1>5, <1>7 DEF InFrame

\* Words are pushed and taken off.
LEMMA FineMoved ==
    ASSUME NEW p \in Programs, NEW S, NEW A, NEW cs \in Seq(CallRecords(A)), NEW m, NEW o, NEW d \in Nat,
           NEW rsp, NEW rbp, Fine(p, S, cs, m, <<o, d>>, rsp, rbp),
           NEW e \in Nat, NEW top \in Stack, top = rsp + WordSize * (d - e),
           NEW w, \A a \in LinksOf(cs) : w[a] = m[a]
    PROVE  Fine(p, S, cs, w, <<o, e>>, top, rbp)
<1>1. Fine(p, S, cs, w, <<o, d>>, rsp, rbp)
  BY FineKept
<1>2. Linked(p, S, cs, w, o) /\ Current(p, cs, w, o, d, rsp, rbp)
  BY <1>1 DEF Fine
<1>7. InFrame(p, cs, w, o, d, rsp, rbp)
  BY <1>2, Inside
<1>3. /\ Len(cs) # 0 /\ rbp = cs[Len(cs)].rsp - 2 * WordSize
      /\ rsp = rbp - FrameSize(p, o) - WordSize * d /\ rsp \in Int /\ rbp \in Int /\ Saves(w, cs[Len(cs)])
      /\ o \in FunctionNames(p)
  BY <1>7 DEF InFrame
<1>4. PICK q \in Nat : FrameSize(p, o) = WordSize * q
  BY <1>3, FrameNat
<1>5. top = rbp - FrameSize(p, o) - WordSize * e
  BY <1>3, <1>4 DEF WordSize
<1>6. Current(p, cs, w, o, e, top, rbp)
  BY <1>3, <1>5, LevelsApart DEF Current
<1> QED  BY <1>2, <1>6 DEF Fine

\* Taking words off stays on the stack.
LEMMA TakenOff ==
    ASSUME NEW p \in Programs, NEW S, NEW A, NEW cs \in Seq(CallRecords(A)), NEW m, NEW o, NEW e \in Nat,
           NEW n \in Nat, NEW rsp, NEW rbp, Fine(p, S, cs, m, <<o, e + n>>, rsp, rbp)
    PROVE  rsp + WordSize * n \in Stack
<1>1. e + n \in Nat /\ Linked(p, S, cs, m, o) /\ Current(p, cs, m, o, e + n, rsp, rbp)
  BY DEF Fine
<1> DEFINE d == e + n
<1> HIDE DEF d
<1>5. d \in Nat /\ Current(p, cs, m, o, d, rsp, rbp)
  BY <1>1 DEF d
<1>6. InFrame(p, cs, m, o, d, rsp, rbp)
  BY <1>1, <1>5, Inside
<1>2. /\ rsp \in Stack /\ rbp \in Stack /\ rsp \in Int /\ rbp \in Int /\ o \in FunctionNames(p)
      /\ rsp = rbp - FrameSize(p, o) - WordSize * (e + n)
  BY <1>6 DEF d, InFrame
<1>3. PICK q \in Nat : FrameSize(p, o) = WordSize * q
  BY <1>2, FrameNat
<1>4. rsp + WordSize * n <= rbp
  BY <1>2, <1>3 DEF WordSize
<1> QED  BY <1>2, <1>4, StackAre

\* Prologue: the rbp of the caller is saved, the frame begins there, and room is
\* made for the variables.
LEMMA FineSaved ==
    ASSUME NEW p \in Programs, NEW S, NEW A, NEW cs \in Seq(CallRecords(A)), NEW m, NEW o,
           NEW rsp, NEW rbp, Fine(p, S, cs, m, <<o, Entered>>, rsp, rbp),
           rsp - WordSize \in Stack, NEW w, w[rsp - WordSize] = rbp,
           \A a \in LinksOf(cs) : a # rsp - WordSize => w[a] = m[a]
    PROVE  Fine(p, S, cs, w, <<o, Saved>>, rsp - WordSize, rbp)
<1> DEFINE n == Len(cs)
           base == cs[n].rsp - 2 * WordSize
<1>1. Linked(p, S, cs, m, o) /\ Current(p, cs, m, o, Entered, rsp, rbp)
  BY DEF Fine
<1>2. n # 0 /\ rsp = cs[n].rsp - WordSize /\ rbp = cs[n].rbp
  BY <1>1, LevelsApart DEF Current
<1>3. n \in Nat /\ n \in 1 .. n /\ cs[n].rsp \in Int
  BY <1>2, RecordsAre
<1>4. rsp - WordSize = base
  BY <1>2, <1>3 DEF WordSize
<1>5. /\ \A k \in 1 .. n : cs[k].rsp - WordSize # base
      /\ \A k \in 1 .. n - 1 : cs[k].rsp - 2 * WordSize # base
  BY <1>1, <1>2, LinksAbove
<1>6. \A k \in 1 .. n : cs[k].rsp - WordSize \in LinksOf(cs) /\ cs[k].rsp - 2 * WordSize \in LinksOf(cs)
  BY DEF LinksOf
<1> HIDE DEF n
<1>7. \A k \in 1 .. n : Returns(m, cs[k]) => Returns(w, cs[k])
  BY <1>4, <1>5, <1>6 DEF Returns
<1>8. \A k \in 1 .. n : k < n => k \in 1 .. n - 1
  BY <1>3
<1>9. \A k \in 1 .. n : k < n /\ Saves(m, cs[k]) => Saves(w, cs[k])
  BY <1>4, <1>5, <1>6, <1>8 DEF Saves
<1>10. Linked(p, S, cs, w, o)
  BY <1>1, <1>7, <1>9 DEF Linked, n
<1>11. Saves(w, cs[n])
  BY <1>2, <1>4 DEF Saves
<1>12. Current(p, cs, w, o, Saved, rsp - WordSize, rbp)
  BY <1>2, <1>4, <1>11, LevelsApart DEF Current, n
<1> QED  BY <1>10, <1>12 DEF Fine

LEMMA FineFramed ==
    ASSUME NEW p, NEW S, NEW cs, NEW m, NEW o, NEW rsp, NEW rbp, Fine(p, S, cs, m, <<o, Saved>>, rsp, rbp)
    PROVE  Fine(p, S, cs, m, <<o, Framed>>, rsp, rsp)
<1>1. Linked(p, S, cs, m, o) /\ Current(p, cs, m, o, Saved, rsp, rbp)
  BY DEF Fine
<1>2. Len(cs) # 0 /\ rsp = cs[Len(cs)].rsp - 2 * WordSize /\ Saves(m, cs[Len(cs)])
  BY <1>1, LevelsApart DEF Current
<1>3. Current(p, cs, m, o, Framed, rsp, rsp)
  BY <1>2, LevelsApart DEF Current
<1> QED  BY <1>1, <1>3 DEF Fine

LEMMA FineRoom ==
    ASSUME NEW p \in Programs, NEW S, NEW A, NEW cs \in Seq(CallRecords(A)), NEW m, NEW o,
           NEW rsp, NEW rbp, Fine(p, S, cs, m, <<o, Framed>>, rsp, rbp), rsp - FrameSize(p, o) \in Stack
    PROVE  Fine(p, S, cs, m, <<o, 0>>, rsp - FrameSize(p, o), rbp)
<1> DEFINE top == rsp - FrameSize(p, o)
<1>1. Linked(p, S, cs, m, o) /\ Current(p, cs, m, o, Framed, rsp, rbp)
  BY DEF Fine
<1>2. Len(cs) # 0 /\ rsp = rbp /\ rbp = cs[Len(cs)].rsp - 2 * WordSize /\ Saves(m, cs[Len(cs)])
  BY <1>1, LevelsApart DEF Current
<1>3. top \in Int
  BY StackAre
<1>4. top = rbp - FrameSize(p, o) - WordSize * 0
  BY <1>2, <1>3 DEF WordSize
<1>5. top \in Stack /\ 0 \in Nat
  OBVIOUS
<1> HIDE DEF top
<1>6. Current(p, cs, m, o, 0, top, rbp)
  BY <1>2, <1>4, <1>5, LevelsApart DEF Current
<1> QED  BY <1>1, <1>6 DEF Fine, top

\* Epilogue.
LEMMA FineUnframed ==
    ASSUME NEW p \in Programs, NEW S, NEW A, NEW cs \in Seq(CallRecords(A)), NEW m, NEW o, NEW d \in Nat,
           NEW rsp, NEW rbp, Fine(p, S, cs, m, <<o, d>>, rsp, rbp)
    PROVE  Fine(p, S, cs, m, <<o, Framed>>, rbp, rbp)
<1>3. Linked(p, S, cs, m, o) /\ Current(p, cs, m, o, d, rsp, rbp)
  BY DEF Fine
<1>4. InFrame(p, cs, m, o, d, rsp, rbp)
  BY <1>3, Inside
<1>1. Len(cs) # 0 /\ rbp = cs[Len(cs)].rsp - 2 * WordSize /\ Saves(m, cs[Len(cs)])
  BY <1>4 DEF InFrame
<1>2. Current(p, cs, m, o, Framed, rbp, rbp)
  BY <1>1, LevelsApart DEF Current
<1> QED  BY <1>2, <1>3 DEF Fine

LEMMA FineRestored ==
    ASSUME NEW p, NEW S, NEW A, NEW cs \in Seq(CallRecords(A)), NEW m, NEW o, NEW rsp, NEW rbp,
           Fine(p, S, cs, m, <<o, Framed>>, rsp, rbp)
    PROVE  Fine(p, S, cs, m, <<o, Entered>>, rsp + WordSize, m[rsp])
<1> DEFINE c == cs[Len(cs)]
<1>1. Linked(p, S, cs, m, o) /\ Current(p, cs, m, o, Framed, rsp, rbp)
  BY DEF Fine
<1>2. Len(cs) # 0 /\ rsp = c.rsp - 2 * WordSize /\ Saves(m, c)
  BY <1>1, LevelsApart DEF Current
<1>3. m[rsp] = c.rbp
  BY <1>2 DEF Saves
<1>4. c.rsp \in Int
  BY <1>2, RecordsAre
<1>5. rsp + WordSize = c.rsp - WordSize
  BY <1>2, <1>4 DEF WordSize
<1>6. Current(p, cs, m, o, Entered, rsp + WordSize, m[rsp])
  BY <1>2, <1>3, <1>5, LevelsApart DEF Current
<1> QED  BY <1>1, <1>6 DEF Fine

LEMMA OnlyOne ==
    ASSUME NEW z, z = 1
    PROVE  /\ \A k \in 1 .. z : k = 1 /\ ~(k < z) /\ ~(k > 1)
           /\ \A l \in 1 .. z : \A k \in 1 .. l - 1 : FALSE
  OBVIOUS

LEMMA NotOne == ASSUME NEW z, z = 0 PROVE \A k \in 1 .. z : FALSE
  OBVIOUS

\* A call, from inside of a function or from the entry point.
LEMMA FineCalled ==
    ASSUME NEW p \in Programs, NEW S, NEW A, NEW cs, NEW m, NEW o, NEW d, NEW rsp, NEW rbp, NEW y, NEW b, NEW w,
           cs \in Seq(CallRecords(A)), Linked(p, S, cs, m, o), Current(p, cs, m, o, d, rsp, rbp),
           d \in Nat \/ d = Outside, y \in FunctionNames(p), S[b] = <<o, d>>,
           d \in Nat => ExtraOf(p, y) <= d, d = Outside => ExtraOf(p, y) = 0,
           rsp \in Int, rsp - WordSize \in Stack, w[rsp - WordSize] = b, \A a \in LinksOf(cs) : w[a] = m[a],
           NEW cs2, Len(cs2) = Len(cs) + 1, \A k \in 1 .. Len(cs) : cs2[k] = cs[k],
           cs2[Len(cs) + 1] = [back |-> b, rsp |-> rsp, rbp |-> rbp]
    PROVE  Linked(p, S, cs2, w, y) /\ Current(p, cs2, w, y, Entered, rsp - WordSize, rbp)
<1> DEFINE n == Len(cs)
           c == cs2[n + 1]
<1>1. /\ n \in Nat /\ Len(cs2) = n + 1
      /\ \A k \in 1 .. n : cs[k].rsp \in Int /\ cs2[k] = cs[k]
  BY RecordsAre
<1>2. c.back = b /\ c.rsp = rsp /\ c.rbp = rbp
  OBVIOUS
<1>3. Returns(w, c)
  BY <1>2 DEF Returns
<1>4. Fine(p, S, cs, m, <<o, d>>, rsp, rbp)
  BY DEF Fine
<1>5. Fine(p, S, cs, w, <<o, d>>, rsp, rbp)
  BY <1>4, FineKept
<1>6. Linked(p, S, cs, w, o) /\ Current(p, cs, w, o, d, rsp, rbp)
  BY <1>5 DEF Fine
<1>7. S[b][1] = o /\ S[b][2] = d
  OBVIOUS
<1>8. ExtraOf(p, y) \in Nat
  BY ExtraNat
<1>9. Current(p, cs2, w, y, Entered, rsp - WordSize, rbp)
  <2>1. Len(cs2) # 0 /\ cs2[Len(cs2)] = c
    BY <1>1
  <2> HIDE DEF c
  <2> QED  BY <1>2, <2>1, LevelsApart DEF Current
<1>10. CASE d = Outside
  <2>1. n = 0 /\ rsp = StackTop + WordSize /\ ExtraOf(p, y) = 0
    BY <1>6, <1>10 DEF Current
  <2>2. Len(cs2) = 1 /\ cs2[1] = c
    BY <1>1, <2>1
  <2> HIDE DEF c, n
  <2>3. Callee(S, cs2, y, 1) = y
    BY <2>2 DEF Callee
  <2>4. \A k \in 1 .. Len(cs2) : k = 1 /\ ~(k < Len(cs2)) /\ ~(k > 1)
    BY <2>2, OnlyOne
  <2>5. \A l \in 1 .. Len(cs2) : \A k \in 1 .. l - 1 : FALSE
    BY <2>2, OnlyOne
  <2>6. Linked(p, S, cs2, w, y)
    BY <1>2, <1>3, <1>7, <1>10, <2>1, <2>2, <2>3, <2>4, <2>5 DEF Linked
  <2> QED  BY <1>9, <2>6
<1>11. CASE d \in Nat
  <2>1. InFrame(p, cs, w, o, d, rsp, rbp)
    BY <1>6, <1>11, Inside
  <2>2. /\ n # 0 /\ o \in FunctionNames(p) /\ rbp = cs[n].rsp - 2 * WordSize
        /\ rsp = rbp - FrameSize(p, o) - WordSize * d
        /\ rsp \in Int /\ rbp \in Int
        /\ \A a \in LinksOf(cs) : a \in Int /\ rbp <= a
        /\ Saves(w, cs[n]) /\ rsp \in Stack
    BY <2>1 DEF InFrame
  <2>3. From(p, cs[n], c, S[b])
    <3> HIDE DEF c, n
    <3> QED  BY <1>2, <1>7, <1>11, <2>2 DEF From
  <2>4. rsp + WordSize * ExtraOf(p, y) <= rbp
    <3>1. PICK q \in Nat : FrameSize(p, o) = WordSize * q
      BY <2>2, FrameNat
    <3> DEFINE e == ExtraOf(p, y)
    <3>2. e \in Nat /\ e <= d /\ d \in Nat /\ rsp = rbp - WordSize * q - WordSize * d
      BY <1>8, <1>11, <2>2, <3>1
    <3> HIDE DEF e
    <3>3. rsp + WordSize * e <= rbp
      BY <2>2, <3>1, <3>2 DEF WordSize
    <3> QED  BY <3>3 DEF e
  <2>5. \A k \in 1 .. n : rsp + WordSize * ExtraOf(p, y) <= cs[k].rsp - 2 * WordSize
    <3> DEFINE t == rsp + WordSize * ExtraOf(p, y)
    <3>1. t \in Int
      BY <1>8, <2>2 DEF WordSize
    <3>2. \A k \in 1 .. n : cs[k].rsp - 2 * WordSize \in LinksOf(cs)
      BY DEF LinksOf
    <3>3. t <= rbp
      BY <2>4
    <3> HIDE DEF t, n
    <3>4. \A k \in 1 .. n : t <= cs[k].rsp - 2 * WordSize
      BY <2>2, <3>1, <3>2, <3>3
    <3> QED  BY <3>4 DEF t
  <2>6. \A k \in 1 .. n : Callee(S, cs2, y, k) = Callee(S, cs, o, k)
    <3> TAKE k \in 1 .. n
    <3>1. CASE k = n
      BY <1>1, <1>2, <1>7, <3>1 DEF Callee
    <3>2. CASE k # n
      <4>1. k + 1 \in 1 .. n /\ k # Len(cs2)
        BY <1>1, <3>2
      <4> QED  BY <1>1, <3>2, <4>1 DEF Callee
    <3> QED  BY <3>1, <3>2
  <2>7. Callee(S, cs2, y, n + 1) = y
    BY <1>1 DEF Callee
  <2>8. \A k \in 1 .. n + 1 : k \in 1 .. n \/ k = n + 1
    BY <1>1
  <2>9. \A k \in 1 .. n : /\ Returns(w, cs2[k]) /\ Saves(w, cs2[k])
                          /\ k = 1 => S[cs2[k].back][2] = Outside /\ cs2[k].rsp = StackTop + WordSize
                          /\ Callee(S, cs2, y, k) \in FunctionNames(p)
                          /\ k = 1 => ExtraOf(p, Callee(S, cs2, y, k)) = 0
    <3> TAKE k \in 1 .. n
    <3>1. cs2[k] = cs[k] /\ Callee(S, cs2, y, k) = Callee(S, cs, o, k)
      BY <1>1, <2>6
    <3>2. k < n \/ k = n
      BY <1>1
    <3> HIDE DEF n
    <3>3. Saves(w, cs[k])
      BY <1>6, <2>2, <3>2 DEF Linked, n
    <3> QED  BY <1>6, <3>1, <3>3 DEF Linked, n
  <2>10. ASSUME NEW k \in 1 .. n, k > 1 PROVE From(p, cs2[k - 1], cs2[k], S[cs2[k].back])
    <3>1. k - 1 \in 1 .. n
      BY <1>1, <2>10
    <3>2. cs2[k] = cs[k] /\ cs2[k - 1] = cs[k - 1]
      BY <1>1, <3>1
    <3> QED  BY <1>6, <2>10, <3>2 DEF Linked
  <2>11. n + 1 > 1 /\ n + 1 - 1 = n /\ n + 1 # 1 /\ ~(n + 1 < n + 1) /\ n \in 1 .. n
    BY <1>1, <2>2
  <2>12. \A k \in 1 .. n + 1 :
           /\ Returns(w, cs2[k])
           /\ k < n + 1 => Saves(w, cs2[k])
           /\ k = 1 => S[cs2[k].back][2] = Outside /\ cs2[k].rsp = StackTop + WordSize
           /\ k > 1 => From(p, cs2[k - 1], cs2[k], S[cs2[k].back])
           /\ Callee(S, cs2, y, k) \in FunctionNames(p)
           /\ k = 1 => ExtraOf(p, Callee(S, cs2, y, k)) = 0
    <3> TAKE k \in 1 .. n + 1
    <3>1. CASE k \in 1 .. n
      BY <2>9, <2>10, <3>1
    <3>2. CASE k = n + 1
      <4>1. cs2[k - 1] = cs[n] /\ cs2[k] = c /\ Callee(S, cs2, y, k) = y
        BY <1>1, <2>7, <2>11, <3>2
      <4>2. k # 1 /\ ~(k < n + 1)
        BY <2>11, <3>2
      <4> HIDE DEF n, c
      <4> QED  BY <1>2, <1>3, <2>3, <4>1, <4>2
    <3> QED  BY <2>8, <3>1, <3>2
  <2>13. ASSUME NEW l \in 1 .. n + 1, NEW k \in 1 .. l - 1
         PROVE  cs2[l].rsp + WordSize * ExtraOf(p, Callee(S, cs2, y, l)) <= cs2[k].rsp - 2 * WordSize
    <3>1. CASE l \in 1 .. n
      <4>1. k \in 1 .. n
        BY <1>1, <3>1
      <4>2. cs2[l] = cs[l] /\ cs2[k] = cs[k] /\ Callee(S, cs2, y, l) = Callee(S, cs, o, l)
        BY <1>1, <2>6, <3>1, <4>1
      <4>3. cs[l].rsp + WordSize * ExtraOf(p, Callee(S, cs, o, l)) <= cs[k].rsp - 2 * WordSize
        BY <1>6, <3>1 DEF Linked
      <4> QED  BY <4>2, <4>3
    <3>2. CASE l = n + 1
      <4>1. k \in 1 .. n
        BY <1>1, <3>2
      <4>2. cs2[l] = c /\ cs2[k] = cs[k] /\ Callee(S, cs2, y, l) = y
        BY <1>1, <2>7, <3>2, <4>1
      <4> HIDE DEF c, n
      <4> QED  BY <1>2, <2>5, <4>1, <4>2
    <3> QED  BY <2>8, <3>1, <3>2
  <2>14. Linked(p, S, cs2, w, y)
    <3> HIDE DEF n
    <3> QED  BY <1>1, <2>12, <2>13 DEF Linked
  <2> QED  BY <1>9, <2>14
<1> QED  BY <1>10, <1>11

\* The return from it.
LEMMA FineReturned ==
    ASSUME NEW p \in Programs, NEW S, NEW A, NEW cs, NEW m, NEW o, NEW rsp, NEW rbp,
           cs \in Seq(CallRecords(A)), Linked(p, S, cs, m, o), Current(p, cs, m, o, Entered, rsp, rbp),
           NEW cs2, Len(cs2) = Len(cs) - 1, \A k \in 1 .. Len(cs) - 1 : cs2[k] = cs[k]
    PROVE  LET s == S[m[rsp]]
           IN /\ rsp + WordSize = cs[Len(cs)].rsp /\ m[rsp] = cs[Len(cs)].back
              /\ Linked(p, S, cs2, m, s[1]) /\ Current(p, cs2, m, s[1], s[2], rsp + WordSize, rbp)
<1> DEFINE n == Len(cs)
           c == cs[n]
           t == S[c.back]
<1>1. n \in Nat /\ n # 0 /\ rsp = c.rsp - WordSize /\ rbp = c.rbp
  BY RecordsAre, LevelsApart DEF Current
<1>2. n \in 1 .. n /\ c.rsp \in Int /\ Len(cs2) = n - 1 /\ (\A k \in 1 .. n - 1 : cs2[k] = cs[k] /\ k \in 1 .. n)
  BY <1>1, RecordsAre
<1>3. Returns(m, c)
  BY <1>2 DEF Linked
<1>4. m[rsp] = c.back /\ rsp + WordSize = c.rsp
  BY <1>1, <1>2, <1>3 DEF Returns, WordSize
<1>5. CASE n = 1
  <2>1. t[2] = Outside /\ c.rsp = StackTop + WordSize
    BY <1>2, <1>5 DEF Linked
  <2>2. Len(cs2) = 0
    BY <1>2, <1>5
  <2>3. \A k \in 1 .. Len(cs2) : FALSE
    BY <2>2, NotOne
  <2> HIDE DEF c, t, n
  <2>4. Linked(p, S, cs2, m, t[1])
    BY <2>3 DEF Linked
  <2>5. Current(p, cs2, m, t[1], t[2], rsp + WordSize, rbp)
    BY <1>4, <2>1, <2>2, LevelsApart DEF Current
  <2> QED  BY <1>4, <2>4, <2>5 DEF t, c, n
<1>6. CASE n # 1
  <2> DEFINE b == cs[n - 1]
  <2>1. n - 1 \in 1 .. n /\ n > 1 /\ n - 1 < n /\ n - 1 \in 1 .. n - 1 /\ n - 1 # 0 /\ n - 1 # n /\ n - 1 + 1 = n
    BY <1>1, <1>6
  <2>2. From(p, b, c, t) /\ Saves(m, b)
    BY <1>2, <2>1 DEF Linked
  <2>3. /\ t[2] \in Nat /\ c.rsp \in Stack /\ c.rbp = b.rsp - 2 * WordSize
        /\ c.rsp = c.rbp - FrameSize(p, t[1]) - WordSize * t[2]
    BY <2>2 DEF From
  <2>4. Len(cs2) # 0 /\ cs2[Len(cs2)] = b
    BY <1>2, <2>1
  <2>5. Current(p, cs2, m, t[1], t[2], c.rsp, rbp)
    <3> HIDE DEF b, c, t, n
    <3> QED  BY <1>1, <2>2, <2>3, <2>4, LevelsApart DEF Current
  <2>6. \A k \in 1 .. n - 1 : Callee(S, cs2, t[1], k) = Callee(S, cs, o, k)
    <3> TAKE k \in 1 .. n - 1
    <3>1. CASE k = n - 1
      <4>1. k # Len(cs) /\ k + 1 = n /\ k = Len(cs2)
        BY <1>2, <2>1, <3>1
      <4> QED  BY <4>1 DEF Callee
    <3>2. CASE k # n - 1
      <4>1. k + 1 \in 1 .. n - 1 /\ k # Len(cs2) /\ k # Len(cs)
        BY <1>1, <1>2, <3>2
      <4> QED  BY <1>2, <4>1 DEF Callee
    <3> QED  BY <3>1, <3>2
  <2>7. ASSUME NEW k \in 1 .. n - 1
        PROVE  /\ Returns(m, cs2[k])
               /\ k < n - 1 => Saves(m, cs2[k])
               /\ k = 1 => S[cs2[k].back][2] = Outside /\ cs2[k].rsp = StackTop + WordSize
               /\ Callee(S, cs2, t[1], k) \in FunctionNames(p)
               /\ k = 1 => ExtraOf(p, Callee(S, cs2, t[1], k)) = 0
    <3>1. cs2[k] = cs[k] /\ Callee(S, cs2, t[1], k) = Callee(S, cs, o, k) /\ k \in 1 .. n
      BY <1>2, <2>6
    <3>2. k < n
      BY <1>1
    <3> HIDE DEF n, t
    <3> QED  BY <3>1, <3>2 DEF Linked, n
  <2>8. ASSUME NEW k \in 1 .. n - 1, k > 1 PROVE From(p, cs2[k - 1], cs2[k], S[cs2[k].back])
    <3>1. k - 1 \in 1 .. n - 1
      BY <1>1, <2>8
    <3>2. cs2[k] = cs[k] /\ cs2[k - 1] = cs[k - 1] /\ k \in 1 .. n
      BY <1>2, <3>1
    <3> QED  BY <2>8, <3>2 DEF Linked
  <2>9. ASSUME NEW l \in 1 .. n - 1, NEW k \in 1 .. l - 1
        PROVE  cs2[l].rsp + WordSize * ExtraOf(p, Callee(S, cs2, t[1], l)) <= cs2[k].rsp - 2 * WordSize
    <3>1. k \in 1 .. n - 1
      BY <1>1
    <3>2. cs2[l] = cs[l] /\ cs2[k] = cs[k] /\ Callee(S, cs2, t[1], l) = Callee(S, cs, o, l) /\ l \in 1 .. n
      BY <1>2, <2>6, <3>1
    <3>3. cs[l].rsp + WordSize * ExtraOf(p, Callee(S, cs, o, l)) <= cs[k].rsp - 2 * WordSize
      BY <3>2 DEF Linked
    <3> QED  BY <3>2, <3>3
  <2>10. Linked(p, S, cs2, m, t[1])
    <3> HIDE DEF n, t
    <3> QED  BY <1>2, <2>7, <2>8, <2>9 DEF Linked
  <2> QED  BY <1>4, <2>5, <2>10
<1> QED  BY <1>5, <1>6
-----------------------------------------------------------------------------
(* The inductive invariant                                                 *)

\* The site of the instruction at hand, and the level behind it.
Owner == SitesOf(source)[rip][1]
Level == SitesOf(source)[rip][2]
After == SitesOf(source)[rip + 1][2]

FineAt(e, m, rsp, rbp) == Fine(source, SitesOf(source), callstack, m, <<Owner, e>>, rsp, rbp)
FineHere == Fine(source, SitesOf(source), callstack, memory, SitesOf(source)[rip], regs["rsp"], regs["rbp"])

Compiled ==
    /\ code.bss = Bss(ProgramTables(source).globals.next_addr)
    /\ code.frame = [x \in DOMAIN ProgramTables(source).functions |->
                       ProgramTables(source).functions[x].locals.next_addr]

\* As long as nothing spoils the stack, the calls in progress and the frame at
\* hand are what the site of the instruction tells.
DInv ==
    /\ MInv
    /\ ~Loaded => regs["rsp"] = StackTop + WordSize
    /\ Loaded => Compiled
    /\ intact /\ status = "running" => FineHere

\* The sites of a program, at each of its instructions.
SitedAll(p, text, S) ==
    /\ S[1] = <<"main", Outside>>
    /\ \A i \in 1 .. Len(text) :
         /\ Onward(p, text[i], S[i], S[i + 1])
         /\ text[i][1] \in Jumps => \E j \in 1 .. Len(text) : text[j] = Label(text[i][2]) /\ S[j] = S[i]

LEMMA SitesThere == ASSUME NEW p \in Programs PROVE SitedAll(p, Prog(p).text, SitesOf(p))
<1> DEFINE text == Prog(p).text
           S == SitesOf(p)
           X(T) == (\E G : Sited(p, text, T, G, G)) /\ T[1] = <<"main", Outside>>
<1>1. \E T : X(T)
  BY ProgramSited
<1>2. S = CHOOSE T : X(T)
  BY DEF SitesOf
<1> HIDE DEF S
<1>3. X(S)
  BY <1>1, <1>2
<1>4. PICK G : Sited(p, text, S, G, G)
  BY <1>3
<1> HIDE DEF text
<1>5. ASSUME NEW i \in 1 .. Len(text)
      PROVE  /\ Onward(p, text[i], S[i], S[i + 1])
             /\ text[i][1] \in Jumps => \E j \in 1 .. Len(text) : text[j] = Label(text[i][2]) /\ S[j] = S[i]
  <2>1. Onward(p, text[i], S[i], S[i + 1]) /\ (text[i][1] \in Jumps => <<text[i][2], S[i]>> \in G)
    BY <1>4 DEF Sited
  <2>2. ASSUME text[i][1] \in Jumps
        PROVE  \E j \in 1 .. Len(text) : text[j] = Label(text[i][2]) /\ S[j] = S[i]
    <3> DEFINE g == <<text[i][2], S[i]>>
    <3>1. g \in G /\ g[1] = text[i][2] /\ g[2] = S[i]
      BY <2>1, <2>2
    <3> HIDE DEF g
    <3> QED  BY <1>4, <3>1 DEF Sited
  <2> QED  BY <2>1, <2>2
<1>6. SitedAll(p, text, S)
  BY <1>3, <1>5 DEF SitedAll
<1> QED  BY <1>6 DEF text, S

LEMMA SitePair == ASSUME NEW s, s \in Sites PROVE s = <<s[1], s[2]>> /\ s[1] \in STRING /\ s[2] \in Int
  BY DEF Sites

LEMMA AtSite ==
    ASSUME MInv, NEW ops, Is(ops)
    PROVE  /\ Owner \in STRING /\ Level \in Int /\ After \in Int
           /\ Follows(FnOf(source, Owner), Instruction, Level, After)
           /\ SitesOf(source)[rip] = <<Owner, Level>>
           /\ Instruction[1] \notin {"ret", "syscall"} => SitesOf(source)[rip + 1] = <<Owner, After>>
           /\ Instruction[1] = "label" => Level = Outside \/ Instruction[2][1] = Owner
           /\ Instruction[1] \in Jumps =>
                \E j \in DOMAIN code.text : code.text[j] = Label(Instruction[2])
                                          /\ SitesOf(source)[j] = SitesOf(source)[rip]
<1> DEFINE S == SitesOf(source)
           s == S[rip]
           t == S[rip + 1]
           x == Instruction
           text == code.text
<1>1. status = "running" /\ rip \in DOMAIN text
  BY DEF Is
<1>2. source \in Programs /\ text = Prog(source).text
  BY <1>1, LoadedIs DEF MInv
<1>3. DOMAIN text = 1 .. Len(text)
  BY <1>1, LoadedIs
<1>4. SitedAll(source, text, S)
  BY <1>2, SitesThere
<1> HIDE DEF S
<1>5. x = text[rip]
  BY DEF Instruction
<1>6. /\ Onward(source, x, s, t)
      /\ x[1] \in Jumps => \E j \in 1 .. Len(text) : text[j] = Label(x[2]) /\ S[j] = S[rip]
  <2> HIDE DEF text, x
  <2> QED  BY <1>1, <1>3, <1>4, <1>5 DEF SitedAll
<1> HIDE DEF x
<1>7. /\ s \in Sites /\ t \in Sites /\ Follows(FnOf(source, s[1]), x, s[2], t[2])
      /\ x[1] \notin {"ret", "syscall"} => s[1] = t[1]
      /\ x[1] = "label" => s[2] = Outside \/ x[2][1] = s[1]
  BY <1>6 DEF Onward
<1>8. Owner = s[1] /\ Level = s[2] /\ After = t[2]
  BY DEF Owner, Level, After, S
<1>9. /\ s = <<s[1], s[2]>> /\ s[1] \in STRING /\ s[2] \in Int
      /\ t = <<t[1], t[2]>> /\ t[1] \in STRING /\ t[2] \in Int
  <2> HIDE DEF s, t
  <2> QED  BY <1>7, SitePair
<1>10. x[1] \in Jumps => \E j \in DOMAIN text : text[j] = Label(x[2]) /\ S[j] = S[rip]
  BY <1>3, <1>6
<1> HIDE DEF s, t
<1>11. x[1] \notin {"ret", "syscall"} => t = <<s[1], t[2]>>
  BY <1>7, <1>9
<1> QED  BY <1>7, <1>8, <1>9, <1>10, <1>11 DEF s, t, S, x

\* An instruction that goes to the next one.
LEMMA FineNext ==
    ASSUME MInv, NEW ops, Is(ops), "ret" \notin ops, "syscall" \notin ops, Inner,
           NEW r, NEW m, Goes(r, m), FineAt(After, m, r["rsp"], r["rbp"])
    PROVE  FineHere'
<1>1. /\ source' = source /\ callstack' = callstack /\ regs' = r /\ memory' = m /\ rip' = rip + 1
  BY DEF Inner, Silent, Stays, chosen, Goes
<1>2. Instruction[1] \in ops
  BY AtInstruction
<1>3. SitesOf(source)[rip + 1] = <<Owner, After>>
  BY <1>2, AtSite
<1>4. Fine(source, SitesOf(source), callstack, m, SitesOf(source)[rip + 1], r["rsp"], r["rbp"])
  BY <1>3 DEF FineAt
<1> QED  BY <1>1, <1>4 DEF FineHere

LEMMA FineNow ==
    ASSUME MInv, NEW ops, Is(ops), FineHere
    PROVE  /\ FineAt(Level, memory, regs["rsp"], regs["rbp"])
           /\ source \in Programs /\ callstack \in Seq(CallRecords(DOMAIN code.text))
           /\ Linked(source, SitesOf(source), callstack, memory, Owner)
           /\ Current(source, callstack, memory, Owner, Level, regs["rsp"], regs["rbp"])
           /\ regs["rsp"] \in Word /\ regs["rbp"] \in Word /\ regs["rsp"] \in Int /\ regs["rbp"] \in Int
<1>1. SitesOf(source)[rip] = <<Owner, Level>>
  BY AtSite
<1>2. FineAt(Level, memory, regs["rsp"], regs["rbp"])
  BY <1>1 DEF FineHere, FineAt
<1>3. source \in Programs /\ callstack \in Seq(CallRecords(DOMAIN code.text))
  BY LoadedIs DEF MInv, Is, Frames, CallRecords
<1>4. /\ Linked(source, SitesOf(source), callstack, memory, Owner)
      /\ Current(source, callstack, memory, Owner, Level, regs["rsp"], regs["rbp"])
  BY <1>2 DEF FineAt, Fine
<1>5. regs["rsp"] \in Word /\ regs["rbp"] \in Word
  BY LoadedIs, StackIs DEF Is
<1>6. regs["rsp"] \in Int /\ regs["rbp"] \in Int
  BY <1>5, WordsAre
<1> QED  BY <1>2, <1>3, <1>4, <1>5, <1>6

\* It leaves the stack alone, and the words that the calls need.
LEMMA FineSame ==
    ASSUME MInv, NEW ops, Is(ops), "ret" \notin ops, "syscall" \notin ops, Inner, FineHere, After = Level,
           NEW r, NEW m, Goes(r, m), r["rsp"] = regs["rsp"], r["rbp"] = regs["rbp"],
           \A a \in LinksOf(callstack) : m[a] = memory[a]
    PROVE  FineHere'
<1>1. /\ FineAt(Level, memory, regs["rsp"], regs["rbp"])
      /\ callstack \in Seq(CallRecords(DOMAIN code.text))
  BY FineNow
<1> DEFINE A == DOMAIN code.text
           cs == callstack
           S == SitesOf(source)
           s == <<Owner, Level>>
<1>2. cs \in Seq(CallRecords(A)) /\ Fine(source, S, cs, memory, s, regs["rsp"], regs["rbp"])
  BY <1>1 DEF FineAt
<1> HIDE DEF A, S, s
<1>3. Fine(source, S, cs, m, s, regs["rsp"], regs["rbp"])
  BY <1>2, FineKept
<1>4. FineAt(After, m, r["rsp"], r["rbp"])
  BY <1>3 DEF FineAt, S, s
<1> QED  BY <1>4, FineNext
-----------------------------------------------------------------------------
(* The steps that leave the stack alone                                    *)

LEMMA FineSets ==
    ASSUME MInv, NEW ops, Is(ops), "ret" \notin ops, "syscall" \notin ops, Inner, FineHere, After = Level,
           NEW q, q # "rsp", q # "rbp", NEW v, Goes([regs EXCEPT ![q] = v], memory)
    PROVE  FineHere'
<1> DEFINE r == [regs EXCEPT ![q] = v]
<1>1. regs \in [Registers -> Word]
  BY LoadedIs DEF Is
<1>2. r["rsp"] = regs["rsp"] /\ r["rbp"] = regs["rbp"]
  BY <1>1, RegistersAre
<1>3. Goes(r, memory)
  OBVIOUS
<1> HIDE DEF r
<1> QED  BY <1>2, <1>3, FineSame

\* A result is in a register that no frame needs.
LEMMA ResultRegister == ASSUME NEW x \in Results PROVE x[1] = "reg" /\ x[2] # "rsp" /\ x[2] # "rbp"
  BY DEF Results, Reg

LEMMA LeaFine == ASSUME MInv, FineHere, LeaStep PROVE FineHere'
<1> DEFINE ops == {"lea"}
<1>1. Is(ops) /\ Goes([regs EXCEPT ![Instruction[2][2]] = Effective(Instruction[3])], memory) /\ Inner
  BY DEF LeaStep
<1>2. Instruction[1] = "lea" /\ Follows(FnOf(source, Owner), Instruction, Level, After)
  BY <1>1, AtInstruction, AtSite
<1>3. Instruction[2] \in Results /\ After = Level
  BY <1>2 DEF Follows
<1>4. Instruction[2][2] # "rsp" /\ Instruction[2][2] # "rbp" /\ "ret" \notin ops /\ "syscall" \notin ops
  BY <1>3, ResultRegister
<1> HIDE DEF ops
<1> QED  BY <1>1, <1>3, <1>4, FineSets

LEMMA NegFine == ASSUME MInv, FineHere, NegStep PROVE FineHere'
<1> DEFINE ops == {"neg"}
           r == Instruction[2][2]
<1>1. Is(ops) /\ Goes([regs EXCEPT ![r] = Wrap(-@)], memory) /\ Inner
  BY DEF NegStep
<1>2. Instruction[1] = "neg" /\ Follows(FnOf(source, Owner), Instruction, Level, After)
  BY <1>1, AtInstruction, AtSite
<1>3. Instruction[2] \in Results /\ After = Level
  BY <1>2 DEF Follows
<1>4. r # "rsp" /\ r # "rbp" /\ "ret" \notin ops /\ "syscall" \notin ops
  BY <1>3, ResultRegister
<1>5. [regs EXCEPT ![r] = Wrap(-@)] = [regs EXCEPT ![r] = Wrap(-regs[r])]
  OBVIOUS
<1>6. Goes([regs EXCEPT ![r] = Wrap(-regs[r])], memory)
  BY <1>1, <1>5
<1> HIDE DEF ops, r
<1> QED  BY <1>1, <1>3, <1>4, <1>6, FineSets

\* The instructions that only use rax, rdx and the flags.
LEMMA SilentFine ==
    ASSUME MInv, FineHere, CqoStep \/ SeteStep \/ MovzxStep \/ IdivStep \/ CompareStep PROVE FineHere'
<1> DEFINE ops == {"idiv", "cqo", "cmp", "sete", "movzx"}
<1>1. regs \in [Registers -> Word]
  <2>1. status = "running"
    BY DEF CqoStep, SeteStep, MovzxStep, IdivStep, CompareStep, Is
  <2> QED  BY <2>1, LoadedIs
<1>2. \E r : Goes(r, memory) /\ Is(ops) /\ Inner /\ r["rsp"] = regs["rsp"] /\ r["rbp"] = regs["rbp"]
  <2>1. CASE CqoStep
    <3> DEFINE r == [regs EXCEPT !["rdx"] = IF regs["rax"] < 0 THEN -1 ELSE 0]
    <3>1. Goes(r, memory) /\ Is(ops) /\ Inner
      BY <2>1 DEF CqoStep, Is
    <3>2. r["rsp"] = regs["rsp"] /\ r["rbp"] = regs["rbp"]
      BY <1>1, RegistersAre
    <3> HIDE DEF r
    <3> QED  BY <3>1, <3>2
  <2>2. CASE SeteStep
    <3> DEFINE r == [regs EXCEPT !["rax"] = Wrap(@ - (@ % 256) + Truth(flags = 0))]
    <3>1. Goes(r, memory) /\ Is(ops) /\ Inner
      BY <2>2 DEF SeteStep, Is
    <3>2. r["rsp"] = regs["rsp"] /\ r["rbp"] = regs["rbp"]
      BY <1>1, RegistersAre
    <3> HIDE DEF r
    <3> QED  BY <3>1, <3>2
  <2>3. CASE MovzxStep
    <3> DEFINE r == [regs EXCEPT !["rax"] = @ % 256]
    <3>1. Goes(r, memory) /\ Is(ops) /\ Inner
      BY <2>3 DEF MovzxStep, Is
    <3>2. r["rsp"] = regs["rsp"] /\ r["rbp"] = regs["rbp"]
      BY <1>1, RegistersAre
    <3> HIDE DEF r
    <3> QED  BY <3>1, <3>2
  <2>4. CASE IdivStep
    <3> DEFINE d == Fetch(Instruction[2])
               r == [regs EXCEPT !["rax"] = Quotient(Dividend, d), !["rdx"] = Remainder(Dividend, d)]
    <3>1. Goes(r, memory) /\ Is(ops) /\ Inner
      BY <2>4 DEF IdivStep, Is
    <3>2. r["rsp"] = regs["rsp"] /\ r["rbp"] = regs["rbp"]
      BY <1>1, RegistersAre
    <3> HIDE DEF r
    <3> QED  BY <3>1, <3>2
  <2>5. CASE CompareStep
    BY <2>5 DEF CompareStep, Is
  <2> QED  BY <2>1, <2>2, <2>3, <2>4, <2>5
<1>3. PICK r : Goes(r, memory) /\ Is(ops) /\ Inner /\ r["rsp"] = regs["rsp"] /\ r["rbp"] = regs["rbp"]
  BY <1>2
<1>4. Instruction[1] \in ops /\ Follows(FnOf(source, Owner), Instruction, Level, After)
  BY <1>3, AtInstruction, AtSite
<1>5. After = Level
  BY <1>4 DEF Follows
<1>6. "ret" \notin ops /\ "syscall" \notin ops
  OBVIOUS
<1> HIDE DEF ops
<1> QED  BY <1>3, <1>5, <1>6, FineSame

LEMMA LabelFine == ASSUME MInv, FineHere, LabelStep PROVE FineHere'
<1> DEFINE ops == {"label"}
<1>1. Is(ops) /\ Goes(regs, memory) /\ Inner
  BY DEF LabelStep
<1>2. Instruction[1] = "label" /\ Follows(FnOf(source, Owner), Instruction, Level, After)
  BY <1>1, AtInstruction, AtSite
<1>3. After = Level /\ "ret" \notin ops /\ "syscall" \notin ops
  BY <1>2 DEF Follows
<1> HIDE DEF ops
<1> QED  BY <1>1, <1>3, FineSame

\* The label of a text is where it is placed.
LEMMA PlacedWhere ==
    ASSUME NEW text, Unique(text), NEW j \in DOMAIN text, NEW l, text[j] = Label(l)
    PROVE  l \in DOMAIN Places(text) /\ Places(text)[l] = j
<1>1. text[j][1] = "label" /\ text[j][2] = l
  BY DEF Label
<1>2. j \in Labels(text)
  BY <1>1 DEF Labels
<1>3. DOMAIN Places(text) = {text[i][2] : i \in Labels(text)}
  BY DEF Places
<1>4. l \in DOMAIN Places(text)
  BY <1>1, <1>2, <1>3
<1>5. Places(text)[l] = CHOOSE i \in Labels(text) : text[i][2] = l
  BY <1>3, <1>4 DEF Places
<1>6. \A i \in Labels(text) : text[i][2] = l => i = j
  BY <1>1, <1>2 DEF Unique
<1> QED  BY <1>1, <1>2, <1>4, <1>5, <1>6

LEMMA JumpFine == ASSUME MInv, FineHere, JumpStep PROVE FineHere'
<1> DEFINE ops == {"jmp", "je", "jne", "jl", "jle", "jg", "jge"}
           l == Instruction[2]
<1>1. /\ Is(ops) /\ Inner /\ regs' = regs /\ memory' = memory
      /\ rip' = IF Taken(Instruction[1]) THEN code.place[l] ELSE rip + 1
  BY DEF JumpStep
<1>2. /\ Instruction[1] \in ops /\ Follows(FnOf(source, Owner), Instruction, Level, After)
      /\ SitesOf(source)[rip] = <<Owner, Level>>
      /\ Instruction[1] \notin {"ret", "syscall"} => SitesOf(source)[rip + 1] = <<Owner, After>>
      /\ Instruction[1] \in Jumps =>
           \E j \in DOMAIN code.text : code.text[j] = Label(l) /\ SitesOf(source)[j] = SitesOf(source)[rip]
  BY <1>1, AtInstruction, AtSite
<1>3. ops = Jumps /\ Instruction[1] \in Jumps /\ Instruction[1] \notin {"ret", "syscall"}
  BY <1>2 DEF Jumps
<1>4. ProgText(source, code.text) /\ code.place = Places(code.text)
  BY <1>1, LoadedIs DEF Is
<1>5. SitesOf(source)[rip'] = SitesOf(source)[rip]
  <2>1. CASE Taken(Instruction[1])
    <3>1. PICK j \in DOMAIN code.text : code.text[j] = Label(l) /\ SitesOf(source)[j] = SitesOf(source)[rip]
      BY <1>2, <1>3
    <3>2. Unique(code.text)
      BY <1>4 DEF ProgText
    <3> DEFINE text == code.text
    <3> HIDE DEF text, l
    <3>3. Places(text)[l] = j
      BY <3>1, <3>2, PlacedWhere DEF text
    <3> QED  BY <1>1, <1>4, <2>1, <3>1, <3>3 DEF text
  <2>2. CASE ~Taken(Instruction[1])
    <3>1. Instruction[1] # "jmp"
      BY <2>2 DEF Taken
    <3>2. After = Level
      BY <1>2, <1>3, <3>1 DEF Follows
    <3> QED  BY <1>1, <1>2, <1>3, <2>2, <3>2
  <2> QED  BY <2>1, <2>2
<1>6. source' = source /\ callstack' = callstack
  BY <1>1 DEF Inner, Silent, Stays, chosen
<1> QED  BY <1>1, <1>5, <1>6 DEF FineHere
-----------------------------------------------------------------------------
(* The words of variables                                                  *)

LEMMA BssApart ==
    ASSUME NEW p \in Programs, NEW a \in Bss(ProgramTables(p).globals.next_addr)
    PROVE  a \in Word /\ a \notin Stack
<1> DEFINE g == ProgramTables(p).globals.next_addr
           end == GlobalVars + g
<1>1. PICK q \in Nat : g = WordSize * q
  BY ProgramFrames
<1>2. g \div WordSize = q
  <2>1. (8 * q) \div 8 = q
    OBVIOUS
  <2> HIDE DEF g
  <2> QED  BY <1>1, <2>1 DEF WordSize
<1>3. end <= StackTop - StackSize + WordSize \/ (StackTop < GlobalVars /\ end <= WordMax)
  BY SectionsAssumption
<1> HIDE DEF g
<1>4. PICK i \in 0 .. q - 1 : a = GlobalVars + WordSize * i
  BY <1>2 DEF Bss, g
<1>5. /\ GlobalVars \in Int /\ -WordMax - 1 <= GlobalVars /\ StackTop + WordSize <= WordMax
      /\ StackTop \in Int /\ StackSize \in Nat /\ WordMax \in Nat
  BY MachineAssumption, WordMaxAssumption, StackAre DEF Word
<1>6. a \in Int /\ GlobalVars <= a /\ a + WordSize <= end
  BY <1>1, <1>4, <1>5 DEF WordSize
<1>7. end \in Int
  BY <1>1, <1>5 DEF WordSize
<1> HIDE DEF end
<1>8. a \in Word
  BY <1>3, <1>5, <1>6, <1>7 DEF WordSize, Word
<1>9. ASSUME a \in Stack PROVE FALSE
  <2>1. a <= StackTop /\ StackTop - StackSize + WordSize <= a
    BY <1>9, StackAre
  <2> QED  BY <1>3, <1>5, <1>6, <1>7, <2>1 DEF WordSize
<1> QED  BY <1>8, <1>9

LEMMA LinksThere ==
    ASSUME NEW p, NEW S, NEW A, NEW cs \in Seq(CallRecords(A)), NEW m, NEW o,
           Linked(p, S, cs, m, o), Len(cs) # 0 => Saves(m, cs[Len(cs)])
    PROVE  LinksOf(cs) \subseteq Stack
<1> DEFINE n == Len(cs)
<1>1. n \in Nat
  OBVIOUS
<1>2. ASSUME NEW k \in 1 .. n PROVE cs[k].rsp - WordSize \in Stack /\ cs[k].rsp - 2 * WordSize \in Stack
  <2>1. Returns(m, cs[k]) /\ (k < n => Saves(m, cs[k]))
    BY DEF Linked
  <2>2. k < n \/ (k = n /\ n # 0)
    BY <1>1
  <2>3. Saves(m, cs[k])
    BY <2>1, <2>2
  <2> QED  BY <2>1, <2>3 DEF Returns, Saves
<1> QED  BY <1>2 DEF LinksOf

\* A local variable, below rbp.
LEMMA LocalApart ==
    ASSUME NEW p \in Programs, NEW cs, NEW m, NEW o, NEW d, NEW rsp, NEW rbp, d \in Nat,
           InFrame(p, cs, m, o, d, rsp, rbp), NEW n, n \in LocalPlaces(FnOf(p, o))
    PROVE  rbp + n \in Stack /\ rsp <= rbp + n /\ rbp + n \notin LinksOf(cs)
<1>1. /\ o \in FunctionNames(p) /\ rsp \in Stack /\ rbp \in Stack /\ rsp \in Int /\ rbp \in Int
      /\ rsp = rbp - FrameSize(p, o) - WordSize * d
      /\ \A a \in LinksOf(cs) : a \in Int /\ rbp <= a
  BY DEF InFrame
<1>2. PICK q \in Nat : FrameSize(p, o) = WordSize * q
  BY <1>1, FrameNat
<1>3. FrameOf(FnOf(p, o)) \div WordSize = q
  BY <1>2, FrameWords DEF FrameSize
<1>4. PICK k \in 1 .. q : n = -(WordSize * k)
  BY <1>3 DEF LocalPlaces
<1> DEFINE a == rbp + n
<1>5. a = rsp + WordSize * (q + d - k) /\ q + d - k \in Nat /\ a \in Int /\ a < rbp /\ rsp <= a
  BY <1>1, <1>2, <1>4 DEF WordSize
<1> HIDE DEF a
<1>6. a \in Stack
  <2> DEFINE j == q + d - k
  <2>1. j \in Nat /\ a = rsp + WordSize * j /\ a <= rbp
    BY <1>1, <1>5
  <2> HIDE DEF j
  <2> QED  BY <1>1, <2>1, StackBetween
<1>7. a \notin LinksOf(cs)
  BY <1>1, <1>5
<1> QED  BY <1>5, <1>6, <1>7 DEF a

\* A parameter above the words of the call, that the caller has pushed.
LEMMA ArgumentApart ==
    ASSUME NEW p \in Programs, NEW S, NEW A, NEW cs \in Seq(CallRecords(A)), NEW m, NEW o, NEW d,
           NEW rsp, NEW rbp, d \in Nat, Linked(p, S, cs, m, o),
           InFrame(p, cs, m, o, d, rsp, rbp), NEW n, n \in ArgumentPlaces(FnOf(p, o))
    PROVE  rbp + n \in Stack /\ rsp <= rbp + n /\ rbp + n \notin LinksOf(cs)
<1> DEFINE len == Len(cs)
           c == cs[len]
           x == c.rsp
           e == ExtraOf(p, o)
           b == cs[len - 1]
<1>1. /\ o \in FunctionNames(p) /\ rsp \in Int /\ rbp \in Int /\ rsp <= rbp
      /\ rbp = x - 2 * WordSize /\ len # 0
  BY DEF InFrame
<1>2. Extra(FnOf(p, o).func) = e
  BY DEF FnOf, Within, ExtraOf
<1>3. e \in Nat
  BY <1>1, ExtraNat
<1>4. len \in Nat /\ \A k \in 1 .. len : cs[k].rsp \in Int
  BY RecordsAre
<1>5. len \in 1 .. len /\ Callee(S, cs, o, len) = o
  BY <1>1, <1>4 DEF Callee
<1> HIDE DEF e
<1>6. PICK k \in 0 .. e - 1 : n = FirstStackParam + WordSize * k
  BY <1>2 DEF ArgumentPlaces
<1>7. len # 1
  <2>1. len = 1 => ExtraOf(p, Callee(S, cs, o, len)) = 0
    BY <1>5 DEF Linked
  <2>2. e # 0
    BY <1>3, <1>6
  <2> QED  BY <1>5, <2>1, <2>2 DEF e
<1> HIDE DEF len
<1>8. len > 1 /\ len - 1 \in 1 .. len /\ len - 1 < len /\ len - 1 \in 1 .. len - 1
  BY <1>1, <1>4, <1>7
<1>9. From(p, b, c, S[c.back]) /\ Saves(m, b)
  BY <1>5, <1>8 DEF Linked, len
<1>10. x \in Stack /\ b.rsp - 2 * WordSize \in Stack
  BY <1>9 DEF From, Saves
<1>11. \A j \in 1 .. len - 1 : x + WordSize * e <= cs[j].rsp - 2 * WordSize
  BY <1>5 DEF Linked, len, e
<1>12. x \in Int /\ b.rsp \in Int /\ (\A j \in 1 .. len - 1 : cs[j].rsp \in Int) /\ x + WordSize * e <= b.rsp - 2 * WordSize
  BY <1>4, <1>5, <1>8, <1>11
<1> DEFINE a == rbp + n
<1> HIDE DEF x, b, c
<1>13. a = x + WordSize * k /\ a \in Int /\ rsp <= a /\ x <= a /\ a < x + WordSize * e
  <2>1. k \in Nat /\ k < e /\ n = 16 + 8 * k /\ n \in Int
    BY <1>3, <1>6 DEF WordSize, FirstStackParam
  <2>2. rbp = x - 16 /\ a = rbp + n
    BY <1>1 DEF WordSize
  <2> HIDE DEF a
  <2>3. a = x + 8 * k /\ a \in Int /\ rsp <= a /\ x <= a /\ a < x + 8 * e
    BY <1>1, <1>3, <1>12, <2>1, <2>2
  <2> QED  BY <2>3 DEF WordSize
<1> HIDE DEF a
<1>14. a \in Stack
  <2>1. a <= b.rsp - 2 * WordSize
    BY <1>3, <1>12, <1>13 DEF WordSize
  <2> DEFINE y == b.rsp - 2 * WordSize
  <2>2. k \in Nat
    BY <1>3
  <2>3. a <= y /\ y \in Stack
    BY <1>10, <2>1
  <2> HIDE DEF y
  <2> QED  BY <1>10, <1>13, <2>2, <2>3, StackBetween
<1>15. \A j \in 1 .. len - 1 : a # cs[j].rsp - WordSize /\ a # cs[j].rsp - 2 * WordSize
  <2> TAKE j \in 1 .. len - 1
  <2> DEFINE y == cs[j].rsp
             z == x + WordSize * e
  <2>1. y \in Int /\ z <= y - 2 * WordSize /\ a < z /\ z \in Int
    BY <1>3, <1>11, <1>12, <1>13 DEF WordSize
  <2> HIDE DEF y, z
  <2>2. a # y - WordSize /\ a # y - 2 * WordSize
    BY <1>13, <2>1 DEF WordSize
  <2> QED  BY <2>2 DEF y
<1>16. a # x - WordSize /\ a # x - 2 * WordSize
  BY <1>12, <1>13 DEF WordSize
<1>17. \A j \in 1 .. len : j = len \/ j \in 1 .. len - 1
  BY <1>4
<1>18. a \notin LinksOf(cs)
  BY <1>15, <1>16, <1>17 DEF LinksOf, x, c, len
<1> QED  BY <1>13, <1>14, <1>18 DEF a

\* The word of a variable is none that a call needs to return.
CellSafe(x) == LET a == Effective(x)
               IN a \notin LinksOf(callstack) /\ (a \in code.bss \/ (a \in Stack /\ regs["rsp"] <= a))

LEMMA CellApart ==
    ASSUME MInv, Compiled, NEW ops, Is(ops), FineHere, Level \in Nat, NEW x \in CellsOf(FnOf(source, Owner))
    PROVE  CellSafe(x)
<1> DEFINE p == source
           S == SitesOf(source)
           A == DOMAIN code.text
           cs == callstack
           rsp == regs["rsp"]
           rbp == regs["rbp"]
           f == FnOf(p, Owner)
<1>1. /\ p \in Programs /\ cs \in Seq(CallRecords(A)) /\ Linked(p, S, cs, memory, Owner)
      /\ Current(p, cs, memory, Owner, Level, rsp, rbp)
  BY FineNow
<1>2. InFrame(p, cs, memory, Owner, Level, rsp, rbp)
  <2> HIDE DEF p, S, A, cs, rsp, rbp
  <2> QED  BY <1>1, Inside
<1>3. CASE \E n \in LocalPlaces(f) \cup ArgumentPlaces(f) : x = Mem("rbp", n)
  <2>1. PICK n \in LocalPlaces(f) \cup ArgumentPlaces(f) : x = Mem("rbp", n)
    BY <1>3
  <2>2. rbp + n \in Stack /\ rsp <= rbp + n /\ rbp + n \notin LinksOf(cs)
    <3>1. CASE n \in LocalPlaces(f)
      <4> HIDE DEF p, S, A, cs, rsp, rbp
      <4> QED  BY <1>1, <1>2, <3>1, LocalApart
    <3>2. CASE n \in ArgumentPlaces(f)
      <4> HIDE DEF p, S, A, cs, rsp, rbp
      <4> QED  BY <1>1, <1>2, <3>2, ArgumentApart
    <3> QED  BY <3>1, <3>2
  <2>3. x[1] = "mem" /\ x[2] = "rbp" /\ x[3] = n
    BY <2>1 DEF Mem
  <2>4. Effective(x) = Wrap(rbp + n)
    BY <2>3 DEF Effective
  <2>5. Effective(x) = rbp + n
    <3>1. rbp + n \in Word
      BY <2>2, StackAre
    <3> QED  BY <2>4, <3>1, WrapWord
  <2> QED  BY <2>2, <2>5 DEF CellSafe
<1>4. CASE \E n \in GlobalPlaces(f) : x = Mem("global_vars", n)
  <2>1. PICK n \in GlobalPlaces(f) : x = Mem("global_vars", n)
    BY <1>4
  <2>2. x[1] = "mem" /\ x[2] = "global_vars" /\ x[3] = n
    BY <2>1 DEF Mem
  <2>3. Effective(x) = Wrap(GlobalVars + n)
    BY <2>2 DEF Effective
  <2>4. f.globals = ProgramTables(p).globals
    BY DEF FnOf, Within
  <2>5. GlobalVars + n \in Bss(ProgramTables(p).globals.next_addr)
    BY <2>4 DEF GlobalPlaces, Bss
  <2>6. GlobalVars + n \in Word /\ GlobalVars + n \notin Stack
    BY <1>1, <2>5, BssApart
  <2>7. Effective(x) = GlobalVars + n
    BY <2>3, <2>6, WrapWord
  <2>8. Effective(x) \in code.bss
    BY <2>5, <2>7 DEF Compiled
  <2>9. LinksOf(cs) \subseteq Stack
    <3>1. Len(cs) # 0 => Saves(memory, cs[Len(cs)])
      BY <1>2 DEF InFrame
    <3> HIDE DEF p, S, A, cs
    <3> QED  BY <1>1, <3>1, LinksThere
  <2> QED  BY <2>6, <2>7, <2>8, <2>9 DEF CellSafe
<1> QED  BY <1>3, <1>4 DEF CellsOf
-----------------------------------------------------------------------------
(* The steps that use the stack                                            *)

LEMMA LinksAre ==
    ASSUME MInv, status = "running"
    PROVE  Links = LinksOf(callstack)
<1>1. DOMAIN callstack = 1 .. Len(callstack)
  BY LoadedIs
<1> QED  BY <1>1 DEF Links, LinksOf

LEMMA MovFine == ASSUME MInv, Compiled, FineHere, MovStep PROVE FineHere'
<1> DEFINE ops == {"mov"}
           to == Instruction[2]
           v == Fetch(Instruction[3])
           r == IF to[1] = "reg" THEN [regs EXCEPT ![to[2]] = v] ELSE regs
           m == IF to[1] = "reg" THEN memory ELSE [memory EXCEPT ![Effective(to)] = v]
<1>1. Is(ops) /\ Goes(r, m) /\ Inner
  BY DEF MovStep
<1>2. Instruction[1] = "mov" /\ Follows(FnOf(source, Owner), Instruction, Level, After)
  BY <1>1, AtInstruction, AtSite
<1>3. "ret" \notin ops /\ "syscall" \notin ops
  OBVIOUS
<1>4. regs \in [Registers -> Word]
  BY <1>1, LoadedIs DEF Is
<1>5. /\ Fine(source, SitesOf(source), callstack, memory, <<Owner, Level>>, regs["rsp"], regs["rbp"])
      /\ source \in Programs /\ callstack \in Seq(CallRecords(DOMAIN code.text))
  BY <1>1, FineNow DEF FineAt
<1>6. CASE to = Reg("rbp")
  <2>1. Instruction[3] = Reg("rsp") /\ Level = Saved /\ After = Framed
    BY <1>2, <1>6 DEF Follows
  <2>2. v = regs["rsp"] /\ to[1] = "reg" /\ to[2] = "rbp"
    BY <1>6, <2>1 DEF Fetch, Reg
  <2>3. r = [regs EXCEPT !["rbp"] = regs["rsp"]] /\ m = memory
    BY <2>2
  <2>4. r["rsp"] = regs["rsp"] /\ r["rbp"] = regs["rsp"]
    <3> HIDE DEF r
    <3> QED  BY <1>4, <2>3, RegistersAre
  <2> HIDE DEF r, m
  <2>5. FineAt(After, m, r["rsp"], r["rbp"])
    BY <1>5, <2>1, <2>3, <2>4, FineFramed DEF FineAt
  <2> HIDE DEF ops
  <2> QED  BY <1>1, <1>3, <2>5, FineNext
<1>7. CASE to = Reg("rsp")
  <2>1. Instruction[3] = Reg("rbp") /\ Level \in Nat /\ After = Framed
    <3>1. to # Reg("rbp")
      BY <1>7 DEF Reg
    <3> QED  BY <1>2, <1>7, <3>1 DEF Follows
  <2>2. v = regs["rbp"] /\ to[1] = "reg" /\ to[2] = "rsp"
    BY <1>7, <2>1 DEF Fetch, Reg
  <2>3. r = [regs EXCEPT !["rsp"] = regs["rbp"]] /\ m = memory
    BY <2>2
  <2>4. r["rsp"] = regs["rbp"] /\ r["rbp"] = regs["rbp"]
    <3> HIDE DEF r
    <3> QED  BY <1>4, <2>3, RegistersAre
  <2> HIDE DEF r, m
  <2>5. FineAt(After, m, r["rsp"], r["rbp"])
    BY <1>5, <2>1, <2>3, <2>4, FineUnframed DEF FineAt
  <2> HIDE DEF ops
  <2> QED  BY <1>1, <1>3, <2>5, FineNext
<1>8. CASE to # Reg("rbp") /\ to # Reg("rsp")
  <2>1. After = Level /\ (to \in Results \/ (Level \in Nat /\ to \in CellsOf(FnOf(source, Owner))))
    BY <1>2, <1>8 DEF Follows
  <2>2. CASE to \in Results
    <3>1. to[1] = "reg" /\ to[2] # "rsp" /\ to[2] # "rbp"
      BY <2>2, ResultRegister
    <3> DEFINE q == to[2]
    <3>2. Goes([regs EXCEPT ![q] = v], memory)
      BY <1>1, <3>1
    <3> HIDE DEF ops, to, v, r, m
    <3>3. q # "rsp" /\ q # "rbp"
      BY <3>1
    <3> HIDE DEF q
    <3> QED  BY <1>1, <1>3, <2>1, <3>2, <3>3, FineSets
  <2>3. CASE Level \in Nat /\ to \in CellsOf(FnOf(source, Owner))
    <3>1. to[1] = "mem"
      BY <2>3, CellsAre
    <3>2. CellSafe(to)
      BY <1>1, <2>3, CellApart
    <3> DEFINE a == Effective(to)
    <3>3. a \notin LinksOf(callstack)
      BY <3>2 DEF CellSafe
    <3>4. r = regs /\ m = [memory EXCEPT ![a] = v]
      BY <3>1
    <3> HIDE DEF a, v, r, m, to
    <3>5. memory \in [code.bss \cup Stack -> Word]
      BY <1>1, LoadedIs DEF Is
    <3>6. \A b \in LinksOf(callstack) : m[b] = memory[b]
      <4>1. LinksOf(callstack) \subseteq Stack
        <5>1. InFrame(source, callstack, memory, Owner, Level, regs["rsp"], regs["rbp"])
          BY <1>1, <2>3, FineNow, Inside
        <5>2. Len(callstack) # 0 => Saves(memory, callstack[Len(callstack)])
          BY <5>1 DEF InFrame
        <5>3. Linked(source, SitesOf(source), callstack, memory, Owner)
          BY <1>1, FineNow
        <5> QED  BY <1>5, <5>2, <5>3, LinksThere
      <4> QED  BY <3>3, <3>4, <3>5, <4>1
    <3> HIDE DEF ops
    <3> QED  BY <1>1, <1>3, <2>1, <3>4, <3>6, FineSame
  <2> QED  BY <2>1, <2>2, <2>3
<1> QED  BY <1>6, <1>7, <1>8

LEMMA BelowStack ==
    ASSUME NEW a, a \in Stack \/ a = StackTop + WordSize
    PROVE  a \in Int /\ a - WordSize \in Word /\ Wrap(a - WordSize) = a - WordSize
<1>1. /\ StackTop \in Int /\ StackTop \in Word /\ StackTop - StackSize \in Word /\ StackSize \in Nat
      /\ WordMax \in Nat
  BY MachineAssumption, WordMaxAssumption, StackAre
<1>2. CASE a \in Stack
  <2>1. a \in Int /\ a <= StackTop /\ StackTop - StackSize + WordSize <= a
    BY <1>2, StackAre
  <2>2. -WordMax - 1 <= StackTop - StackSize /\ StackTop <= WordMax
    BY <1>1 DEF Word
  <2>3. a - WordSize \in Word
    BY <1>1, <2>1, <2>2 DEF Word, WordSize
  <2> QED  BY <2>1, <2>3, WrapWord
<1>3. CASE a = StackTop + WordSize
  <2>1. a \in Int /\ a - WordSize = StackTop
    BY <1>1, <1>3 DEF WordSize
  <2> QED  BY <1>1, <2>1, WrapWord
<1> QED  BY <1>2, <1>3

\* There is room for a word: it is written below rsp, and hits none that a call
\* needs.
LEMMA EnteredTop ==
    ASSUME NEW p \in Programs, NEW S, NEW A, NEW cs, cs \in Seq(CallRecords(A)), NEW m, NEW o, NEW rsp, NEW rbp,
           Linked(p, S, cs, m, o), Current(p, cs, m, o, Entered, rsp, rbp)
    PROVE  rsp \in Stack
<1> DEFINE n == Len(cs)
<1>1. n # 0 /\ rsp = cs[n].rsp - WordSize
  BY LevelsApart DEF Current
<1>2. n \in 1 .. n
  BY <1>1, RecordsAre
<1>3. Returns(m, cs[n])
  BY <1>2 DEF Linked
<1> QED  BY <1>1, <1>3 DEF Returns

LEMMA RoomIs ==
    ASSUME NEW ops, ops \in {{"push"}, {"call"}}, Is(ops), ~RunsOut,
           regs["rsp"] \in Stack \/ regs["rsp"] = StackTop + WordSize
    PROVE  regs["rsp"] - WordSize \in Stack /\ Wrap(regs["rsp"] - WordSize) = regs["rsp"] - WordSize
<1>1. Is({"push", "call"})
  BY DEF Is
<1>2. Implicit \subseteq Stack
  BY <1>1 DEF RunsOut
<1>3. Implicit = {Wrap(regs["rsp"] - WordSize)}
  BY <1>1 DEF Implicit
<1>4. Wrap(regs["rsp"] - WordSize) = regs["rsp"] - WordSize
  BY BelowStack
<1> QED  BY <1>2, <1>3, <1>4

LEMMA PushFine == ASSUME MInv, FineHere, PushStep, ~RunsOut PROVE FineHere'
<1> DEFINE ops == {"push"}
           rsp == regs["rsp"]
           rbp == regs["rbp"]
           top == Wrap(rsp - WordSize)
           v == Fetch(Instruction[2])
           r == [regs EXCEPT !["rsp"] = top]
           m == [memory EXCEPT ![top] = v]
           p == source
           S == SitesOf(source)
           A == DOMAIN code.text
           cs == callstack
<1>1. Is(ops) /\ Goes(r, m) /\ Inner
  BY DEF PushStep
<1>2. Instruction[1] = "push" /\ Follows(FnOf(source, Owner), Instruction, Level, After)
  BY <1>1, AtInstruction, AtSite
<1>3. "ret" \notin ops /\ "syscall" \notin ops
  OBVIOUS
<1>4. regs \in [Registers -> Word] /\ memory \in [code.bss \cup Stack -> Word]
  BY <1>1, LoadedIs DEF Is
<1>5. r["rsp"] = top /\ r["rbp"] = rbp
  BY <1>4, RegistersAre
<1>6. /\ Fine(p, S, cs, memory, <<Owner, Level>>, rsp, rbp) /\ p \in Programs /\ cs \in Seq(CallRecords(A))
      /\ Linked(p, S, cs, memory, Owner) /\ Current(p, cs, memory, Owner, Level, rsp, rbp)
  BY <1>1, FineNow DEF FineAt
<1> HIDE DEF p, S, A, cs, v
<1>7. CASE Instruction[2] = Reg("rbp")
  <2>1. Level = Entered /\ After = Saved
    BY <1>2, <1>7 DEF Follows
  <2>2. rsp \in Stack
    BY <1>6, <2>1, EnteredTop
  <2>3. rsp - WordSize \in Stack /\ top = rsp - WordSize
    BY <1>1, <2>2, RoomIs
  <2>4. v = rbp
    BY <1>7 DEF v, Fetch, Reg
  <2> HIDE DEF r, top, rsp, rbp
  <2>5. m[rsp - WordSize] = rbp /\ \A a : a # rsp - WordSize /\ a \in code.bss \cup Stack => m[a] = memory[a]
    BY <1>4, <2>3, <2>4
  <2>6. LinksOf(cs) \subseteq Stack \cup {rsp - WordSize}
    <3> DEFINE n == Len(cs)
               b == cs[n].rsp
    <3>1. n \in Nat /\ \A k \in 1 .. n : cs[k].rsp \in Int
      BY <1>6, RecordsAre
    <3>2. n # 0 /\ rsp = b - WordSize
      BY <1>6, <2>1, LevelsApart DEF Current
    <3>3. b \in Int
      BY <3>1, <3>2
    <3>4. rsp - WordSize = b - 2 * WordSize
      BY <3>2, <3>3 DEF WordSize
    <3>5. ASSUME NEW k \in 1 .. n PROVE cs[k].rsp - WordSize \in Stack
                                        /\ cs[k].rsp - 2 * WordSize \in Stack \cup {rsp - WordSize}
      <4>1. Returns(memory, cs[k]) /\ (k < n => Saves(memory, cs[k]))
        BY <1>6 DEF Linked
      <4>2. k < n \/ k = n
        BY <3>1
      <4> QED  BY <3>4, <4>1, <4>2 DEF Returns, Saves
    <3> QED  BY <3>5 DEF LinksOf
  <2> HIDE DEF m
  <2>7. \A a \in LinksOf(cs) : a # rsp - WordSize => m[a] = memory[a]
    BY <2>5, <2>6
  <2>8. Fine(p, S, cs, memory, <<Owner, Entered>>, rsp, rbp)
    BY <1>6, <2>1
  <2>9. Fine(p, S, cs, m, <<Owner, Saved>>, rsp - WordSize, rbp)
    BY <1>6, <2>3, <2>5, <2>7, <2>8, FineSaved
  <2>10. FineAt(After, m, r["rsp"], r["rbp"])
    BY <1>5, <2>1, <2>3, <2>9 DEF FineAt, p, S, cs
  <2> HIDE DEF ops
  <2> QED  BY <1>1, <1>3, <2>10, FineNext
<1>8. CASE Instruction[2] # Reg("rbp")
  <2>1. Level \in Nat /\ After = Level + 1
    BY <1>2, <1>8 DEF Follows
  <2>2. InFrame(p, cs, memory, Owner, Level, rsp, rbp)
    <3> HIDE DEF rsp, rbp
    <3> QED  BY <1>6, <2>1, Inside
  <2>3. rsp \in Stack /\ rsp \in Int /\ rbp \in Int /\ rsp <= rbp /\ (\A a \in LinksOf(cs) : a \in Int /\ rbp <= a)
        /\ (Len(cs) # 0 => Saves(memory, cs[Len(cs)]))
    BY <2>2 DEF InFrame
  <2>4. rsp - WordSize \in Stack /\ top = rsp - WordSize
    BY <1>1, <2>3, RoomIs
  <2>5. LinksOf(cs) \subseteq Stack
    BY <1>6, <2>3, LinksThere
  <2> HIDE DEF r, rsp, rbp, top
  <2>6. top \notin LinksOf(cs)
    BY <2>3, <2>4 DEF WordSize
  <2>7. \A a \in LinksOf(cs) : m[a] = memory[a]
    BY <1>4, <2>5, <2>6
  <2> HIDE DEF m
  <2>8. top = rsp + WordSize * (Level - After) /\ After \in Nat /\ top \in Stack
    BY <2>1, <2>3, <2>4 DEF WordSize
  <2> DEFINE d == Level
             e == After
  <2>9. /\ d \in Nat /\ e \in Nat /\ top = rsp + WordSize * (d - e)
        /\ Fine(p, S, cs, memory, <<Owner, d>>, rsp, rbp)
    BY <1>6, <2>1, <2>8
  <2> HIDE DEF d, e
  <2>10. Fine(p, S, cs, m, <<Owner, e>>, top, rbp)
    BY <1>6, <2>7, <2>8, <2>9, FineMoved
  <2>11. FineAt(After, m, r["rsp"], r["rbp"])
    BY <1>5, <2>10 DEF FineAt, p, S, cs, e
  <2> HIDE DEF ops
  <2> QED  BY <1>1, <1>3, <2>11, FineNext
<1> QED  BY <1>7, <1>8

LEMMA PopFine == ASSUME MInv, FineHere, PopStep, ~Strays PROVE FineHere'
<1> DEFINE ops == {"pop"}
           rsp == regs["rsp"]
           rbp == regs["rbp"]
           to == Instruction[2]
           v == memory[rsp]
           top == Wrap(rsp + WordSize)
           up == [regs EXCEPT !["rsp"] = Wrap(@ + WordSize)]
           r == IF to[1] = "reg" THEN [up EXCEPT ![to[2]] = v] ELSE up
           m == IF to[1] = "reg" THEN memory ELSE [memory EXCEPT ![Effective(to)] = v]
           p == source
           S == SitesOf(source)
           A == DOMAIN code.text
           cs == callstack
<1>1. Is(ops) /\ Goes(r, m) /\ Inner
  BY DEF PopStep
<1>2. Instruction[1] = "pop" /\ Follows(FnOf(source, Owner), Instruction, Level, After)
  BY <1>1, AtInstruction, AtSite
<1>3. "ret" \notin ops /\ "syscall" \notin ops
  OBVIOUS
<1>4. regs \in [Registers -> Word] /\ memory \in [code.bss \cup Stack -> Word]
  BY <1>1, LoadedIs DEF Is
<1>5. up = [regs EXCEPT !["rsp"] = top] /\ up \in [Registers -> {top} \cup Word] /\ up["rsp"] = top /\ up["rbp"] = rbp
  BY <1>4, RegistersAre
<1>6. /\ Fine(p, S, cs, memory, <<Owner, Level>>, rsp, rbp) /\ p \in Programs /\ cs \in Seq(CallRecords(A))
      /\ Linked(p, S, cs, memory, Owner) /\ Current(p, cs, memory, Owner, Level, rsp, rbp)
  BY <1>1, FineNow DEF FineAt
<1> HIDE DEF p, S, A, up
<1>7. CASE to = Reg("rbp")
  <2>1. Level = Framed /\ After = Entered
    BY <1>2, <1>7 DEF Follows
  <2>2. to[1] = "reg" /\ to[2] = "rbp"
    BY <1>7 DEF Reg
  <2> HIDE DEF to, rsp, rbp, top, cs
  <2>3. r = [up EXCEPT !["rbp"] = v] /\ m = memory
    BY <2>2
  <2> HIDE DEF r, m
  <2>4. r["rsp"] = top /\ r["rbp"] = v
    BY <1>5, <2>3, RegistersAre
  <2>5. Fine(p, S, cs, memory, <<Owner, Entered>>, rsp + WordSize, v)
    BY <1>6, <2>1, FineRestored
  <2>6. Linked(p, S, cs, memory, Owner) /\ Current(p, cs, memory, Owner, Entered, rsp + WordSize, v)
    BY <2>5 DEF Fine
  <2> DEFINE y == rsp + WordSize
  <2>7. top = Wrap(y)
    BY DEF top
  <2> HIDE DEF y, v
  <2>8. y \in Stack
    BY <1>6, <2>6, EnteredTop DEF y
  <2>9. top = y
    BY <2>7, <2>8, StackAre, WrapWord
  <2>10. FineAt(After, m, r["rsp"], r["rbp"])
    BY <2>1, <2>3, <2>4, <2>5, <2>9 DEF FineAt, p, S, cs, y
  <2> HIDE DEF ops
  <2> QED  BY <1>1, <1>3, <2>10, FineNext DEF r, m, to, cs, rsp, v, y
<1>8. CASE to # Reg("rbp")
  <2>1. Level \in Nat /\ After \in Nat /\ Level = After + 1 /\ to \in Results \cup {Mem("rax", 0)}
    BY <1>2, <1>8 DEF Follows
  <2>2. InFrame(p, cs, memory, Owner, Level, rsp, rbp)
    <3> HIDE DEF rsp, rbp, cs
    <3> QED  BY <1>6, <2>1, Inside
  <2>3. rsp \in Int /\ (Len(cs) # 0 => Saves(memory, cs[Len(cs)]))
    BY <2>2 DEF InFrame
  <2>4. LinksOf(cs) \subseteq Stack
    BY <1>6, <2>3, LinksThere
  <2>5. r["rsp"] = top /\ r["rbp"] = rbp /\ \A a \in LinksOf(cs) : m[a] = memory[a]
    <3>1. CASE to \in Results
      <4>1. to[1] = "reg" /\ to[2] # "rsp" /\ to[2] # "rbp"
        BY <3>1, ResultRegister
      <4> HIDE DEF to, rsp, rbp, top, cs
      <4>2. r = [up EXCEPT ![to[2]] = v] /\ m = memory
        BY <4>1
      <4> HIDE DEF r, m
      <4> QED  BY <1>5, <4>1, <4>2, RegistersAre
    <3>2. CASE to = Mem("rax", 0)
      <4>1. to[1] # "reg"
        BY <3>2 DEF Mem
      <4>2. Effective(to) \notin LinksOf(cs)
        BY <1>1, <3>2, LinksAre DEF Strays, Is
      <4> DEFINE b == Effective(to)
      <4>3. r = up /\ m = [memory EXCEPT ![b] = v]
        BY <4>1
      <4> HIDE DEF r, m, b, v
      <4>4. \A a \in LinksOf(cs) : m[a] = memory[a]
        BY <1>4, <2>4, <4>2, <4>3 DEF b
      <4> QED  BY <1>5, <4>3, <4>4
    <3> QED  BY <2>1, <3>1, <3>2
  <2> DEFINE d == Level
             e == After
             y == rsp + WordSize
  <2>6. d \in Nat /\ e \in Nat /\ d = e + 1 /\ Fine(p, S, cs, memory, <<Owner, d>>, rsp, rbp)
    BY <1>6, <2>1
  <2>7. top = Wrap(y)
    OBVIOUS
  <2> HIDE DEF rsp, rbp, top, cs, d, e, r, m
  <2>8. y = rsp + WordSize * (d - e) /\ y = rsp + WordSize * 1
    BY <2>3, <2>6 DEF WordSize
  <2>9. y \in Stack
    <3>1. Fine(p, S, cs, memory, <<Owner, e + 1>>, rsp, rbp) /\ 1 \in Nat
      BY <2>6
    <3>2. rsp + WordSize * 1 \in Stack
      BY <1>6, <2>6, <3>1, TakenOff
    <3> QED  BY <2>8, <3>2
  <2> HIDE DEF y
  <2>10. top = y
    BY <2>7, <2>9, StackAre, WrapWord
  <2>11. Fine(p, S, cs, m, <<Owner, e>>, y, rbp)
    BY <1>6, <2>5, <2>6, <2>8, <2>9, FineMoved
  <2>12. FineAt(After, m, r["rsp"], r["rbp"])
    BY <2>5, <2>10, <2>11 DEF FineAt, p, S, cs, e
  <2> HIDE DEF ops, to, v
  <2> QED  BY <1>1, <1>3, <2>12, FineNext DEF r, m, rsp, to, v
<1> QED  BY <1>7, <1>8

LEMMA ComputeFine == ASSUME MInv, FineHere, ComputeStep, ~RunsOut PROVE FineHere'
<1> DEFINE ops == {"add", "sub", "imul"}
           op == Instruction[1]
           to == Instruction[2]
           rsp == regs["rsp"]
           rbp == regs["rbp"]
           q == to[2]
           v == Fetch(Instruction[3])
           result == CASE op = "add" -> regs[q] + v
                       [] op = "sub" -> regs[q] - v
                       [] op = "imul" -> regs[q] * v
           w == Wrap(result)
           r == [regs EXCEPT ![q] = w]
           f == FnOf(source, Owner)
           p == source
           S == SitesOf(source)
           A == DOMAIN code.text
           cs == callstack
<1>1. Is(ops) /\ Goes(r, memory) /\ Inner
  BY DEF ComputeStep
<1>2. op \in ops /\ Follows(f, Instruction, Level, After)
  BY <1>1, AtInstruction, AtSite
<1>3. "ret" \notin ops /\ "syscall" \notin ops
  OBVIOUS
<1>4. regs \in [Registers -> Word]
  BY <1>1, LoadedIs DEF Is
<1>5. \/ to \in Results /\ Level \in Nat /\ After = Level
      \/ op = "sub" /\ to = Reg("rsp") /\ Instruction[3] = Imm(FrameOf(f)) /\ Level = Framed /\ After = 0
      \/ /\ op = "add" /\ to = Reg("rsp") /\ Level \in Nat /\ After \in Nat
         /\ \E n \in Nat : Instruction[3] = Imm(n * WordSize) /\ Level = After + n
  BY <1>2 DEF Follows
<1>6. /\ Fine(p, S, cs, memory, <<Owner, Level>>, rsp, rbp) /\ p \in Programs /\ cs \in Seq(CallRecords(A))
      /\ Linked(p, S, cs, memory, Owner) /\ Current(p, cs, memory, Owner, Level, rsp, rbp)
      /\ rsp \in Word /\ rsp \in Int
  BY <1>1, FineNow DEF FineAt
<1>7. to = Reg("rsp") => q = "rsp"
  BY DEF Reg
<1>8. to = Reg("rsp") => r["rsp"] = w /\ r["rbp"] = rbp
  <2> HIDE DEF w, q
  <2> QED  BY <1>4, <1>7, RegistersAre
<1>9. \A n : Fetch(Imm(n)) = Wrap(n)
  BY DEF Fetch, Imm
<1> HIDE DEF p, S, A, cs
<1>10. CASE to \in Results /\ Level \in Nat /\ After = Level
  <2>1. q # "rsp" /\ q # "rbp"
    BY <1>10, ResultRegister
  <2> HIDE DEF ops, q, w
  <2> QED  BY <1>1, <1>3, <1>10, <2>1, FineSets
<1>11. CASE op = "sub" /\ to = Reg("rsp") /\ Instruction[3] = Imm(FrameOf(f)) /\ Level = Framed /\ After = 0
  <2> DEFINE n == FrameOf(f)
  <2>1. n = FrameSize(p, Owner)
    BY DEF FrameSize, p
  <2>2. n \in Int
    <3>1. Len(cs) # 0
      BY <1>6, <1>11, LevelsApart DEF Current
    <3>2. Owner \in FunctionNames(p)
      BY <1>6, <3>1, LinksAbove
    <3>3. PICK j \in Nat : FrameSize(p, Owner) = WordSize * j
      BY <1>6, <3>2, FrameNat
    <3> QED  BY <2>1, <3>3 DEF WordSize
  <2>3. rsp - n \in Stack
    <3>1. Is({"sub"})
      BY <1>1, <1>11 DEF Is
    <3>2. Instruction[3][2] = n
      BY <1>11 DEF Imm
    <3> QED  BY <1>11, <3>1, <3>2 DEF RunsOut
  <2>4. w = Wrap(rsp - Wrap(n))
    BY <1>7, <1>9, <1>11
  <2> HIDE DEF n, rsp, rbp, w, r
  <2>5. w = rsp - n
    BY <1>6, <2>2, <2>3, <2>4, StackAre, WrapTwice
  <2>6. Fine(p, S, cs, memory, <<Owner, Framed>>, rsp, rbp)
    BY <1>6, <1>11
  <2>7. Fine(p, S, cs, memory, <<Owner, 0>>, rsp - n, rbp)
    BY <1>6, <2>1, <2>3, <2>6, FineRoom
  <2>8. FineAt(After, memory, r["rsp"], r["rbp"])
    BY <1>8, <1>11, <2>5, <2>7 DEF FineAt, p, S, cs
  <2> HIDE DEF ops
  <2> QED  BY <1>1, <1>3, <2>8, FineNext
<1>12. CASE /\ op = "add" /\ to = Reg("rsp") /\ Level \in Nat /\ After \in Nat
            /\ \E n \in Nat : Instruction[3] = Imm(n * WordSize) /\ Level = After + n
  <2>1. PICK n \in Nat : Instruction[3] = Imm(n * WordSize) /\ Level = After + n
    BY <1>12
  <2> DEFINE d == Level
             e == After
             y == rsp + WordSize * n
  <2>2. d \in Nat /\ e \in Nat /\ d = e + n /\ Fine(p, S, cs, memory, <<Owner, d>>, rsp, rbp)
    BY <1>6, <1>12, <2>1
  <2>3. w = Wrap(rsp + Wrap(n * WordSize))
    BY <1>7, <1>9, <1>12, <2>1
  <2> HIDE DEF d, e, rsp, rbp, w, r
  <2>4. y \in Stack
    <3>1. Fine(p, S, cs, memory, <<Owner, e + n>>, rsp, rbp)
      BY <2>2
    <3> QED  BY <1>6, <2>2, <3>1, TakenOff
  <2>5. n * WordSize \in Int /\ y = rsp + n * WordSize /\ y = rsp + WordSize * (d - e)
    BY <1>6, <2>2 DEF WordSize
  <2> HIDE DEF y
  <2>6. w = y
    <3> DEFINE x == n * WordSize
    <3>1. x \in Int /\ y = rsp + x /\ w = Wrap(rsp + Wrap(x)) /\ y \in Word
      BY <2>3, <2>4, <2>5, StackAre
    <3> HIDE DEF x
    <3> QED  BY <1>6, <3>1, WrapTwice
  <2>7. \A a \in LinksOf(cs) : memory[a] = memory[a]
    OBVIOUS
  <2>8. Fine(p, S, cs, memory, <<Owner, e>>, y, rbp)
    BY <1>6, <2>2, <2>4, <2>5, <2>7, FineMoved
  <2>9. FineAt(After, memory, r["rsp"], r["rbp"])
    BY <1>8, <1>12, <2>6, <2>8 DEF FineAt, p, S, cs, e
  <2> HIDE DEF ops
  <2> QED  BY <1>1, <1>3, <2>9, FineNext
<1> QED  BY <1>5, <1>10, <1>11, <1>12
-----------------------------------------------------------------------------
(* Calls and returns                                                       *)

LEMMA NotTheEntryPoint == ASSUME NEW p \in Programs PROVE "_start" \notin FunctionNames(p)
<1>1. \A i \in DOMAIN p.functions : p.functions[i].ident # "_start"
  BY ProgramsAssumption
<1>2. "_start" \notin DefinedNames(p)
  BY <1>1 DEF DefinedNames
<1>3. "_start" \notin BuiltinNames
  <2>1. \A i \in DOMAIN Builtins : i = 1 \/ i = 2 \/ i = 3 \/ i = 4
    BY DEF Builtins
  <2>2. /\ Builtins[1].ident = "putchar" /\ Builtins[2].ident = "putint"
        /\ Builtins[3].ident = "getchar" /\ Builtins[4].ident = "getint"
    BY DEF Builtins
  <2>3. \A i \in DOMAIN Builtins : Builtins[i].ident # "_start"
    BY <2>1, <2>2
  <2> QED  BY <2>3 DEF BuiltinNames
<1> QED  BY <1>2, <1>3 DEF FunctionNames

\* The label of a function begins it, with the return address on the stack.
LEMMA AtLabel ==
    ASSUME NEW p \in Programs, NEW text, text = Prog(p).text, NEW j, j \in 1 .. Len(text),
           NEW y, y \in FunctionNames(p), text[j][1] = "label", text[j][2] = FunctionLabel(y)
    PROVE  SitesOf(p)[j] = <<y, Entered>>
<1> DEFINE S == SitesOf(p)
           s == S[j]
           t == S[j + 1]
           x == text[j]
           f == FnOf(p, s[1])
<1>1. SitedAll(p, text, S)
  BY SitesThere
<1> HIDE DEF S
<1>2. Onward(p, x, s, t)
  BY <1>1 DEF SitedAll
<1>3. x[1] = "label" /\ x[2] = FunctionLabel(y)
  OBVIOUS
<1>4. FunctionLabel(y)[1] = y /\ FunctionLabel(y)[2] = "" /\ FunctionLabel("_start")[1] = "_start"
  BY DEF FunctionLabel
<1>5. y # "_start"
  BY NotTheEntryPoint
<1>6. x[2] # FunctionLabel("_start")
  BY <1>3, <1>4, <1>5
<1> HIDE DEF x
<1>7. /\ s \in Sites /\ Follows(f, x, s[2], t[2])
      /\ IF s[2] = Outside THEN x[2] = FunctionLabel("_start") ELSE x[2][1] = s[1]
  BY <1>2, <1>3 DEF Onward
<1>8. s[2] \in {Entered, Outside}
  BY <1>3, <1>4, <1>7 DEF Follows
<1>9. s[2] = Entered /\ s[1] = y
  BY <1>3, <1>4, <1>6, <1>7, <1>8
<1>10. s = <<s[1], s[2]>>
  <2> HIDE DEF s
  <2> QED  BY <1>7, SitePair
<1> QED  BY <1>9, <1>10 DEF S

\* What a function is called with.
LEMMA CallIs ==
    ASSUME MInv, FineHere, Is({"call"}), ~RunsOut
    PROVE  /\ Level \in Nat \/ Level = Outside
           /\ After = Level
           /\ regs["rsp"] - WordSize \in Stack /\ Wrap(regs["rsp"] - WordSize) = regs["rsp"] - WordSize
           /\ LinksOf(callstack) \subseteq Stack
           /\ \A a \in LinksOf(callstack) : a \in Int /\ regs["rsp"] <= a
           /\ \E y \in FunctionNames(source) : /\ Instruction[2] = FunctionLabel(y)
                                               /\ Level \in Nat => ExtraOf(source, y) <= Level
                                               /\ Level = Outside => ExtraOf(source, y) = 0
<1> DEFINE ops == {"call"}
           f == FnOf(source, Owner)
           p == source
           S == SitesOf(source)
           A == DOMAIN code.text
           cs == callstack
           rsp == regs["rsp"]
           rbp == regs["rbp"]
<1>1. Instruction[1] = "call" /\ Follows(f, Instruction, Level, After)
  BY AtInstruction, AtSite
<1>2. f.functions = ProgramTables(p).functions
  BY DEF FnOf, Within
<1>3. /\ p \in Programs /\ cs \in Seq(CallRecords(A))
      /\ Linked(p, S, cs, memory, Owner) /\ Current(p, cs, memory, Owner, Level, rsp, rbp)
  BY FineNow
<1>4. DOMAIN f.functions = FunctionNames(p)
  BY <1>2, <1>3, ProgramFrames
<1> HIDE DEF f
<1>5. PICK y \in FunctionNames(p) :
        /\ Instruction[2] = FunctionLabel(y)
        /\ \/ Level \in Nat /\ Extra(f.functions[y]) <= Level
           \/ Level = Outside /\ Extra(f.functions[y]) <= 0
  BY <1>1, <1>4 DEF Follows
<1>6. After = Level
  BY <1>1 DEF Follows
<1>7. Extra(f.functions[y]) = ExtraOf(p, y) /\ ExtraOf(p, y) \in Nat
  BY <1>2, <1>3, ExtraNat DEF ExtraOf
<1> HIDE DEF p, S, A, cs, rsp, rbp
<1>8. CASE Level = Outside
  <2>1. Len(cs) = 0 /\ rsp = StackTop + WordSize
    BY <1>3, <1>8 DEF Current
  <2>2. rsp - WordSize \in Stack /\ Wrap(rsp - WordSize) = rsp - WordSize
    BY <2>1, RoomIs DEF rsp
  <2>3. \A a \in LinksOf(cs) : FALSE
    BY <2>1, NotOne DEF LinksOf
  <2>4. Level \notin Nat
    BY <1>8, LevelsApart
  <2>5. ExtraOf(p, y) = 0
    BY <1>5, <1>7, <2>4
  <2> QED  BY <1>5, <1>6, <1>8, <2>2, <2>3, <2>4, <2>5 DEF p, S, A, cs, rsp
<1>9. CASE Level \in Nat
  <2>1. InFrame(p, cs, memory, Owner, Level, rsp, rbp)
    BY <1>3, <1>9, Inside
  <2>2. /\ rsp \in Stack /\ rsp \in Int /\ rbp \in Int /\ rsp <= rbp /\ \A a \in LinksOf(cs) : a \in Int /\ rbp <= a
        /\ Len(cs) # 0 => Saves(memory, cs[Len(cs)])
    BY <2>1 DEF InFrame
  <2>3. rsp - WordSize \in Stack /\ Wrap(rsp - WordSize) = rsp - WordSize
    BY <2>2, RoomIs DEF rsp
  <2>4. LinksOf(cs) \subseteq Stack
    BY <1>3, <2>2, LinksThere
  <2>5. \A a \in LinksOf(cs) : a \in Int /\ rsp <= a
    BY <2>2
  <2>6. Level # Outside
    BY <1>9, LevelsApart
  <2> QED  BY <1>5, <1>6, <1>7, <1>9, <2>3, <2>4, <2>5, <2>6 DEF p, S, A, cs, rsp
<1> QED  BY <1>5, <1>8, <1>9

LEMMA CallFine == ASSUME MInv, FineHere, CallStep, ~RunsOut PROVE FineHere'
<1> DEFINE ops == {"call"}
           rsp == regs["rsp"]
           rbp == regs["rbp"]
           top == Wrap(rsp - WordSize)
           b == rip + 1
           c == [back |-> b, rsp |-> rsp, rbp |-> rbp]
           cs2 == Append(callstack, c)
           w == [memory EXCEPT ![top] = b]
           p == source
           S == SitesOf(source)
           A == DOMAIN code.text
           cs == callstack
           text == code.text
           l == Instruction[2]
<1>1. /\ Is({"call"}) /\ l \in DOMAIN code.place
      /\ regs' = [regs EXCEPT !["rsp"] = top] /\ memory' = w
      /\ rip' = code.place[l] /\ callstack' = cs2 /\ source' = source
  BY DEF CallStep, Silent, Stays, chosen
<1>2. /\ Level \in Nat \/ Level = Outside
      /\ After = Level /\ rsp - WordSize \in Stack /\ top = rsp - WordSize
      /\ LinksOf(cs) \subseteq Stack /\ \A a \in LinksOf(cs) : a \in Int /\ rsp <= a
  BY <1>1, CallIs
<1>3. PICK y \in FunctionNames(p) : /\ l = FunctionLabel(y)
                                    /\ Level \in Nat => ExtraOf(p, y) <= Level
                                    /\ Level = Outside => ExtraOf(p, y) = 0
  BY <1>1, CallIs
<1>4. /\ regs \in [Registers -> Word] /\ memory \in [code.bss \cup Stack -> Word]
      /\ ProgText(source, text) /\ code.place = Places(text) /\ DOMAIN text = 1 .. Len(text)
  BY <1>1, LoadedIs DEF Is
<1>5. /\ p \in Programs /\ cs \in Seq(CallRecords(A)) /\ Linked(p, S, cs, memory, Owner)
      /\ Current(p, cs, memory, Owner, Level, rsp, rbp) /\ rsp \in Int
  BY <1>1, FineNow
<1>6. S[b] = <<Owner, Level>>
  <2>1. Instruction[1] = "call"
    BY <1>1, AtInstruction
  <2> QED  BY <1>1, <1>2, <2>1, AtSite
<1>7. S[rip'] = <<y, Entered>>
  <2>1. text = Prog(p).text
    BY <1>1 DEF MInv, Is, Loaded
  <2> HIDE DEF text, l
  <2>2. PICK i \in Labels(text) : text[i][2] = l
    BY <1>1, <1>4 DEF Places
  <2>3. Places(text)[l] = CHOOSE k \in Labels(text) : text[k][2] = l
    BY <2>2 DEF Places
  <2>4. rip' \in Labels(text) /\ text[rip'][2] = l
    BY <1>1, <1>4, <2>2, <2>3
  <2>5. rip' \in 1 .. Len(text) /\ text[rip'][1] = "label"
    BY <1>4, <2>4 DEF Labels
  <2> DEFINE j == rip'
  <2>6. j \in 1 .. Len(text) /\ text[j][1] = "label" /\ text[j][2] = FunctionLabel(y)
    BY <1>3, <2>4, <2>5
  <2> HIDE DEF j, p
  <2>7. SitesOf(p)[j] = <<y, Entered>>
    BY <1>5, <2>1, <2>6, AtLabel
  <2> QED  BY <2>7 DEF j, p
<1>8. regs'["rsp"] = top /\ regs'["rbp"] = rbp
  <2> HIDE DEF top
  <2> QED  BY <1>1, <1>4, RegistersAre
<1>9. /\ Len(cs2) = Len(cs) + 1 /\ (\A k \in 1 .. Len(cs) : cs2[k] = cs[k])
      /\ cs2[Len(cs) + 1] = c
  <2> HIDE DEF c, A
  <2> QED  BY <1>5
<1>10. w[rsp - WordSize] = b /\ \A a \in LinksOf(cs) : w[a] = memory[a]
  <2>1. \A a \in LinksOf(cs) : a # top
    BY <1>2, <1>5 DEF WordSize
  <2> HIDE DEF top, rsp, b
  <2> QED  BY <1>2, <1>4, <2>1
<1> DEFINE o == Owner
           d == Level
<1> HIDE DEF p, S, A, cs, rsp, rbp, b, cs2, w, top, o, d
<1>11. Linked(p, S, cs2, w, y) /\ Current(p, cs2, w, y, Entered, rsp - WordSize, rbp)
  <2>1. /\ S[b] = <<o, d>> /\ (d \in Nat \/ d = Outside) /\ (d \in Nat => ExtraOf(p, y) <= d)
        /\ d = Outside => ExtraOf(p, y) = 0
        /\ Linked(p, S, cs, memory, o) /\ Current(p, cs, memory, o, d, rsp, rbp)
        /\ y \in FunctionNames(p)
    BY <1>2, <1>3, <1>5, <1>6 DEF o, d
  <2> QED  BY <1>2, <1>5, <1>9, <1>10, <2>1, FineCalled
<1>12. Fine(p, S, cs2, w, <<y, Entered>>, top, rbp)
  BY <1>2, <1>11 DEF Fine
<1> QED  BY <1>1, <1>7, <1>8, <1>12 DEF FineHere, p, S

LEMMA FrontIs ==
    ASSUME NEW X, NEW s, s \in Seq(X), Len(s) # 0
    PROVE  LET t == SubSeq(s, 1, Len(s) - 1)
           IN s # <<>> /\ Len(t) = Len(s) - 1 /\ \A k \in 1 .. Len(s) - 1 : t[k] = s[k]
<1> DEFINE n == Len(s) - 1
<1>1. n \in 0 .. Len(s) /\ n \in Nat
  OBVIOUS
<1> HIDE DEF n
<1>2. Len(SubSeq(s, 1, n)) = n
  BY <1>1
<1>3. \A k \in 1 .. n : SubSeq(s, 1, n)[k] = s[k]
  BY <1>1
<1> QED  BY <1>2, <1>3 DEF n

LEMMA RetFine == ASSUME MInv, FineHere, RetStep PROVE FineHere'
<1> DEFINE rsp == regs["rsp"]
           rbp == regs["rbp"]
           top == Wrap(rsp + WordSize)
           p == source
           S == SitesOf(source)
           A == DOMAIN code.text
           cs == callstack
           n == Len(cs)
           cs2 == SubSeq(cs, 1, n - 1)
           s == S[memory[rsp]]
<1>1. /\ Is({"ret"}) /\ regs' = [regs EXCEPT !["rsp"] = Wrap(@ + WordSize)] /\ rip' = memory[rsp]
      /\ callstack' = IF cs = <<>> THEN cs ELSE cs2
      /\ memory' = memory /\ source' = source
  BY DEF RetStep, Silent, Stays, chosen
<1>2. Instruction[1] = "ret" /\ Follows(FnOf(source, Owner), Instruction, Level, After)
  BY <1>1, AtInstruction, AtSite
<1>3. Level = Entered
  BY <1>2 DEF Follows
<1>4. /\ p \in Programs /\ cs \in Seq(CallRecords(A)) /\ Linked(p, S, cs, memory, Owner)
      /\ Current(p, cs, memory, Owner, Entered, rsp, rbp)
  BY <1>1, <1>3, FineNow
<1>5. regs \in [Registers -> Word]
  BY <1>1, LoadedIs DEF Is
<1>6. regs'["rsp"] = top /\ regs'["rbp"] = rbp
  <2>1. regs' = [regs EXCEPT !["rsp"] = top]
    BY <1>1
  <2> HIDE DEF top
  <2> QED  BY <1>5, <2>1, RegistersAre
<1>7. n \in Nat /\ n # 0
  BY <1>4, RecordsAre, LevelsApart DEF Current
<1>8. cs # <<>> /\ Len(cs2) = n - 1 /\ \A k \in 1 .. n - 1 : cs2[k] = cs[k]
  <2> HIDE DEF A, cs
  <2> QED  BY <1>4, <1>7, FrontIs
<1>9. callstack' = cs2
  BY <1>1, <1>8
<1> HIDE DEF p, S, A, cs, rsp, rbp, cs2, top
<1>10. /\ rsp + WordSize = cs[n].rsp
       /\ Linked(p, S, cs2, memory, s[1]) /\ Current(p, cs2, memory, s[1], s[2], rsp + WordSize, rbp)
  BY <1>4, <1>8, FineReturned
<1>11. top = rsp + WordSize
  <2>1. cs[n].rsp \in Word
    BY <1>4, <1>7, RecordsAre
  <2> QED  BY <1>10, <2>1, WrapWord DEF top
<1>12. Fine(p, S, cs2, memory, s, top, rbp)
  BY <1>10, <1>11 DEF Fine
<1> QED  BY <1>1, <1>6, <1>9, <1>12 DEF FineHere, p, S

LEMMA BuiltinFine == ASSUME MInv, FineHere, BuiltinStep, ~RunsOut PROVE FineHere'
<1> DEFINE p == source
           S == SitesOf(source)
           A == DOMAIN code.text
           cs == callstack
           rsp == regs["rsp"]
           rbp == regs["rbp"]
           m == [a \in DOMAIN memory |-> IF a \in Stack /\ a < rsp THEN garbage ELSE memory[a]]
<1>1. /\ Is({"call"}) /\ memory' = m /\ rip' = rip + 1 /\ source' = source /\ callstack' = callstack
      /\ \E answer : regs' = [q \in Registers |-> IF q = "rax" THEN answer
                          ELSE IF q \in {"rsp", "rbp", "r8", "r9"} THEN regs[q] ELSE garbage]
  BY DEF BuiltinStep, Stays, chosen
<1>2. regs'["rsp"] = rsp /\ regs'["rbp"] = rbp
  BY <1>1, RegistersAre
<1>3. After = Level /\ LinksOf(cs) \subseteq Stack /\ \A a \in LinksOf(cs) : a \in Int /\ rsp <= a
  BY <1>1, CallIs
<1>4. /\ Fine(p, S, cs, memory, <<Owner, Level>>, rsp, rbp) /\ cs \in Seq(CallRecords(A)) /\ rsp \in Int
  BY <1>1, FineNow DEF FineAt
<1>5. S[rip + 1] = <<Owner, Level>>
  <2>1. Instruction[1] = "call"
    BY <1>1, AtInstruction
  <2> QED  BY <1>1, <1>3, <2>1, AtSite
<1>6. memory \in [code.bss \cup Stack -> Word]
  BY <1>1, LoadedIs DEF Is
<1> HIDE DEF p, S, A, cs, rsp, rbp
<1>7. \A a \in LinksOf(cs) : m[a] = memory[a]
  BY <1>3, <1>4, <1>6
<1> DEFINE s == <<Owner, Level>>
<1> HIDE DEF m, s
<1>8. Fine(p, S, cs, m, s, rsp, rbp)
  <2>1. Fine(p, S, cs, memory, s, rsp, rbp)
    BY <1>4 DEF s
  <2> QED  BY <1>4, <1>7, <2>1, FineKept
<1> QED  BY <1>1, <1>2, <1>5, <1>8 DEF FineHere, p, S, cs, s
-----------------------------------------------------------------------------
(* The specification                                                       *)

LEMMA NoCall == ASSUME NEW p, NEW S, NEW m, NEW o, NEW rbp
                PROVE  Fine(p, S, <<>>, m, <<o, Outside>>, StackTop + WordSize, rbp)
<1> DEFINE cs == <<>>
<1>1. Len(cs) = 0
  OBVIOUS
<1> HIDE DEF cs
<1>2. \A k \in 1 .. Len(cs) : FALSE
  BY <1>1, NotOne
<1>3. Linked(p, S, cs, m, o)
  BY <1>2 DEF Linked
<1>4. Current(p, cs, m, o, Outside, StackTop + WordSize, rbp)
  BY <1>1, LevelsApart DEF Current
<1> QED  BY <1>3, <1>4 DEF Fine, cs

LEMMA InitD == ASSUME DisciplineInit PROVE DInv
<1>1. Init /\ MInv
  BY InitM DEF DisciplineInit
<1>2. status = "source" /\ ~Loaded /\ status # "running"
  BY <1>1 DEF Init, Loaded
<1>3. regs["rsp"] = StackTop + WordSize
  BY <1>1, RegistersAre DEF Init
<1> QED  BY <1>1, <1>2, <1>3 DEF DInv

LEMMA LoadKeepsD == ASSUME DInv, WatchedLoad PROVE DInv'
<1> DEFINE c == Prog(source)
<1>1. MInv /\ Load /\ MInv'
  BY LoadKeeps DEF DInv, WatchedLoad
<1>2. /\ code' = [text |-> c.text, place |-> Places(c.text), bss |-> Bss(c.bss),
                  globals |-> c.globals, frame |-> c.frame]
      /\ status = "source" /\ status' = "running" /\ source' = source /\ rip' = rip /\ regs' = regs
      /\ callstack' = callstack
  BY <1>1 DEF Load, Link
<1>3. code'.bss = Bss(c.bss) /\ code'.frame = c.frame
  <2> HIDE DEF c
  <2> QED  BY <1>2
<1>4. ~Loaded /\ Loaded'
  BY <1>2 DEF Loaded
<1>5. /\ c.bss = ProgramTables(source).globals.next_addr
      /\ c.frame = [x \in DOMAIN ProgramTables(source).functions |->
                      ProgramTables(source).functions[x].locals.next_addr]
  BY DEF Prog
<1>6. Compiled'
  <2> HIDE DEF c
  <2> QED  BY <1>2, <1>3, <1>5 DEF Compiled
<1>7. source \in Programs /\ rip = 1 /\ callstack = <<>> /\ regs["rsp"] = StackTop + WordSize
  BY <1>1, <1>4 DEF MInv, DInv
<1>8. SitesOf(source)[1] = <<"main", Outside>>
  BY <1>7, SitesThere DEF SitedAll
<1>9. FineHere'
  BY <1>2, <1>7, <1>8, NoCall DEF FineHere
<1> QED  BY <1>1, <1>4, <1>6, <1>9 DEF DInv

\* Of a step that goes on, the stack is fine when it was and nothing spoils it.
LEMMA StepFine ==
    ASSUME MInv, Compiled, FineHere, Step, ~RunsOut, ~Strays, status' = "running"
    PROVE  FineHere'
<1>1. CASE PushStep
  BY <1>1, PushFine
<1>2. CASE PopStep
  BY <1>2, PopFine
<1>3. CASE MovStep
  BY <1>3, MovFine
<1>4. CASE LeaStep
  BY <1>4, LeaFine
<1>5. CASE ComputeStep
  BY <1>5, ComputeFine
<1>6. CASE NegStep
  BY <1>6, NegFine
<1>7. CASE CqoStep \/ SeteStep \/ MovzxStep \/ IdivStep \/ CompareStep
  BY <1>7, SilentFine
<1>8. CASE DivisionFault \/ ExitStep \/ Crash
  BY <1>8 DEF DivisionFault, ExitStep, Crash
<1>9. CASE JumpStep
  BY <1>9, JumpFine
<1>10. CASE LabelStep
  BY <1>10, LabelFine
<1>11. CASE CallStep
  BY <1>11, CallFine
<1>12. CASE RetStep
  BY <1>12, RetFine
<1>13. CASE BuiltinStep
  BY <1>13, BuiltinFine
<1> QED  BY <1>1, <1>2, <1>3, <1>4, <1>5, <1>6, <1>7, <1>8, <1>9, <1>10, <1>11, <1>12, <1>13 DEF Step

LEMMA StepRuns == ASSUME Step PROVE status = "running" /\ status' # "source" /\ source' = source /\ code' = code
<1> USE DEF Is, Inner, Silent, Stays, chosen
<1>1. CASE PushStep \/ PopStep \/ MovStep \/ LeaStep \/ ComputeStep
  BY <1>1 DEF PushStep, PopStep, MovStep, LeaStep, ComputeStep
<1>2. CASE NegStep \/ CqoStep \/ IdivStep \/ DivisionFault \/ CompareStep
  BY <1>2 DEF NegStep, CqoStep, IdivStep, DivisionFault, CompareStep
<1>3. CASE SeteStep \/ MovzxStep \/ JumpStep \/ LabelStep
  BY <1>3 DEF SeteStep, MovzxStep, JumpStep, LabelStep
<1>4. CASE CallStep \/ RetStep \/ BuiltinStep
  BY <1>4 DEF CallStep, RetStep, BuiltinStep
<1>5. CASE ExitStep \/ Crash
  BY <1>5 DEF ExitStep, Crash
<1> QED  BY <1>1, <1>2, <1>3, <1>4, <1>5 DEF Step

LEMMA StepKeepsD == ASSUME DInv, WatchedStep PROVE DInv'
<1>1. MInv /\ Step /\ MInv' /\ intact' = (intact /\ ~RunsOut /\ ~Strays)
  BY StepsKeep DEF DInv, WatchedStep
<1>2. status = "running" /\ status' # "source" /\ source' = source /\ code' = code
  BY <1>1, StepRuns
<1>3. Loaded /\ Loaded'
  BY <1>2 DEF Loaded
<1>4. Compiled /\ Compiled'
  BY <1>2, <1>3 DEF DInv, Compiled
<1>5. ASSUME intact', status' = "running" PROVE FineHere'
  <2>1. intact /\ ~RunsOut /\ ~Strays
    BY <1>1, <1>5
  <2>2. FineHere
    BY <1>2, <2>1 DEF DInv
  <2> QED  BY <1>1, <1>4, <1>5, <2>1, <2>2, StepFine
<1> QED  BY <1>1, <1>3, <1>4, <1>5 DEF DInv

LEMMA StutterKeepsD == ASSUME DInv, UNCHANGED <<vars, intact>> PROVE DInv'
<1>1. /\ source' = source /\ code' = code /\ stdin' = stdin /\ garbage' = garbage
      /\ consumed' = consumed /\ stdout' = stdout /\ rip' = rip /\ regs' = regs /\ flags' = flags
      /\ memory' = memory /\ status' = status /\ callstack' = callstack /\ intact' = intact
  BY DEF vars, chosen
<1>2. MInv'
  BY StutterKeeps DEF DInv
<1> QED  BY <1>1, <1>2 DEF DInv, Loaded, Compiled, FineHere

\* As long as nothing spoils the stack, the calls in progress lie one below the
\* other, and rsp and rbp are what the site of the next instruction tells: what
\* callers (codeWriter.c:258), prologue (codeWriter.c:658), epilogue
\* (codeWriter.c:685) and expressions (treeReader.c:160) agree on.
THEOREM StackInvariant == DisciplineSpec => []DInv
<1>1. DisciplineInit => DInv
  BY InitD
<1>2. DInv /\ [DisciplineNext]_<<vars, intact>> => DInv'
  BY LoadKeepsD, StepKeepsD, StutterKeepsD DEF DisciplineNext
<1> QED  BY <1>1, <1>2, PTL DEF DisciplineSpec

\* What the invariant tells of an instruction.
LEMMA FineThen ==
    ASSUME DInv, intact, NEW ops, Is(ops)
    PROVE  MInv /\ Compiled /\ FineHere /\ Follows(FnOf(source, Owner), Instruction, Level, After)
<1>1. status = "running" /\ Loaded
  BY DEF Is, Loaded
<1>2. MInv /\ Compiled /\ FineHere
  BY <1>1 DEF DInv
<1> QED  BY <1>2, AtSite

\* Every function of every program returns to the call it came from, with the
\* stack and the frame of its caller, whatever it does in between
\* (codeWriter.c:658, :685; treeReader.c:104, :216).
THEOREM CallsReturn == DisciplineSpec => []CallsBalanced
<1>1. DInv => CallsBalanced
  <2> SUFFICES ASSUME DInv, intact, Is({"ret"})
               PROVE  /\ callstack # <<>>
                      /\ LET c == callstack[Len(callstack)]
                         IN memory[regs["rsp"]] = c.back /\ regs["rsp"] = c.rsp - WordSize /\ regs["rbp"] = c.rbp
    BY DEF CallsBalanced
  <2> DEFINE cs == callstack
             n == Len(cs)
             c == cs[n]
  <2>1. MInv /\ FineHere /\ Follows(FnOf(source, Owner), Instruction, Level, After)
    BY FineThen
  <2>2. Instruction[1] = "ret"
    BY <2>1, AtInstruction
  <2>3. Level = Entered
    BY <2>1, <2>2 DEF Follows
  <2>4. /\ cs \in Seq(CallRecords(DOMAIN code.text)) /\ Linked(source, SitesOf(source), cs, memory, Owner)
        /\ Current(source, cs, memory, Owner, Entered, regs["rsp"], regs["rbp"])
    BY <2>1, <2>3, FineNow
  <2> HIDE DEF cs
  <2>5. n # 0 /\ regs["rsp"] = c.rsp - WordSize /\ regs["rbp"] = c.rbp
    BY <2>4, LevelsApart DEF Current
  <2>6. n \in 1 .. n
    BY <2>4, <2>5, RecordsAre
  <2>7. Returns(memory, c)
    BY <2>4, <2>6 DEF Linked
  <2>8. cs # <<>>
    BY <2>5
  <2> QED  BY <2>5, <2>7, <2>8 DEF Returns, cs
<1> QED  BY <1>1, StackInvariant, PTL

\* In every program a statement leaves nothing on the stack: at the labels of
\* `while' and `if' it ends with the block of the variables of the function
\* (treeReader.c:53, :243, :259; codeWriter.c:314).
THEOREM NothingLeft == DisciplineSpec => []StatementsLeaveNothing
<1>1. DInv => StatementsLeaveNothing
  <2> SUFFICES ASSUME DInv, intact, Is({"label"}), Instruction[2][2] \in StatementLabels
               PROVE  regs["rsp"] = regs["rbp"] - code.frame[Instruction[2][1]]
    BY DEF StatementsLeaveNothing
  <2> DEFINE p == source
             x == Instruction
             f == FnOf(p, Owner)
  <2>1. MInv /\ Compiled /\ FineHere /\ Follows(f, x, Level, After)
    BY FineThen
  <2>2. x[1] = "label"
    BY <2>1, AtInstruction
  <2>3. Level = 0
    <3> HIDE DEF f, x
    <3> QED  BY <2>1, <2>2 DEF Follows, x
  <2>4. Level # Outside
    BY <2>3, LevelsApart
  <2>5. x[2][1] = Owner
    BY <2>1, <2>2, <2>4, AtSite
  <2>6. /\ p \in Programs /\ Linked(p, SitesOf(p), callstack, memory, Owner)
        /\ Current(p, callstack, memory, Owner, Level, regs["rsp"], regs["rbp"])
        /\ callstack \in Seq(CallRecords(DOMAIN code.text))
    BY <2>1, FineNow
  <2>7. InFrame(p, callstack, memory, Owner, Level, regs["rsp"], regs["rbp"])
    <3>1. Level \in Nat
      BY <2>3
    <3> HIDE DEF p
    <3> QED  BY <2>6, <3>1, Inside
  <2>8. /\ regs["rsp"] = regs["rbp"] - FrameSize(p, Owner) - WordSize * 0 /\ Owner \in FunctionNames(p)
        /\ regs["rbp"] \in Int
    BY <2>3, <2>7 DEF InFrame
  <2>9. code.frame[Owner] = FrameSize(p, Owner)
    <3>1. FrameSize(p, Owner) = ProgramTables(p).functions[Owner].locals.next_addr
      BY DEF FrameSize, FrameOf, FnOf, Within
    <3>2. DOMAIN ProgramTables(p).functions = FunctionNames(p)
      BY <2>6, ProgramFrames
    <3> QED  BY <2>1, <2>8, <3>1, <3>2 DEF Compiled
  <2>10. FrameSize(p, Owner) \in Int
    <3>1. PICK j \in Nat : FrameSize(p, Owner) = WordSize * j
      BY <2>6, <2>8, FrameNat
    <3> QED  BY <3>1 DEF WordSize
  <2> HIDE DEF p, x
  <2>11. regs["rsp"] = regs["rbp"] - FrameSize(p, Owner)
    BY <2>8, <2>10 DEF WordSize
  <2> QED  BY <2>5, <2>9, <2>11 DEF x
<1> QED  BY <1>1, StackInvariant, PTL

\* Every variable that an instruction of any program names is in the block of
\* section bss or on the used part of the stack, and on no return address and no
\* saved rbp (symbolTable.c:104; codeWriter.c:513, :658).
THEOREM VariablesInFrames == DisciplineSpec => []AccessesInFrames
<1>1. DInv => AccessesInFrames
  <2> SUFFICES ASSUME DInv, intact, NEW a \in Named PROVE InFrames(a)
    BY DEF AccessesInFrames
  <2> DEFINE ops == {"push", "pop", "mov"}
             x == Instruction
             f == FnOf(source, Owner)
  <2>1. Is(ops)
    BY DEF Named
  <2>2. PICK j \in 2 .. Len(x) : x[j][1] = "mem" /\ x[j][2] # "rax" /\ a = Effective(x[j])
    BY <2>1 DEF Named
  <2>3. MInv /\ Compiled /\ FineHere /\ Follows(f, x, Level, After)
    BY <2>1, FineThen
  <2>4. x[1] \in ops /\ OpForm(FunctionNames(source), x) /\ status = "running"
    BY <2>1, <2>3, AtInstruction
  <2>5. Mem("rax", 0)[2] = "rax" /\ Reg("rbp")[1] = "reg" /\ Reg("rsp")[1] = "reg"
    BY DEF Mem, Reg
  <2>6. \A y \in Results : y[1] # "mem"
    BY ResultRegister
  <2>7. Level \in Nat /\ x[j] \in CellsOf(f)
    <3> HIDE DEF x, f
    <3>1. CASE x[1] = "push"
      <4>1. Len(x) = 2
        BY <2>4, <3>1 DEF OpForm
      <4>2. j = 2
        BY <2>2, <4>1
      <4>3. x[2] # Reg("rbp")
        BY <2>2, <2>5, <4>2
      <4> QED  BY <2>2, <2>3, <2>5, <3>1, <4>2, <4>3 DEF Follows
    <3>2. CASE x[1] = "pop"
      <4>1. Len(x) = 2
        BY <2>4, <3>2 DEF OpForm
      <4>2. j = 2
        BY <2>2, <4>1
      <4>3. x[2] # Reg("rbp")
        BY <2>2, <2>5, <4>2
      <4>4. x[2] \in Results \cup {Mem("rax", 0)}
        BY <2>3, <3>2, <4>3 DEF Follows
      <4> QED  BY <2>2, <2>5, <2>6, <4>2, <4>4
    <3>3. CASE x[1] = "mov"
      <4>1. Len(x) = 3 /\ x[3] \in Regs \cup Numbers \cup Statics
        BY <2>4, <3>3 DEF OpForm
      <4>2. x[3][1] # "mem"
        BY <4>1, OperandForms
      <4>3. j = 2 \/ j = 3
        BY <2>2, <4>1
      <4>4. j = 2
        BY <2>2, <4>2, <4>3
      <4>5. x[2] # Reg("rbp") /\ x[2] # Reg("rsp")
        BY <2>2, <2>5, <4>4
      <4>6. x[2] \in Results \/ (Level \in Nat /\ x[2] \in CellsOf(f))
        BY <2>3, <3>3, <4>5 DEF Follows
      <4> QED  BY <2>2, <2>6, <4>4, <4>6
    <3> QED  BY <2>4, <3>1, <3>2, <3>3
  <2>8. CellSafe(x[j])
    <3> HIDE DEF ops
    <3> QED  BY <2>1, <2>3, <2>7, CellApart
  <2>9. Links = LinksOf(callstack)
    BY <2>3, <2>4, LinksAre
  <2> QED  BY <2>2, <2>8, <2>9 DEF CellSafe, InFrames
<1> QED  BY <1>1, StackInvariant, PTL
=============================================================================
