------------------------------- MODULE Machine -------------------------------
(***************************************************************************)
(* The execution of the code of CodeGen: the part of an x86-64 processor   *)
(* that it uses, with words of any width, and the built-in functions of    *)
(* src/builtins.asm, each one a single step here.                          *)
(*                                                                         *)
(* A behaviour picks a program and an input, and what the memory and the   *)
(* registers hold where nothing was written; it is deterministic then.     *)
(* `callstack' is kept for the properties: where each call in progress     *)
(* comes from.                                                             *)
(***************************************************************************)
EXTENDS CodeGen, Words, Functions

CONSTANTS Programs,    \* the programs compiled and run
          Inputs,      \* what they may be given to read
          Fills,       \* what memory and registers may hold at first
          GlobalVars,  \* address of the label global_vars
          StackTop,    \* address of the last word of the stack
          StackSize    \* bytes of the stack

\* Of words of two bytes at least, with the first value of rsp behind the stack.
ASSUME MachineAssumption ==
    /\ WordMax >= 32767 /\ StackSize \in Nat
    /\ GlobalVars \in Word /\ StackTop \in Word /\ StackTop + WordSize \in Word
    /\ {GlobalVars % WordSize, StackTop % WordSize, StackSize % WordSize} = {0}
    /\ Inputs \subseteq Seq(Word) /\ Fills \subseteq Word

\* Programs that the semantic checks accept, none of whose names are those of
\* builtins.asm and of the entry point, with an address for every instruction.
ASSUME ProgramsAssumption ==
    \A p \in Programs :
      /\ p.globals \in Seq(Declarations) /\ p.functions \in Seq(Definitions)
      /\ \A i, j \in DOMAIN p.functions :
           p.functions[i].ident = p.functions[j].ident => i = j
      /\ \A i \in DOMAIN p.functions :
           p.functions[i].ident \notin {b.ident : b \in Range(Builtins)} \cup {"_start"}
      /\ \E i \in DOMAIN p.functions : p.functions[i].ident = "main"
      /\ Translatable(p)
      /\ Len(Prog(p).text) <= WordMax

VARIABLES source,    \* the program
          code,      \* what it is compiled to
          stdin,     \* what it is given to read
          consumed,  \* how much of it was read
          stdout,    \* what was written
          garbage,   \* content of what was never written
          rip,       \* index of the next instruction
          regs,      \* the registers
          flags,     \* sign of the difference of the operands last compared
          memory,    \* the words of memory
          status,    \* "source", "running", or how the program ended
          callstack  \* for each call in progress, [back, rsp, rbp]

chosen == <<source, code, stdin, garbage>>
vars == <<chosen, consumed, stdout, rip, regs, flags, memory, status, callstack>>

Registers == {"rax", "rcx", "rdx", "rdi", "rsi", "r8", "r9", "rsp", "rbp"}

\* The labels of a text, and the place of each one.
Labels(text) == {i \in DOMAIN text : text[i][1] = "label"}
Places(text) == [l \in {text[i][2] : i \in Labels(text)} |->
                    CHOOSE i \in Labels(text) : text[i][2] = l]

Bss(size) == {GlobalVars + WordSize * i : i \in 0 .. (size \div WordSize) - 1}
Stack == {StackTop - WordSize * i : i \in 0 .. (StackSize \div WordSize) - 1}

Init ==
    /\ source \in Programs /\ stdin \in Inputs /\ garbage \in Fills
    /\ status = "source"
    /\ code = <<>> /\ memory = <<>>
    /\ regs = [r \in Registers |-> IF r = "rsp" THEN StackTop + WordSize ELSE garbage]
    /\ consumed = 0 /\ stdout = <<>> /\ rip = 1 /\ flags = 0 /\ callstack = <<>>

\* The labels of the text get their places, the block of section bss its zeros.
Link(c) ==
    /\ code' = [text |-> c.text, place |-> Places(c.text), bss |-> Bss(c.bss),
                globals |-> c.globals, frame |-> c.frame]
    /\ memory' = [a \in Bss(c.bss) \cup Stack |-> IF a \in Stack THEN garbage ELSE 0]

\* The program is compiled and loaded.
Load ==
    /\ status = "source"
    /\ Link(Prog(source))
    /\ status' = "running"
    /\ UNCHANGED <<source, stdin, garbage, consumed, stdout, rip, regs, flags, callstack>>
-----------------------------------------------------------------------------
(* Operands                                                                *)

Instruction == code.text[rip]
Is(ops) == status = "running" /\ rip \in DOMAIN code.text /\ Instruction[1] \in ops

Effective(x) == IF x[1] = "index" THEN Wrap(regs[x[2]] + regs[x[3]] * x[4])
              ELSE IF x[2] = "global_vars" THEN Wrap(GlobalVars + x[3])
              ELSE Wrap(regs[x[2]] + x[3])

Fetch(x) == CASE x[1] = "reg" -> regs[x[2]]
              [] x[1] = "imm" -> Wrap(x[2])
              [] x[1] = "static" -> Wrap(GlobalVars + x[2])
              [] x[1] = "mem" -> memory[Effective(x)]

\* The words of memory that the instruction uses, by name and through rsp.
Explicit == IF Is({"push", "pop", "mov"})
            THEN {Effective(Instruction[j]) : j \in {k \in 2 .. Len(Instruction) :
                                                      Instruction[k][1] = "mem"}}
            ELSE {}
Implicit == IF Is({"push", "call"}) THEN {Wrap(regs["rsp"] - WordSize)}
            ELSE IF Is({"pop", "ret"}) THEN {regs["rsp"]} ELSE {}

\* They exist, and `ret' finds the address of an instruction.
Valid == /\ (Explicit \cup Implicit) \subseteq DOMAIN memory
         /\ Is({"ret"}) => memory[regs["rsp"]] \in DOMAIN code.text

\* The effect of an instruction that goes to the next one.
Goes(r, m) == regs' = r /\ memory' = m /\ rip' = rip + 1
Stays == UNCHANGED chosen
Silent == Stays /\ UNCHANGED <<consumed, stdout>>
Inner == Silent /\ UNCHANGED <<status, callstack>>
-----------------------------------------------------------------------------
(* Instructions                                                            *)

PushStep ==
    /\ Is({"push"}) /\ Valid
    /\ LET top == Wrap(regs["rsp"] - WordSize)
       IN Goes([regs EXCEPT !["rsp"] = top], [memory EXCEPT ![top] = Fetch(Instruction[2])])
    /\ Inner /\ UNCHANGED flags

PopStep ==
    /\ Is({"pop"}) /\ Valid
    /\ LET v == memory[regs["rsp"]]
           up == [regs EXCEPT !["rsp"] = Wrap(@ + WordSize)]
           to == Instruction[2]
       IN IF to[1] = "reg" THEN Goes([up EXCEPT ![to[2]] = v], memory)
          ELSE Goes(up, [memory EXCEPT ![Effective(to)] = v])
    /\ Inner /\ UNCHANGED flags

MovStep ==
    /\ Is({"mov"}) /\ Valid
    /\ LET to == Instruction[2]
           v == Fetch(Instruction[3])
       IN IF to[1] = "reg" THEN Goes([regs EXCEPT ![to[2]] = v], memory)
          ELSE Goes(regs, [memory EXCEPT ![Effective(to)] = v])
    /\ Inner /\ UNCHANGED flags

LeaStep ==
    /\ Is({"lea"})
    /\ Goes([regs EXCEPT ![Instruction[2][2]] = Effective(Instruction[3])], memory)
    /\ Inner /\ UNCHANGED flags

ComputeStep ==
    /\ Is({"add", "sub", "imul"})
    /\ LET r == Instruction[2][2]
           v == Fetch(Instruction[3])
           result == CASE Instruction[1] = "add" -> regs[r] + v
                       [] Instruction[1] = "sub" -> regs[r] - v
                       [] Instruction[1] = "imul" -> regs[r] * v
       IN Goes([regs EXCEPT ![r] = Wrap(result)], memory)
    /\ Inner /\ UNCHANGED flags

NegStep ==
    /\ Is({"neg"})
    /\ Goes([regs EXCEPT ![Instruction[2][2]] = Wrap(-@)], memory)
    /\ Inner /\ UNCHANGED flags

\* rdx takes the sign of rax.
CqoStep ==
    /\ Is({"cqo"})
    /\ Goes([regs EXCEPT !["rdx"] = IF regs["rax"] < 0 THEN -1 ELSE 0], memory)
    /\ Inner /\ UNCHANGED flags

\* The dividend is rdx:rax; a quotient that is no word is a fault.
Dividend == LET words == 2 * (WordMax + 1) IN regs["rdx"] * words + (regs["rax"] % words)
Divides(d) == d # 0 /\ Quotient(Dividend, d) \in Word

IdivStep ==
    /\ Is({"idiv"})
    /\ LET d == Fetch(Instruction[2])
       IN /\ Divides(d)
          /\ Goes([regs EXCEPT !["rax"] = Quotient(Dividend, d),
                              !["rdx"] = Remainder(Dividend, d)], memory)
    /\ Inner /\ UNCHANGED flags

DivisionFault ==
    /\ Is({"idiv"}) /\ ~Divides(Fetch(Instruction[2]))
    /\ status' = "fault"
    /\ Silent /\ UNCHANGED <<rip, regs, flags, memory, callstack>>

CompareStep ==
    /\ Is({"cmp"})
    /\ LET v == Fetch(Instruction[2])
           w == Fetch(Instruction[3])
       IN flags' = IF v < w THEN -1 ELSE IF v > w THEN 1 ELSE 0
    /\ Goes(regs, memory) /\ Inner

SeteStep ==
    /\ Is({"sete"})
    /\ Goes([regs EXCEPT !["rax"] = Wrap(@ - (@ % 256) + Truth(flags = 0))], memory)
    /\ Inner /\ UNCHANGED flags

MovzxStep ==
    /\ Is({"movzx"})
    /\ Goes([regs EXCEPT !["rax"] = @ % 256], memory)
    /\ Inner /\ UNCHANGED flags

Taken(cond) == CASE cond = "jmp" -> TRUE     [] cond = "je" -> flags = 0
                 [] cond = "jne" -> flags # 0 [] cond = "jl" -> flags < 0
                 [] cond = "jle" -> flags <= 0 [] cond = "jg" -> flags > 0
                 [] cond = "jge" -> flags >= 0

JumpStep ==
    /\ Is({"jmp", "je", "jne", "jl", "jle", "jg", "jge"})
    /\ rip' = IF Taken(Instruction[1]) THEN code.place[Instruction[2]] ELSE rip + 1
    /\ Inner /\ UNCHANGED <<regs, flags, memory>>

LabelStep == Is({"label"}) /\ Goes(regs, memory) /\ Inner /\ UNCHANGED flags

\* A function of the program: it has a label.
CallStep ==
    /\ Is({"call"}) /\ Valid /\ Instruction[2] \in DOMAIN code.place
    /\ LET top == Wrap(regs["rsp"] - WordSize)
       IN /\ regs' = [regs EXCEPT !["rsp"] = top]
          /\ memory' = [memory EXCEPT ![top] = rip + 1]
    /\ rip' = code.place[Instruction[2]]
    /\ callstack' = Append(callstack, [back |-> rip + 1, rsp |-> regs["rsp"], rbp |-> regs["rbp"]])
    /\ Silent /\ UNCHANGED <<flags, status>>

RetStep ==
    /\ Is({"ret"}) /\ Valid
    /\ regs' = [regs EXCEPT !["rsp"] = Wrap(@ + WordSize)]
    /\ rip' = memory[regs["rsp"]]
    /\ callstack' = IF callstack = <<>> THEN callstack ELSE SubSeq(callstack, 1, Len(callstack) - 1)
    /\ Silent /\ UNCHANGED <<flags, memory, status>>

\* A function of builtins.asm takes its argument in rdi and answers in rax.  It
\* keeps rbp and rsp, and no more: the other registers of this model and the
\* stack below rsp are lost.  getint and getchar give 0 at the end of the stdin.
BuiltinStep ==
    /\ Is({"call"}) /\ Valid /\ Instruction[2] \notin DOMAIN code.place
    /\ LET name == Instruction[2][1]
           gets == name \in {"getint", "getchar"}
           answer == IF ~gets THEN garbage ELSE IF consumed < Len(stdin) THEN stdin[consumed + 1] ELSE 0
       IN /\ stdout' = CASE name = "putint" -> Append(stdout, <<name, regs["rdi"]>>)
                          [] name = "putchar" -> Append(stdout, <<name, regs["rdi"] % 256>>)
                          [] gets -> stdout
          /\ consumed' = IF gets /\ consumed < Len(stdin) THEN consumed + 1 ELSE consumed
          /\ regs' = [r \in Registers |-> IF r = "rax" THEN answer
                                        ELSE IF r \in {"rsp", "rbp", "r8", "r9"} THEN regs[r] ELSE garbage]
    /\ memory' = [a \in DOMAIN memory |-> IF a \in Stack /\ a < regs["rsp"] THEN garbage ELSE memory[a]]
    /\ rip' = rip + 1
    /\ Stays /\ UNCHANGED <<flags, status, callstack>>

\* _exit(rdi)
ExitStep ==
    /\ Is({"syscall"}) /\ regs["rax"] = 60
    /\ status' = "exited"
    /\ Silent /\ UNCHANGED <<rip, regs, flags, memory, callstack>>

Crash ==
    /\ status = "running" /\ ~Valid
    /\ status' = "crashed"
    /\ Silent /\ UNCHANGED <<rip, regs, flags, memory, callstack>>

Step == PushStep \/ PopStep \/ MovStep \/ LeaStep \/ ComputeStep \/ NegStep \/ CqoStep
        \/ IdivStep \/ DivisionFault \/ CompareStep \/ SeteStep \/ MovzxStep \/ JumpStep
        \/ LabelStep \/ CallStep \/ RetStep \/ BuiltinStep \/ ExitStep \/ Crash

Next == Load \/ Step

Spec == Init /\ [][Next]_vars
-----------------------------------------------------------------------------
(* Properties                                                              *)

Loaded == status # "source"

TypeOK ==
    Loaded =>
    /\ consumed \in 0 .. Len(stdin)
    /\ stdout \in Seq({"putint", "putchar"} \X Word)
    /\ rip \in DOMAIN code.text
    /\ regs \in [Registers -> Word]
    /\ flags \in {-1, 0, 1}
    /\ memory \in [code.bss \cup Stack -> Word]
    /\ status \in {"running", "exited", "fault", "crashed"}
    /\ callstack \in Seq([back : DOMAIN code.text, rsp : Word, rbp : Word])

\* nasm refuses a label that is defined twice in a function: the two counters of
\* the code generator never give a number twice.
LabelsUnique ==
    Loaded => \A i, j \in Labels(code.text) : code.text[i][2] = code.text[j][2] => i = j
=============================================================================
