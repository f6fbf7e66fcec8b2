------------------------------ MODULE Discipline ------------------------------
(***************************************************************************)
(* What the code of a program does to the stack, whatever the program      *)
(* computes.  Caller, prologue, `return' and epilogue (codeWriter.c) share *)
(* no description of a frame; here it is: from the address of the caller's *)
(* last word downwards, the return address, the caller's rbp, the block of *)
(* the variables, and what expressions have pushed.                        *)
(*                                                                         *)
(* Only two things can spoil it, and the language checks neither of them:  *)
(* a stack that is used up, and an element written outside of its array    *)
(* that hits a return address or a saved rbp.  The history variable        *)
(* `intact' tells that neither has happened.                               *)
(***************************************************************************)
EXTENDS Machine

VARIABLE intact

\* The declarations of a table, whose bytes an int can count.
Sized(s) == s \in {Value(s.ident), Array(s.ident, s.length)} /\ s.size = WordSize * s.length
Passed(s) == s \in {Value(s.ident), ArrayParam(s.ident)}

\* The addresses of all variables are what _ST_add computes them for: no list of
\* symbols fails to grow, and no int overflows (run symbols_overflow).
ASSUME LayoutAssumption ==
    /\ FullAt = {}
    /\ \A p \in Programs :
         /\ \A i \in DOMAIN p.globals : Sized(p.globals[i])
         /\ ProgramTables(p).globals.next_addr <= IntMax
         /\ \A i \in DOMAIN p.functions :
              LET d == p.functions[i]
              IN /\ \A k \in DOMAIN d.params : Passed(d.params[k])
                 /\ \A k \in DOMAIN d.locals : Sized(d.locals[k])
                 /\ FirstStackParam + WordSize * ParamCount(FunctionTables(d)) <= IntMax
                 /\ FunctionTables(d).locals.next_addr <= IntMax
                 /\ d.ident = "main" => d.params = <<>>

\* The stack and section bss are apart, and have addresses that are words.
ASSUME SectionsAssumption ==
    /\ StackTop - StackSize \in Word
    /\ \A p \in Programs :
         LET end == GlobalVars + ProgramTables(p).globals.next_addr
         IN \/ end <= StackTop - StackSize + WordSize
            \/ StackTop < GlobalVars /\ end <= WordMax
-----------------------------------------------------------------------------
\* The words that the calls in progress need to return.
Links == {callstack[i].rsp - WordSize : i \in DOMAIN callstack}
         \cup {callstack[i].rsp - 2 * WordSize : i \in DOMAIN callstack}

\* No room for a word, or for the variables of a function.
RunsOut ==
    \/ Is({"push", "call"}) /\ ~(Implicit \subseteq Stack)
    \/ Is({"sub"}) /\ Instruction[2] = Reg("rsp") /\ regs["rsp"] - Instruction[3][2] \notin Stack

\* An element is written where none can be.
Strays == Is({"pop"}) /\ Instruction[2] = Mem("rax", 0) /\ Effective(Instruction[2]) \in Links

DisciplineInit == Init /\ intact = TRUE
WatchedLoad == Load /\ UNCHANGED intact
WatchedStep == Step /\ intact' = (intact /\ ~RunsOut /\ ~Strays)
DisciplineNext == WatchedLoad \/ WatchedStep

DisciplineSpec == DisciplineInit /\ [][DisciplineNext]_<<vars, intact>>
-----------------------------------------------------------------------------
(* Properties                                                              *)

\* A function returns to the call it came from, with the stack and the frame of
\* its caller: stackFrame_start and every stackFrame_end agree, whatever was on
\* the stack when `return' was met.
CallsBalanced ==
    intact /\ Is({"ret"}) =>
    /\ callstack # <<>>
    /\ LET c == callstack[Len(callstack)]
       IN memory[regs["rsp"]] = c.back /\ regs["rsp"] = c.rsp - WordSize /\ regs["rbp"] = c.rbp

\* Between two instructions of the source nothing is left on the stack of the
\* function: neither operands, nor arguments, nor results nobody used.  A loop
\* that left a word behind would eat the stack.
StatementLabels == {"while_start", "end_while", "else", "end_if"}
StatementsLeaveNothing ==
    intact /\ Is({"label"}) /\ Instruction[2][2] \in StatementLabels =>
    regs["rsp"] = regs["rbp"] - code.frame[Instruction[2][1]]

\* The words that an instruction names, by a variable and not by an element.
Named == IF Is({"push", "pop", "mov"})
         THEN {Effective(Instruction[j]) : j \in {k \in 2 .. Len(Instruction) :
                 Instruction[k][1] = "mem" /\ Instruction[k][2] # "rax"}}
         ELSE {}

\* A variable is in the block of the program or on the used part of the stack,
\* never below rsp, where the next call overwrites it, and never on a return
\* address or a saved rbp: the addresses of _ST_add, the room that the prologue
\* makes and the arguments that the caller leaves fit together.
InFrames(a) == a \in code.bss \/ (a \in Stack /\ regs["rsp"] <= a /\ a \notin Links)
AccessesInFrames == intact => \A a \in Named : InFrames(a)
=============================================================================
