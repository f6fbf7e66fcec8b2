------------------------------ MODULE Builtins ------------------------------
(***************************************************************************)
(* src/builtins.asm: getchar, putchar, getint and putint, called by a      *)
(* program in any order; one action for each turn of a loop and for each   *)
(* way out of one.                                                         *)
(*                                                                         *)
(* The stack is what a call has put on it, the last word at the end: the   *)
(* return address, the rbp of the caller, the digits.  A call comes back   *)
(* if the two words below the digits are the last ones when it leaves;     *)
(* otherwise rbp and rip are given other words, and pc is "lost".          *)
(***************************************************************************)
EXTENDS Words, Sequences

CONSTANTS Inputs,      \* what the program may be given to read
          Characters,  \* arguments of putchar
          Numbers,     \* arguments of putint
          MaxCalls,    \* bound on the number of calls
          EaxSize      \* the numbers that eax holds: 2^32

Char == 0 .. 255
Minus == 45
Zero == 48
Digit == Zero .. Zero + 9

ASSUME InputsAssumption == Inputs \subseteq Seq(Char)
ASSUME ArgumentsAssumption == Characters \subseteq Word /\ Numbers \subseteq Word
ASSUME EaxAssumption == EaxSize \in Nat /\ 256 <= EaxSize /\ EaxSize <= WordMax
ASSUME CallsAssumption == MaxCalls \in Nat

VARIABLES pc,      \* "caller", where a call stands, or "lost"
          rax, r12, r13, r14, r15,
          stack,
          input,   \* the characters still to be read
          output,  \* the characters written
          asked,   \* [name, arg, input, output, rax] when the last call began
          calls    \* the number of calls

regs == <<rax, r12, r13, r14, r15>>
vars == <<pc, regs, stack, input, output, asked, calls>>

Return == <<"return">>   \* the address behind the call
SavedRbp == <<"rbp">>
Frame == <<Return, SavedRbp>>
Pushed(d) == <<"digit", d>>

Init == /\ pc = "caller"
        /\ rax = 0 /\ r12 = 0 /\ r13 = 0 /\ r14 = 0 /\ r15 = 0
        /\ stack = <<>>
        /\ input \in Inputs
        /\ output = <<>>
        /\ asked = [name |-> "none", arg |-> 0, input |-> input, output |-> <<>>, rax |-> 0]
        /\ calls = 0

Call(name, arg) ==
    /\ pc = "caller" /\ calls < MaxCalls
    /\ calls' = calls + 1
    /\ asked' = [name |-> name, arg |-> arg, input |-> input, output |-> output, rax |-> rax]

\* What the call of getchar inside getint gives, and leaves to be read.
Read == IF input = <<>> THEN 0 ELSE Head(input)
Unread == IF input = <<>> THEN input ELSE Tail(input)
-----------------------------------------------------------------------------
(* getchar, putchar                                                        *)

\* The word read into is cleared first: at the end of the input it is 0.
Getchar == /\ Call("getchar", 0)
           /\ rax' = Read /\ input' = Unread
           /\ UNCHANGED <<pc, r12, r13, r14, r15, stack, output>>

\* The low byte of rdi is written; eax is the low half of it.
Putchar(c) == /\ Call("putchar", c)
              /\ output' = Append(output, c % 256)
              /\ rax' = c % EaxSize
              /\ UNCHANGED <<pc, r12, r13, r14, r15, stack, input>>
-----------------------------------------------------------------------------
(* getint                                                                  *)

\* Mistake: the rbp of the caller is not saved.
GetintBare == /\ Call("getint", 0)
              /\ pc' = "reader_loop"
              /\ stack' = <<Return>>
              /\ r12' = 20 /\ r13' = 0 /\ r15' = 0
              /\ UNCHANGED <<rax, r14, input, output>>
Getint == /\ Call("getint", 0)
          /\ pc' = "reader_loop"
          /\ stack' = Frame
          /\ r12' = 20 /\ r13' = 0 /\ r15' = 0
          /\ UNCHANGED <<rax, r14, input, output>>

IsMinus == r12 = 20 /\ Read = Minus /\ r15 = 0

\* Mistake: the end of the input is passed over like a blank.
ReadEndPassed == /\ pc = "reader_loop" /\ Read = 0
                 /\ rax' = 0 /\ input' = Unread
                 /\ UNCHANGED <<pc, r12, r13, r14, r15, stack, output, asked, calls>>
ReadEnd == /\ pc = "reader_loop" /\ Read = 0
           /\ rax' = 0 /\ input' = Unread
           /\ pc' = "int_end"
           /\ UNCHANGED <<r12, r13, r14, r15, stack, output, asked, calls>>

ReadMinus == /\ pc = "reader_loop" /\ IsMinus
             /\ rax' = Read /\ input' = Unread
             /\ r15' = 1
             /\ UNCHANGED <<pc, r12, r13, r14, stack, output, asked, calls>>

\* Mistake: a leading zero is pushed and not counted.
ReadDigitZeros == /\ pc = "reader_loop" /\ Read \in Digit
                  /\ rax' = Read - Zero /\ input' = Unread
                  /\ r12' = IF r12 = 20 /\ Read = Zero THEN r12 ELSE r12 - 1
                  /\ stack' = Append(stack, Pushed(Read - Zero))
                  /\ UNCHANGED <<pc, r13, r14, r15, output, asked, calls>>
ReadDigit == /\ pc = "reader_loop" /\ Read \in Digit
             /\ rax' = Read - Zero /\ input' = Unread
             /\ r12' = r12 - 1
             /\ stack' = Append(stack, Pushed(Read - Zero))
             /\ UNCHANGED <<pc, r13, r14, r15, output, asked, calls>>

\* Any other character ends the number, and is lost.
ReadOther == /\ pc = "reader_loop" /\ Read # 0 /\ ~IsMinus /\ Read \notin Digit
             /\ rax' = Read /\ input' = Unread
             /\ r14' = 1
             /\ pc' = "writer_loop"
             /\ UNCHANGED <<r12, r13, r15, stack, output, asked, calls>>

Top == stack[Len(stack)]
Popped == SubSeq(stack, 1, Len(stack) - 1)

\* The last digit first, with the power of ten it stands for.
AddDigit ==
    /\ pc = "writer_loop" /\ r12 # 20
    /\ rax' = Wrap(Top[2] * r14)
    /\ r13' = Wrap(r13 + Wrap(Top[2] * r14))
    /\ r14' = Wrap(r14 * 10)
    /\ r12' = r12 + 1
    /\ stack' = Popped
    /\ UNCHANGED <<pc, r15, input, output, asked, calls>>

SignNumber == /\ pc = "writer_loop" /\ r12 = 20
              /\ r13' = IF r15 = 1 THEN Wrap(-r13) ELSE r13
              /\ rax' = r13'
              /\ pc' = "int_end"
              /\ UNCHANGED <<r12, r14, r15, stack, input, output, asked, calls>>
-----------------------------------------------------------------------------
(* putint                                                                  *)

Putint(n) ==
    /\ Call("putint", n)
    /\ stack' = Frame
    /\ r12' = 20
    /\ r13' = IF n < 0 THEN Wrap(-n) ELSE n
    /\ output' = IF n < 0 THEN Append(output, Minus) ELSE output
    /\ rax' = IF n < 0 THEN Minus ELSE rax
    /\ pc' = "putint_loop"
    /\ UNCHANGED <<r14, r15, input>>

\* rdx is 0: idiv takes the word in rax without its sign.
Unsigned(n) == n % (2 * (WordMax + 1))

\* Mistake: the sign of r13 goes into rdx.
DivideSigned ==
    /\ pc = "putint_loop"
    /\ rax' = Quotient(r13, 10)
    /\ r13' = rax'
    /\ r12' = r12 - 1
    /\ stack' = Append(stack, Pushed(Remainder(r13, 10) + Zero))
    /\ pc' = IF r13' > 0 THEN pc ELSE "putint_2loop"
    /\ UNCHANGED <<r14, r15, input, output, asked, calls>>
Divide ==
    /\ pc = "putint_loop"
    /\ rax' = Unsigned(r13) \div 10
    /\ r13' = rax'
    /\ r12' = r12 - 1
    /\ stack' = Append(stack, Pushed((Unsigned(r13) % 10) + Zero))
    /\ pc' = IF r13' > 0 THEN pc ELSE "putint_2loop"
    /\ UNCHANGED <<r14, r15, input, output, asked, calls>>

\* Mistake: the loop stops before the last digit.
WriteDigitShort ==
    /\ pc = "putint_2loop"
    /\ output' = Append(output, Top[2])
    /\ rax' = Top[2]
    /\ r12' = r12 + 1
    /\ stack' = Popped
    /\ pc' = IF r12' < 19 THEN pc ELSE "int_end"
    /\ UNCHANGED <<r13, r14, r15, input, asked, calls>>
WriteDigit ==
    /\ pc = "putint_2loop"
    /\ output' = Append(output, Top[2])
    /\ rax' = Top[2]
    /\ r12' = r12 + 1
    /\ stack' = Popped
    /\ pc' = IF r12' # 20 THEN pc ELSE "int_end"
    /\ UNCHANGED <<r13, r14, r15, input, asked, calls>>
-----------------------------------------------------------------------------
\* pop rbp, ret
Leave == /\ pc = "int_end"
         /\ IF stack = Frame THEN pc' = "caller" /\ stack' = <<>>
            ELSE pc' = "lost" /\ UNCHANGED stack
         /\ UNCHANGED <<regs, input, output, asked, calls>>

Step == \/ ReadEnd \/ ReadMinus \/ ReadDigit \/ ReadOther \/ AddDigit \/ SignNumber
        \/ Divide \/ WriteDigit \/ Leave

Next == \/ Getchar \/ Getint
        \/ \E c \in Characters : Putchar(c)
        \/ \E n \in Numbers : Putint(n)
        \/ Step

Spec == Init /\ [][Next]_vars
\* A processor goes on as long as it can.
FairSpec == Spec /\ WF_vars(Step)
-----------------------------------------------------------------------------
(* Properties                                                              *)

OnStack == {"reader_loop", "writer_loop", "int_end", "putint_loop", "putint_2loop"}

Digits == {Pushed(d) : d \in 0 .. Zero + 9}
OverFrame == /\ Len(stack) >= 2 /\ stack[1] = Return /\ stack[2] = SavedRbp
             /\ \A i \in 3 .. Len(stack) : stack[i] \in Digits

\* The registers hold words, and the stack the frame of the call below digits.
TypeOK ==
    /\ pc \in {"caller", "lost"} \cup OnStack
    /\ rax \in Word /\ r13 \in Word /\ r14 \in Word /\ r15 \in {0, 1}
    /\ r12 \in Int /\ r12 <= 20
    /\ stack \in Seq({Return, SavedRbp} \cup Digits)
    /\ IF pc = "caller" THEN stack = <<>> ELSE OverFrame
    /\ input \in Seq(Char) /\ output \in Seq(Char)
    /\ calls \in 0 .. MaxCalls

\* r12 counts the digits on the stack down from 20, over both loops that push
\* and both loops that pop: no loop takes the frame for a digit, and none leaves
\* a digit behind (builtins.asm:85, :94, :134, :157).
DigitsCounted == pc \in OnStack => Len(stack) = 2 + 20 - r12

\* A call comes back to its caller: rbp and the return address are where pop and
\* ret look for them, whatever was read.
ComesBack == pc # "lost"

\* A digit is never the last thing to be read: it has a character behind it that
\* getchar does not give as 0.
Terminated(s) == \A i \in DOMAIN s : s[i] \in Digit => i < Len(s) /\ s[i + 1] # 0

\* The calls do what Console says, each at the step it comes back; until then
\* what the caller would see is what there was when it called.
Done == pc = "caller"
ConsoleSpec == INSTANCE Console WITH
    input <- IF Done THEN input ELSE asked.input,
    output <- IF Done THEN output ELSE asked.output,
    answer <- IF Done THEN rax ELSE asked.rax
ImplementsConsole == ConsoleSpec!Spec

\* What a caller compiled by gcc, for which the labels are global, takes for the
\* end of the input: "while ((c = getchar()) != EOF)" (test/builtins/getchar.c:8).
EOF == -1
EndIsEOF == pc = "caller" /\ asked.name = "getchar" /\ asked.input = <<>>
              => rax % EaxSize = EOF % EaxSize

\* Every call ends.
CallsReturn == (pc # "caller") ~> (pc = "caller")
=============================================================================
