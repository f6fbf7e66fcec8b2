------------------------------- MODULE Console -------------------------------
(***************************************************************************)
(* What the four functions of src/builtins.asm promise to a TPC program:   *)
(* characters and numbers read and written, each call in one step.         *)
(***************************************************************************)
EXTENDS Words, Sequences

CONSTANTS Inputs,      \* what a program may be given to read
          Characters,  \* arguments of putchar
          Numbers,     \* arguments of putint
          EaxSize      \* the numbers that eax holds: 2^32

VARIABLES input,   \* the characters still to be read
          output,  \* the characters written
          answer   \* what the last call answered

vars == <<input, output, answer>>

Minus == 45
Zero == 48
Digit == Zero .. Zero + 9
Rest(s) == IF s = <<>> THEN s ELSE Tail(s)

\* The decimal digits of n, the largest number of which is the opposite of the
\* least word.
Digits[n \in 0 .. WordMax + 1] ==
    IF n < 10 THEN <<Zero + n>> ELSE Append(Digits[n \div 10], Zero + (n % 10))
Decimal(n) == IF n < 0 THEN <<Minus>> \o Digits[-n] ELSE Digits[n]

\* The numbers that the first digits of s stand for, modulo the words.
Values(s) ==
    LET value[i \in 0 .. Len(s)] == IF i = 0 THEN 0 ELSE Wrap((10 * value[i - 1]) + (s[i] - Zero))
    IN value
NumberOf(s) == Values(s)[Len(s)]

\* How many of the first characters of s are digits.
DigitCount(s) == CHOOSE n \in 0 .. Len(s) :
                   /\ \A i \in 1 .. n : s[i] \in Digit
                   /\ n < Len(s) => s[n + 1] \notin Digit

Init == input \in Inputs /\ output = <<>> /\ answer = 0

\* A TPC program is told the end of its input by 0, which a character can be too;
\* the getchar of C, that this one takes the name of, has EOF there.
GetChar == /\ answer' = IF input = <<>> THEN 0 ELSE Head(input)
           /\ input' = Rest(input)
           /\ UNCHANGED output

\* The low byte is written, the low half of the argument answered.
PutChar(c) == output' = Append(output, c % 256) /\ answer' = c % EaxSize /\ UNCHANGED input

\* An optional minus, digits, and the character behind them, which is lost; a
\* number too large for a word is taken modulo the words.
GetInt ==
    LET signed == input # <<>> /\ Head(input) = Minus
        unsigned == IF signed THEN Tail(input) ELSE input
        n == DigitCount(unsigned)
        value == NumberOf(SubSeq(unsigned, 1, n))
    IN /\ answer' = Wrap(IF signed THEN -value ELSE value)
       /\ input' = Rest(SubSeq(unsigned, n + 1, Len(unsigned)))
       /\ UNCHANGED output

\* putint is void: no caller looks at what it leaves in rax.
PutInt(n) == output' = output \o Decimal(n) /\ answer' \in Word /\ UNCHANGED input

Next == GetChar \/ GetInt \/ (\E c \in Characters : PutChar(c)) \/ (\E n \in Numbers : PutInt(n))

Spec == Init /\ [][Next]_vars
=============================================================================
