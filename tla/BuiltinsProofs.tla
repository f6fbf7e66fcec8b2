---------------------------- MODULE BuiltinsProofs ----------------------------
(***************************************************************************)
(* Proofs about Builtins, for words, inputs and arguments of any kind: the *)
(* digits on the stack are counted, and a call comes back to its caller    *)
(* when no digit is the last thing to be read; what is read and written is *)
(* what Console promises.                                                  *)
(***************************************************************************)
EXTENDS Builtins, SequenceTheorems, WellFoundedInduction, TLAPS

Item == {Return, SavedRbp} \cup Digits

\* TypeOK and DigitsCounted, with what WriteDigit needs: it never starts with
\* the frame at the top of the stack.
Counted == TypeOK /\ DigitsCounted /\ (pc = "putint_2loop" => r12 < 20)

\* Behind a digit that was read there is a character to be read.
Ended == /\ Terminated(input)
         /\ pc = "reader_loop" /\ r12 < 20 => input # <<>> /\ Head(input) # 0
         /\ pc = "int_end" => r12 = 20
         /\ pc # "lost"
-----------------------------------------------------------------------------
(* Words                                                                   *)

LEMMA ModuloBounds == \A n \in Int, d \in Nat \ {0} : n % d \in 0 .. d - 1
  OBVIOUS

\* Wrap gives a word, whatever the integer.
LEMMA WrapWord == \A n \in Int : Wrap(n) \in Word
<1> USE WordMaxAssumption
<1> TAKE n \in Int
<1>1. CASE n \in Word
  BY <1>1 DEF Wrap
<1>2. CASE n \notin Word
  <2> DEFINE m == (n + WordMax + 1) % (2 * (WordMax + 1))
  <2>1. m \in 0 .. 2 * (WordMax + 1) - 1
    <3>1. n + WordMax + 1 \in Int /\ 2 * (WordMax + 1) \in Nat \ {0}
      OBVIOUS
    <3> QED BY <3>1, ModuloBounds
  <2>2. Wrap(n) = m - WordMax - 1
    BY <1>2 DEF Wrap
  <2> HIDE DEF m
  <2> QED BY <2>1, <2>2 DEF Word
<1> QED BY <1>1, <1>2

\* A character is a word, and so is what is left of putchar's argument in eax.
LEMMA CharWord == Char \subseteq Word /\ 0 .. EaxSize - 1 \subseteq Word
  BY WordMaxAssumption, EaxAssumption DEF Char, Word

\* What putint's division gives.
LEMMA DivisionWord ==
  \A n \in Word : /\ Unsigned(n) \div 10 \in Word
                  /\ (Unsigned(n) % 10) + Zero \in 0 .. Zero + 9
<1> USE WordMaxAssumption
<1> TAKE n \in Word
<1> DEFINE u == Unsigned(n)
<1>1. u \in 0 .. 2 * (WordMax + 1) - 1
  <2>1. n \in Int /\ 2 * (WordMax + 1) \in Nat \ {0}
    BY DEF Word
  <2> QED BY <2>1, ModuloBounds DEF Unsigned
<1>2. /\ u \div 10 \in Word
      /\ (u % 10) + Zero \in 0 .. Zero + 9
  <2> HIDE DEF u
  <2> QED BY <1>1 DEF Word, Zero
<1> QED BY <1>2
-----------------------------------------------------------------------------
(* The stack and the input                                                 *)

\* Pushing a digit and popping one keep the frame below.
LEMMA PushOverFrame ==
  ASSUME stack \in Seq(Item), OverFrame, NEW d \in 0 .. Zero + 9, stack' = Append(stack, Pushed(d))
  PROVE  stack' \in Seq(Item) /\ OverFrame' /\ Len(stack') = Len(stack) + 1
<1>1. Pushed(d) \in Digits
  BY DEF Digits
<1>2. stack' \in Seq(Item) /\ Len(stack') = Len(stack) + 1
  BY <1>1 DEF Item
<1>3. \A i \in 1 .. Len(stack) : stack'[i] = stack[i]
  BY <1>1 DEF Item
<1>4. stack'[Len(stack) + 1] = Pushed(d)
  BY <1>1 DEF Item
<1> QED BY <1>1, <1>2, <1>3, <1>4 DEF OverFrame

LEMMA PopOverFrame ==
  ASSUME stack \in Seq(Item), OverFrame, Len(stack) > 2, stack' = Popped
  PROVE  /\ stack' \in Seq(Item) /\ OverFrame' /\ Len(stack') = Len(stack) - 1
         /\ \E d \in 0 .. Zero + 9 : Top[2] = d
<1>1. stack' \in Seq(Item) /\ Len(stack') = Len(stack) - 1
  BY DEF Popped
<1>2. \A i \in 1 .. Len(stack) - 1 : stack'[i] = stack[i]
  BY DEF Popped
<1>3. Top \in Digits
  BY DEF Top, OverFrame
<1> QED BY <1>1, <1>2, <1>3 DEF OverFrame, Digits, Pushed

\* The frame alone is the stack of two words.
LEMMA FrameOnly ==
  ASSUME stack \in Seq(Item), OverFrame
  PROVE  stack = Frame <=> Len(stack) = 2
<1>1. Frame \in Seq(Item) /\ Len(Frame) = 2 /\ Frame[1] = Return /\ Frame[2] = SavedRbp
  BY DEF Frame, Item
<1>2. ASSUME Len(stack) = 2 PROVE stack = Frame
  <2>1. \A i \in 1 .. Len(stack) : stack[i] = Frame[i]
    BY <1>1, <1>2 DEF OverFrame
  <2> QED BY <1>1, <1>2, <2>1, SeqEqual
<1> QED BY <1>1, <1>2

LEMMA ReadChar ==
  ASSUME input \in Seq(Char)
  PROVE  Read \in Char /\ Unread \in Seq(Char)
<1>1. CASE input = <<>>
  BY <1>1 DEF Read, Unread, Char
<1>2. CASE input # <<>>
  <2>1. Head(input) \in Char /\ Tail(input) \in Seq(Char)
    BY <1>2
  <2> QED BY <1>2, <2>1 DEF Read, Unread
<1> QED BY <1>1, <1>2
-----------------------------------------------------------------------------
(* The digits are counted                                                  *)

\* A call that makes a frame finds the stack empty, and counts no digit.
LEMMA FrameMade ==
  ASSUME stack' = Frame
  PROVE  stack' \in Seq(Item) /\ OverFrame' /\ Len(stack') = 2
<1>1. Frame \in Seq(Item) /\ Len(Frame) = 2 /\ Frame[1] = Return /\ Frame[2] = SavedRbp
  BY DEF Frame, Item
<1> QED BY <1>1 DEF OverFrame

LEMMA InitCounted == Init => Counted
<1> SUFFICES ASSUME Init PROVE Counted
  OBVIOUS
<1>1. 0 \in Word /\ <<>> \in Seq(Char) /\ <<>> \in Seq(Item)
  BY WordMaxAssumption DEF Word
<1>2. TypeOK
  BY <1>1, InputsAssumption, CallsAssumption DEF Init, TypeOK, Item
<1> QED BY <1>2 DEF Init, Counted, DigitsCounted, OnStack

LEMMA NextCounted == Counted /\ [Next]_vars => Counted'
<1> SUFFICES ASSUME Counted, [Next]_vars PROVE Counted'
  OBVIOUS
<1> USE WordMaxAssumption, EaxAssumption, CallsAssumption DEF Counted, TypeOK, DigitsCounted, OnStack, Item
<1>0. Read \in Char /\ Unread \in Seq(Char) /\ Char \subseteq Word
  BY ReadChar, CharWord
<1>1. CASE Getchar
  BY <1>0, <1>1 DEF Getchar, Call
<1>2. CASE Getint
  <2>1. stack' \in Seq(Item) /\ OverFrame' /\ Len(stack') = 2
    BY <1>2, FrameMade DEF Getint
  <2>2. 0 \in Word
    BY DEF Word
  <2> QED BY <1>2, <2>1, <2>2 DEF Getint, Call
<1>3. ASSUME NEW c \in Characters, Putchar(c) PROVE Counted'
  <2>1. c \in Int
    BY ArgumentsAssumption DEF Word
  <2>2. c % 256 \in Char
    BY <2>1, ModuloBounds DEF Char
  <2>3. c % EaxSize \in Word
    <3>1. c % EaxSize \in 0 .. EaxSize - 1
      BY <2>1, ModuloBounds
    <3> QED BY <3>1, CharWord
  <2>4. output' \in Seq(Char)
    BY <1>3, <2>2 DEF Putchar
  <2> QED BY <1>3, <2>3, <2>4 DEF Putchar, Call
<1>4. ASSUME NEW n \in Numbers, Putint(n) PROVE Counted'
  <2>1. stack' \in Seq(Item) /\ OverFrame' /\ Len(stack') = 2
    BY <1>4, FrameMade DEF Putint
  <2>2. n \in Word /\ -n \in Int /\ Minus \in Word /\ Minus \in Char
    BY ArgumentsAssumption DEF Word, Char, Minus
  <2>3. r13' \in Word /\ rax' \in Word
    BY <1>4, <2>2, WrapWord DEF Putint
  <2>4. output' \in Seq(Char)
    BY <1>4, <2>2 DEF Putint
  <2> QED BY <1>4, <2>1, <2>3, <2>4 DEF Putint, Call
<1>5. CASE ReadEnd
  BY <1>0, <1>5 DEF ReadEnd, OverFrame, Word
<1>6. CASE ReadMinus
  BY <1>0, <1>6 DEF ReadMinus, OverFrame
<1>7. CASE ReadDigit
  <2>1. Read - Zero \in 0 .. Zero + 9 /\ Read - Zero \in Word
    BY <1>0, <1>7 DEF ReadDigit, Digit, Zero, Char, Word
  <2>2. stack' \in Seq(Item) /\ OverFrame' /\ Len(stack') = Len(stack) + 1
    BY <1>7, <2>1, PushOverFrame DEF ReadDigit
  <2> QED BY <1>0, <1>7, <2>1, <2>2 DEF ReadDigit
<1>8. CASE ReadOther
  <2>1. 1 \in Word
    BY DEF Word
  <2> QED BY <1>0, <1>8, <2>1 DEF ReadOther, OverFrame
<1>9. CASE AddDigit
  <2>1. Len(stack) > 2
    BY <1>9 DEF AddDigit
  <2>2. /\ stack' \in Seq(Item) /\ OverFrame' /\ Len(stack') = Len(stack) - 1
        /\ Top[2] \in 0 .. Zero + 9
    BY <1>9, <2>1, PopOverFrame DEF AddDigit
  <2>3. rax' \in Word /\ r13' \in Word /\ r14' \in Word
    <3>1. r13 \in Int /\ r14 \in Int /\ Top[2] * r14 \in Int
      <4>1. r13 \in Int /\ r14 \in Int
        BY DEF Word
      <4>2. Top[2] \in Int
        <5>1. 0 .. Zero + 9 \subseteq Int
          BY DEF Zero
        <5> QED BY <2>2, <5>1
      <4> HIDE DEF Counted, TypeOK
      <4> QED BY <4>1, <4>2
    <3>2. rax' \in Word
      BY <1>9, <3>1, WrapWord DEF AddDigit
    <3>3. r13 + Wrap(Top[2] * r14) \in Int /\ r14 * 10 \in Int
      <4>1. Wrap(Top[2] * r14) \in Word
        BY <3>1, WrapWord
      <4> QED BY <3>1, <4>1 DEF Word
    <3> QED BY <1>9, <3>2, <3>3, WrapWord DEF AddDigit
  <2> QED BY <1>9, <2>2, <2>3 DEF AddDigit
<1>10. CASE SignNumber
  <2>1. -r13 \in Int
    BY DEF Word
  <2> QED BY <1>10, <2>1, WrapWord DEF SignNumber, OverFrame
<1>11. CASE Divide
  <2>1. Unsigned(r13) \div 10 \in Word /\ (Unsigned(r13) % 10) + Zero \in 0 .. Zero + 9
    BY DivisionWord
  <2>2. stack' \in Seq(Item) /\ OverFrame' /\ Len(stack') = Len(stack) + 1
    BY <1>11, <2>1, PushOverFrame DEF Divide
  <2> QED BY <1>11, <2>1, <2>2 DEF Divide
<1>12. CASE WriteDigit
  <2>1. Len(stack) > 2
    BY <1>12 DEF WriteDigit
  <2>2. /\ stack' \in Seq(Item) /\ OverFrame' /\ Len(stack') = Len(stack) - 1
        /\ Top[2] \in 0 .. Zero + 9
    BY <1>12, <2>1, PopOverFrame DEF WriteDigit
  <2>3. Top[2] \in Char
    BY <2>2 DEF Zero, Char
  <2>4. output' \in Seq(Char)
    BY <1>12, <2>3 DEF WriteDigit
  <2> QED BY <1>0, <1>12, <2>2, <2>3, <2>4 DEF WriteDigit
<1>13. CASE Leave
  <2>1. CASE stack = Frame
    <3>1. pc' = "caller" /\ stack' = <<>> /\ <<>> \in Seq(Item)
      BY <1>13, <2>1 DEF Leave
    <3> QED BY <1>13, <3>1 DEF Leave, regs
  <2>2. CASE stack # Frame
    <3>1. pc = "int_end" /\ pc' = "lost" /\ stack' = stack
      BY <1>13, <2>2 DEF Leave
    <3> QED BY <1>13, <3>1 DEF Leave, regs, OverFrame
  <2> QED BY <2>1, <2>2
<1>14. CASE UNCHANGED vars
  BY <1>14 DEF vars, regs, OverFrame
<1> QED BY <1>1, <1>2, <1>3, <1>4, <1>5, <1>6, <1>7, <1>8, <1>9, <1>10, <1>11, <1>12, <1>13, <1>14
        DEF Next, Step

\* The registers hold words, and the stack the frame of the call below digits,
\* through every call of builtins.asm, whatever there is to be read.
THEOREM TypeCorrect == Spec => []TypeOK
<1>1. Counted => TypeOK
  BY DEF Counted
<1> QED BY <1>1, InitCounted, NextCounted, PTL DEF Spec

\* r12 tells how many digits are on the stack, in both loops that push and both
\* that pop, whatever there is to be read (builtins.asm:85, :94, :134, :157).
THEOREM DigitsAreCounted == Spec => []DigitsCounted
<1>1. Counted => DigitsCounted
  BY DEF Counted
<1> QED BY <1>1, InitCounted, NextCounted, PTL DEF Spec
-----------------------------------------------------------------------------
(* A call comes back                                                       *)

\* What is left of a terminated input is terminated, and reading a digit leaves
\* a character that is not 0.
LEMMA ReadTerminated ==
  ASSUME input \in Seq(Char), Terminated(input), input' = Unread
  PROVE  /\ Terminated(input')
         /\ Read \in Digit => input' # <<>> /\ Head(input') # 0
<1>1. CASE input = <<>>
  BY <1>1 DEF Unread, Read, Digit, Zero
<1>2. CASE input # <<>>
  <2>1. /\ input' \in Seq(Char) /\ Len(input') = Len(input) - 1
        /\ \A i \in 1 .. Len(input') : input'[i] = input[i + 1]
    BY <1>2 DEF Unread
  <2>2. Terminated(input')
    BY <2>1 DEF Terminated
  <2>3. ASSUME Read \in Digit PROVE input' # <<>> /\ Head(input') # 0
    <3>1. 1 \in DOMAIN input /\ input[1] \in Digit
      BY <1>2, <2>3 DEF Read
    <3>2. 1 < Len(input) /\ input[2] # 0
      BY <3>1 DEF Terminated
    <3> QED BY <2>1, <3>2
  <2> QED BY <2>2, <2>3
<1> QED BY <1>1, <1>2

LEMMA InitEnded ==
  ASSUME \A s \in Inputs : Terminated(s)
  PROVE  Init => Ended
  BY DEF Init, Ended

LEMMA NextEnded == Counted /\ Ended /\ [Next]_vars => Ended'
<1> SUFFICES ASSUME Counted, Ended, [Next]_vars PROVE Ended'
  OBVIOUS
<1>0. /\ input \in Seq(Char) /\ r12 \in Int /\ r12 <= 20
      /\ Terminated(input) /\ pc # "lost"
  BY DEF Counted, TypeOK, Ended
<1>1. CASE Getchar
  BY <1>0, <1>1, ReadTerminated DEF Getchar, Call, Ended
<1>2. CASE Getint
  BY <1>0, <1>2 DEF Getint, Ended
<1>3. ASSUME NEW c \in Characters, Putchar(c) PROVE Ended'
  BY <1>0, <1>3 DEF Putchar, Call, Ended
<1>4. ASSUME NEW n \in Numbers, Putint(n) PROVE Ended'
  BY <1>0, <1>4 DEF Putint, Ended
<1>5. CASE ReadEnd
  <2>1. r12 = 20
    \* behind a digit there is a character that is not 0
    BY <1>0, <1>5 DEF ReadEnd, Ended, Read
  <2> QED BY <1>0, <1>5, <2>1, ReadTerminated DEF ReadEnd, Ended
<1>6. CASE ReadMinus
  BY <1>0, <1>6, ReadTerminated DEF ReadMinus, IsMinus, Ended
<1>7. CASE ReadDigit
  BY <1>0, <1>7, ReadTerminated DEF ReadDigit, Ended
<1>8. CASE ReadOther
  BY <1>0, <1>8, ReadTerminated DEF ReadOther, Ended
<1>9. CASE AddDigit
  BY <1>0, <1>9 DEF AddDigit, Ended
<1>10. CASE SignNumber
  BY <1>0, <1>10 DEF SignNumber, Ended
<1>11. CASE Divide
  BY <1>0, <1>11 DEF Divide, Ended
<1>12. CASE WriteDigit
  BY <1>0, <1>12 DEF WriteDigit, Ended
<1>13. CASE Leave
  <2>1. pc = "int_end" /\ r12 = 20
    BY <1>13 DEF Leave, Ended
  <2>2. stack \in Seq(Item) /\ OverFrame /\ Len(stack) = 2
    BY <2>1 DEF Counted, TypeOK, DigitsCounted, OnStack, Item
  <2>3. stack = Frame
    BY <2>2, FrameOnly
  <2> QED BY <1>0, <1>13, <2>3 DEF Leave, Ended, regs
<1>14. CASE UNCHANGED vars
  BY <1>14 DEF vars, regs, Ended
<1> QED BY <1>1, <1>2, <1>3, <1>4, <1>5, <1>6, <1>7, <1>8, <1>9, <1>10, <1>11, <1>12, <1>13, <1>14
        DEF Next, Step

\* When no digit is the last thing to be read, every call finds its frame at the
\* top of the stack when it leaves: the rbp and the return address it takes are
\* the ones it put there.
THEOREM CallsComeBack ==
  ASSUME \A s \in Inputs : Terminated(s)
  PROVE  Spec => []ComesBack
<1>1. Init => Ended
  BY InitEnded
<1>2. Ended => ComesBack
  BY DEF Ended, ComesBack
<1> QED BY <1>1, <1>2, InitCounted, NextCounted, NextEnded, PTL DEF Spec
-----------------------------------------------------------------------------
(* Builtins implements Console                                             *)


WordCount == 2 * (WordMax + 1)   \* how many there are
-----------------------------------------------------------------------------
(* WordCount, modulo their number                                              *)

LEMMA WordsPositive == WordCount \in Nat \ {0}
  BY WordMaxAssumption DEF WordCount

LEMMA Multiple == ASSUME NEW c \in Int, NEW m \in Nat \ {0}, c * m < m, -m < c * m
                  PROVE  c = 0
<1>1. c >= 1 => c * m >= m
  OBVIOUS
<1>2. c <= -1 => c * m <= -m
  OBVIOUS
<1> QED  BY <1>1, <1>2

LEMMA ModuloIs == ASSUME NEW n \in Int, NEW m \in Nat \ {0}
                  PROVE  \E k \in Int : n % m = n + k * m
<1>1. n = (n \div m) * m + (n % m) /\ n \div m \in Int /\ n % m \in Int
  OBVIOUS
<1> DEFINE q == n \div m
           r == n % m
<1>2. q \in Int /\ r \in Int /\ n = q * m + r
  BY <1>1
<1> HIDE DEF q, r
<1>3. r = n + (-q) * m
  BY <1>2
<1>4. \E k \in Int : r = n + k * m
  BY <1>2, <1>3
<1> QED  BY <1>4 DEF r

\* Wrap changes an integer by a multiple of the number of words.
LEMMA WrapIs == ASSUME NEW n \in Int PROVE \E k \in Int : Wrap(n) = n + k * WordCount
<1>1. CASE n \in Word
  <2>1. Wrap(n) = n + 0 * WordCount
    BY <1>1, WordsPositive DEF Wrap
  <2> QED  BY <2>1
<1>2. CASE n \notin Word
  <2> DEFINE h == WordMax + 1
  <2>1. h \in Int /\ n + h \in Int
    BY WordMaxAssumption
  <2>2. PICK k \in Int : (n + h) % WordCount = n + h + k * WordCount
    BY <2>1, ModuloIs, WordsPositive
  <2>3. Wrap(n) = ((n + h) % WordCount) - h
    BY <1>2, WordMaxAssumption, WordsPositive, ModuloBounds DEF Wrap, WordCount
  <2>4. k * WordCount \in Int
    BY WordsPositive
  <2>5. Wrap(n) = n + k * WordCount
    <3> HIDE DEF h
    <3> QED  BY <2>1, <2>2, <2>3, <2>4
  <2> QED  BY <2>5
<1> QED  BY <1>1, <1>2

\* Integers that differ by a multiple are the same word.
LEMMA SameWord ==
    ASSUME NEW a \in Int, NEW b \in Int, NEW k \in Int, a = b + k * WordCount
    PROVE  Wrap(a) = Wrap(b)
<1>1. PICK i \in Int : Wrap(a) = a + i * WordCount
  BY WrapIs
<1>2. PICK j \in Int : Wrap(b) = b + j * WordCount
  BY WrapIs
<1>3. Wrap(a) - Wrap(b) = (k + i - j) * WordCount
  BY <1>1, <1>2, WordsPositive
<1>4. Wrap(a) \in Word /\ Wrap(b) \in Word
  BY WrapWord
<1>5. Wrap(a) - Wrap(b) < WordCount /\ -WordCount < Wrap(a) - Wrap(b)
  BY <1>4, WordMaxAssumption DEF Word, WordCount
<1>6. k + i - j = 0
  BY <1>3, <1>5, WordsPositive, Multiple
<1>7. Wrap(a) - Wrap(b) = 0
  BY <1>3, <1>6, WordsPositive
<1> QED  BY <1>4, <1>7 DEF Word

Opposite(n) == -n

LEMMA OppositeOfZero == ASSUME NEW n, n = 0 PROVE -n = 0
<1>1. \A i \in Int : Opposite(i) = 0 - i
  BY DEF Opposite
<1>2. Opposite(n) = 0
  BY <1>1
<1> QED  BY <1>2 DEF Opposite

LEMMA CharInt == Char \subseteq Int
  BY DEF Char

LEMMA WrapOfWord == \A w \in Word : Wrap(w) = w
  BY DEF Wrap

\* One turn of writer_loop: the last digit d goes to the sum, and leaves the number
\* v that the digits before it stand for.
Moves(v, d, sum, power) == Wrap(Wrap(sum + Wrap(d * power)) + Wrap(power * 10) * v)
                             = Wrap(sum + power * Wrap((10 * v) + d))

LEMMA DigitMoved ==
    ASSUME NEW v \in Int, NEW d \in Int, NEW sum \in Int, NEW power \in Int
    PROVE  Moves(v, d, sum, power)
<1>1. PICK k \in Int : Wrap(10 * v + d) = 10 * v + d + k * WordCount
  BY WrapIs
<1>2. PICK i \in Int : Wrap(d * power) = d * power + i * WordCount
  BY WrapIs
<1>3. PICK j \in Int : Wrap(sum + Wrap(d * power)) = sum + Wrap(d * power) + j * WordCount
  <2>1. d * power \in Int
    OBVIOUS
  <2>2. Wrap(d * power) \in Int
    BY <2>1, WrapWord DEF Word
  <2>3. sum + Wrap(d * power) \in Int
    BY <2>2
  <2> QED  BY <2>3, WrapIs
<1>4. PICK l \in Int : Wrap(power * 10) = power * 10 + l * WordCount
  BY WrapIs
<1> DEFINE a == sum + d * power + i * WordCount + j * WordCount + (power * 10 + l * WordCount) * v
           b == sum + power * (10 * v + d + k * WordCount)
           c == i + j + l * v - power * k
<1>5. a \in Int /\ b \in Int /\ c \in Int
  BY WordsPositive
<1>6. a = b + c * WordCount
  <2> SUFFICES ASSUME NEW w \in Int
               PROVE  sum + d * power + i * w + j * w + (power * 10 + l * w) * v
                        = sum + power * (10 * v + d + k * w) + (i + j + l * v - power * k) * w
    BY WordsPositive
  <2> QED  OBVIOUS
<1>7. Wrap(a) = Wrap(b)
  <2> HIDE DEF a, b, c
  <2> QED  BY <1>5, <1>6, SameWord
<1>8. Wrap(sum + Wrap(d * power)) + Wrap(power * 10) * v = a
  BY <1>2, <1>3, <1>4, WordsPositive
<1> QED  BY <1>1, <1>7, <1>8 DEF Moves
-----------------------------------------------------------------------------
(* What the recursive functions of Console compute                         *)

\* A set of natural numbers has a least one: what stands for an induction.
LEMMA LeastOf == ASSUME NEW S, S \subseteq Nat, S # {}
                 PROVE  \E m \in S : \A n \in S : m <= n
<1>1. PICK m \in S : \A n \in S : <<n, m>> \notin OpToRel(<, Nat)
  BY NatLessThanWellFounded, WFMin
<1>2. \A n \in S : ~ (n < m)
  BY <1>1 DEF OpToRel
<1> QED  BY <1>2

\* f gives the words that the first 0, ..., n digits of s stand for.
ValuesUpTo(s, n, f) == /\ f \in [0 .. n -> Word] /\ f[0] = 0
                       /\ \A i \in 1 .. n : f[i] = Wrap((10 * f[i - 1]) + (s[i] - Zero))

LEMMA ValuesExist == ASSUME NEW s \in Seq(Char), NEW n \in Nat, n <= Len(s)
                     PROVE  \E f : ValuesUpTo(s, n, f)
<1> DEFINE Without == {k \in 0 .. Len(s) : ~ \E f : ValuesUpTo(s, k, f)}
<1> SUFFICES ASSUME Without # {} PROVE FALSE
  BY DEF Without
<1>1. PICK m \in Without : \A k \in Without : m <= k
  <2>1. Without \subseteq Nat
    OBVIOUS
  <2> HIDE DEF Without
  <2> QED  BY <2>1, LeastOf
<1>2. m \in 0 .. Len(s) /\ ~ \E f : ValuesUpTo(s, m, f)
  OBVIOUS
<1>3. CASE m = 0
  <2>1. 0 \in Word
    BY WordMaxAssumption DEF Word
  <2>2. ValuesUpTo(s, 0, [i \in 0 .. 0 |-> 0])
    BY <2>1 DEF ValuesUpTo
  <2> QED  BY <1>2, <1>3, <2>2
<1>4. CASE m # 0
  <2>1. m - 1 \in 0 .. Len(s) /\ m \in Nat /\ m - 1 \notin Without
    BY <1>1, <1>2, <1>4
  <2>2. PICK f : ValuesUpTo(s, m - 1, f)
    BY <2>1 DEF Without
  <2> HIDE DEF Without
  <2> DEFINE w == Wrap((10 * f[m - 1]) + (s[m] - Zero))
             g == [i \in 0 .. m |-> IF i = m THEN w ELSE f[i]]
  <2>3. w \in Word
    <3>1. f[m - 1] \in Int
      BY <2>1, <2>2 DEF ValuesUpTo, Word
    <3>2. s[m] \in Int
      <4>1. s[m] \in Char
        BY <1>2, <1>4
      <4> QED  BY <4>1, CharInt
    <3>3. (10 * f[m - 1]) + (s[m] - Zero) \in Int
      BY <3>1, <3>2 DEF Zero
    <3> QED  BY <3>3, WrapWord
  <2>4. g \in [0 .. m -> Word]
    <3> HIDE DEF w
    <3>1. \A i \in 0 .. m : i # m => i \in 0 .. m - 1
      BY <2>1
    <3> QED  BY <2>2, <2>3, <3>1 DEF ValuesUpTo
  <2>5. \A i \in 1 .. m : g[i] = Wrap((10 * g[i - 1]) + (s[i] - Zero))
    <3> SUFFICES ASSUME NEW i \in 1 .. m
                 PROVE  g[i] = Wrap((10 * g[i - 1]) + (s[i] - Zero))
      OBVIOUS
    <3>1. i \in 0 .. m /\ i - 1 \in 0 .. m - 1 /\ i - 1 \in 0 .. m /\ i - 1 # m
      BY <2>1
    <3>2. g[i - 1] = f[i - 1]
      BY <3>1
    <3>3. CASE i = m
      BY <3>1, <3>2, <3>3
    <3>4. CASE i # m
      <4>1. g[i] = f[i] /\ i \in 1 .. m - 1
        BY <2>1, <3>1, <3>4
      <4> QED  BY <2>2, <3>2, <4>1 DEF ValuesUpTo
    <3> QED  BY <3>3, <3>4
  <2>6. g[0] = 0
    BY <1>4, <2>1, <2>2 DEF ValuesUpTo
  <2>7. ValuesUpTo(s, m, g)
    <3> HIDE DEF g
    <3> QED  BY <2>4, <2>5, <2>6 DEF ValuesUpTo
  <2> QED  BY <1>2, <2>7
<1> QED  BY <1>3, <1>4

\* Console counts with the same words, and knows the same characters.
LEMMA ConsoleWords == /\ \A n : ConsoleSpec!Wrap(n) = Wrap(n)
                      /\ ConsoleSpec!Word = Word
                      /\ ConsoleSpec!Zero = Zero /\ ConsoleSpec!Minus = Minus
                      /\ ConsoleSpec!Digit = Digit
  BY DEF ConsoleSpec!Wrap, ConsoleSpec!Word, Wrap, Word, ConsoleSpec!Zero, Zero,
         ConsoleSpec!Minus, Minus, ConsoleSpec!Digit, Digit

LEMMA ValuesAre == ASSUME NEW s \in Seq(Char)
                   PROVE  ValuesUpTo(s, Len(s), ConsoleSpec!Values(s))
<1> DEFINE Rec(f) == f = [i \in 0 .. Len(s) |->
                            IF i = 0 THEN 0
                            ELSE ConsoleSpec!Wrap((10 * f[i - 1]) + (s[i] - ConsoleSpec!Zero))]
<1>1. Len(s) \in Nat
  OBVIOUS
<1>2. PICK f : ValuesUpTo(s, Len(s), f)
  BY <1>1, ValuesExist
<1>3. Rec(f)
  <2>1. \A i \in 0 .. Len(s) :
          f[i] = IF i = 0 THEN 0
                 ELSE ConsoleSpec!Wrap((10 * f[i - 1]) + (s[i] - ConsoleSpec!Zero))
    BY <1>1, <1>2, ConsoleWords DEF ValuesUpTo
  <2> QED  BY <1>2, <2>1 DEF ValuesUpTo
<1> DEFINE v == ConsoleSpec!Values(s)
<1>4. v = CHOOSE g : Rec(g)
  BY DEF ConsoleSpec!Values
<1>5. Rec(v)
  <2> HIDE DEF v, Rec
  <2> QED  BY <1>3, <1>4
<1> HIDE DEF v
<1>6. /\ DOMAIN v = 0 .. Len(s) /\ v = [i \in 0 .. Len(s) |-> v[i]] /\ v[0] = 0
      /\ \A i \in 1 .. Len(s) : v[i] = Wrap((10 * v[i - 1]) + (s[i] - Zero))
  <2>1. 0 \in 0 .. Len(s) /\ \A i \in 1 .. Len(s) : i \in 0 .. Len(s) /\ i # 0
    BY <1>1
  <2> QED  BY <1>5, <2>1, ConsoleWords
<1>7. \A n \in 0 .. Len(s) : v[n] \in Word
  <2> DEFINE Other == {n \in 0 .. Len(s) : v[n] \notin Word}
  <2> SUFFICES ASSUME Other # {} PROVE FALSE
    BY DEF Other
  <2>1. PICK m \in Other : \A n \in Other : m <= n
    <3>1. Other \subseteq Nat
      BY <1>1
    <3> HIDE DEF Other
    <3> QED  BY <3>1, LeastOf
  <2>2. m \in 0 .. Len(s) /\ v[m] \notin Word
    OBVIOUS
  <2>3. m # 0
    BY <1>6, <2>2, WordMaxAssumption DEF Word
  <2>4. m - 1 \in 0 .. Len(s) /\ m \in 1 .. Len(s) /\ m - 1 \notin Other
    BY <1>1, <2>1, <2>2, <2>3
  <2>5. v[m - 1] \in Int /\ s[m] \in Int
    <3>1. v[m - 1] \in Word
      BY <2>4
    <3>2. s[m] \in Char
      BY <2>4, ElementOfSeq
    <3>3. v[m - 1] \in Int
      BY <3>1 DEF Word
    <3>4. s[m] \in Int
      BY <3>2, CharInt
    <3> QED  BY <3>3, <3>4
  <2>6. (10 * v[m - 1]) + (s[m] - Zero) \in Int
    BY <2>5 DEF Zero
  <2> QED  BY <1>6, <2>2, <2>4, <2>6, WrapWord
<1> QED  BY <1>6, <1>7 DEF ValuesUpTo, v

\* The number that n digits stand for, from the number that n - 1 of them do.
LEMMA NextValue ==
    ASSUME NEW s \in Seq(Char), NEW i \in 1 .. Len(s)
    PROVE  /\ ConsoleSpec!Values(s)[i] = Wrap((10 * ConsoleSpec!Values(s)[i - 1]) + (s[i] - Zero))
           /\ ConsoleSpec!Values(s)[i - 1] \in Word
<1>1. i - 1 \in 0 .. Len(s)
  OBVIOUS
<1> QED  BY <1>1, ValuesAre DEF ValuesUpTo

\* There is one number of digits at the start of s: they end before the
\* first place that has none, or with s.
LEMMA DigitCountExists ==
    ASSUME NEW s \in Seq(Char)
    PROVE  \E n \in 0 .. Len(s) : /\ \A i \in 1 .. n : s[i] \in Digit
                                  /\ n < Len(s) => s[n + 1] \notin Digit
<1>1. Len(s) \in Nat
  OBVIOUS
<1> DEFINE others == {i \in 1 .. Len(s) : s[i] \notin Digit}
<1>2. CASE others = {}
  <2>1. Len(s) \in 0 .. Len(s) /\ \A i \in 1 .. Len(s) : s[i] \in Digit
    BY <1>1, <1>2
  <2> QED  BY <1>1, <2>1
<1>3. CASE others # {}
  <2>1. PICK m \in others : \A n \in others : m <= n
    <3>1. others \subseteq Nat
      OBVIOUS
    <3> HIDE DEF others
    <3> QED  BY <1>3, <3>1, LeastOf
  <2>2. m \in 1 .. Len(s) /\ s[m] \notin Digit
    OBVIOUS
  <2>3. m - 1 \in 0 .. Len(s) /\ (m - 1) + 1 = m
    BY <1>1, <2>2
  <2>4. \A i \in 1 .. m - 1 : s[i] \in Digit
    <3>1. \A i \in 1 .. m - 1 : i \in 1 .. Len(s) /\ ~ (m <= i)
      BY <1>1, <2>2
    <3> QED  BY <2>1, <3>1
  <2> QED  BY <2>2, <2>3, <2>4
<1> QED  BY <1>2, <1>3

LEMMA DigitCountIs ==
    ASSUME NEW s \in Seq(Char), NEW n \in 0 .. Len(s), \A i \in 1 .. n : s[i] \in Digit,
           n < Len(s) => s[n + 1] \notin Digit
    PROVE  ConsoleSpec!DigitCount(s) = n
<1> DEFINE Counts(k) == /\ \A i \in 1 .. k : s[i] \in ConsoleSpec!Digit
                        /\ k < Len(s) => s[k + 1] \notin ConsoleSpec!Digit
<1>1. Counts(n)
  BY ConsoleWords
<1>2. \A k \in 0 .. Len(s) : Counts(k) => k = n
  <2> SUFFICES ASSUME NEW k \in 0 .. Len(s), Counts(k), k # n PROVE FALSE
    OBVIOUS
  <2>1. CASE k < n
    <3>1. k + 1 \in 1 .. n /\ k < Len(s)
      BY <2>1
    <3> QED  BY <1>1, <3>1
  <2>2. CASE n < k
    <3>1. n + 1 \in 1 .. k /\ n < Len(s)
      BY <2>2
    <3> QED  BY <1>1, <3>1
  <2> QED  BY <2>1, <2>2
<1>3. ConsoleSpec!DigitCount(s) = CHOOSE k \in 0 .. Len(s) : Counts(k)
  BY DEF ConsoleSpec!DigitCount
<1> HIDE DEF Counts
<1> QED  BY <1>1, <1>2, <1>3

\* The digits of i, from those of the numbers below it.
DigitsFrom(f, i) == IF i < 10 THEN <<Zero + i>> ELSE Append(f[i \div 10], Zero + (i % 10))

DigitsUpTo(n, f) == /\ f \in [0 .. n -> Seq(Char)]
                    /\ \A i \in 0 .. n : f[i] = DigitsFrom(f, i)

LEMMA TenthOf == ASSUME NEW i \in Nat
                 PROVE  /\ i % 10 \in 0 .. 9 /\ i \div 10 \in Nat
                        /\ i >= 10 => i \div 10 < i
  OBVIOUS

\* They are characters.
LEMMA DigitsChars ==
    ASSUME NEW i \in Nat, NEW f, i >= 10 => f[i \div 10] \in Seq(Char)
    PROVE  DigitsFrom(f, i) \in Seq(Char)
<1>1. CASE i < 10
  <2>1. Zero + i \in Char
    BY <1>1 DEF Zero, Char
  <2>2. DigitsFrom(f, i) = <<Zero + i>>
    BY <1>1 DEF DigitsFrom
  <2> QED  BY <2>1, <2>2
<1>2. CASE ~(i < 10)
  <2>1. Zero + (i % 10) \in Char
    <3>1. i % 10 \in 0 .. 9
      BY TenthOf
    <3> DEFINE r == i % 10
    <3>2. r \in 0 .. 9
      BY <3>1
    <3> HIDE DEF r
    <3>3. Zero + r \in Char
      BY <3>2 DEF Zero, Char
    <3> QED  BY <3>3 DEF r
  <2>2. DigitsFrom(f, i) = Append(f[i \div 10], Zero + (i % 10))
    BY <1>2 DEF DigitsFrom
  <2>3. f[i \div 10] \in Seq(Char)
    BY <1>2
  <2> QED  BY <2>1, <2>2, <2>3
<1> QED  BY <1>1, <1>2

LEMMA DigitsExist == ASSUME NEW n \in Nat PROVE \E f : DigitsUpTo(n, f)
<1> DEFINE Without == {k \in 0 .. n : ~ \E f : DigitsUpTo(k, f)}
<1> SUFFICES ASSUME Without # {} PROVE FALSE
  BY DEF Without
<1>1. PICK m \in Without : \A k \in Without : m <= k
  <2>1. Without \subseteq Nat
    OBVIOUS
  <2> HIDE DEF Without
  <2> QED  BY <2>1, LeastOf
<1>2. m \in Nat /\ m <= n /\ ~ \E f : DigitsUpTo(m, f)
  OBVIOUS
<1>3. \E f : /\ f \in [0 .. m - 1 -> Seq(Char)]
             /\ \A i \in 0 .. m - 1 : f[i] = DigitsFrom(f, i)
  <2>1. CASE m = 0
    <3>1. [i \in 0 .. m - 1 |-> <<>>] \in [0 .. m - 1 -> Seq(Char)]
      OBVIOUS
    <3>2. 0 .. m - 1 = {}
      BY <2>1
    <3> QED  BY <3>1, <3>2
  <2>2. CASE m # 0
    <3>1. m - 1 \in 0 .. n /\ m - 1 \notin Without
      BY <1>1, <1>2, <2>2
    <3>2. \E f : DigitsUpTo(m - 1, f)
      BY <3>1 DEF Without
    <3> QED  BY <3>2 DEF DigitsUpTo
  <2> QED  BY <2>1, <2>2
<1> HIDE DEF Without
<1>4. PICK f : /\ f \in [0 .. m - 1 -> Seq(Char)]
               /\ \A i \in 0 .. m - 1 : f[i] = DigitsFrom(f, i)
  BY <1>3
<1> DEFINE w == DigitsFrom(f, m)
           g == [i \in 0 .. m |-> IF i = m THEN w ELSE f[i]]
<1>5. \A i \in 0 .. m : i >= 10 => i \div 10 \in 0 .. m - 1 /\ i \div 10 \in 0 .. m /\ i \div 10 # m
  BY <1>2, TenthOf
<1>6. w \in Seq(Char)
  <2>1. m >= 10 => f[m \div 10] \in Seq(Char)
    <3>1. m \in 0 .. m
      BY <1>2
    <3> QED  BY <1>4, <1>5, <3>1
  <2> QED  BY <1>2, <2>1, DigitsChars
<1>7. g \in [0 .. m -> Seq(Char)]
  <2> HIDE DEF w
  <2>1. \A i \in 0 .. m : i # m => i \in 0 .. m - 1
    BY <1>2
  <2> QED  BY <1>4, <1>6, <2>1
<1>8. \A i \in 0 .. m : g[i] = DigitsFrom(g, i)
  <2> SUFFICES ASSUME NEW i \in 0 .. m PROVE g[i] = DigitsFrom(g, i)
    OBVIOUS
  <2>1. i >= 10 => g[i \div 10] = f[i \div 10]
    BY <1>5
  <2>2. DigitsFrom(g, i) = DigitsFrom(f, i)
    <3> HIDE DEF g
    <3> QED  BY <1>2, <2>1 DEF DigitsFrom
  <2>3. g[i] = DigitsFrom(f, i)
    <3>1. CASE i = m
      BY <3>1
    <3>2. CASE i # m
      <4>1. g[i] = f[i] /\ i \in 0 .. m - 1
        BY <1>2, <3>2
      <4> QED  BY <1>4, <4>1
    <3> QED  BY <3>1, <3>2
  <2> QED  BY <2>2, <2>3
<1>9. DigitsUpTo(m, g)
  <2> HIDE DEF g
  <2> QED  BY <1>7, <1>8 DEF DigitsUpTo
<1> QED  BY <1>2, <1>9

LEMMA DigitsAre == DigitsUpTo(WordMax + 1, ConsoleSpec!Digits)
<1> DEFINE n == WordMax + 1
           Rec(f) == f = [i \in 0 .. WordMax + 1 |->
                            IF i < 10 THEN <<ConsoleSpec!Zero + i>>
                            ELSE Append(f[i \div 10], ConsoleSpec!Zero + (i % 10))]
           D == ConsoleSpec!Digits
<1>1. n \in Nat
  BY WordMaxAssumption
<1>2. PICK f : DigitsUpTo(n, f)
  BY <1>1, DigitsExist
<1>3. Rec(f)
  BY <1>2, ConsoleWords DEF DigitsUpTo, DigitsFrom
<1>4. D = CHOOSE g : Rec(g)
  BY DEF ConsoleSpec!Digits
<1>5. Rec(D)
  <2> HIDE DEF D, Rec
  <2> QED  BY <1>3, <1>4
<1> HIDE DEF D
<1>6. D = [i \in 0 .. n |-> D[i]] /\ \A i \in 0 .. n : D[i] = DigitsFrom(D, i)
  BY <1>5, ConsoleWords DEF DigitsFrom
<1> HIDE DEF n, Rec
<1>7. \A i \in 0 .. n : D[i] \in Seq(Char)
  <2> DEFINE Other == {i \in 0 .. n : D[i] \notin Seq(Char)}
  <2> SUFFICES ASSUME Other # {} PROVE FALSE
    BY DEF Other
  <2>1. PICK m \in Other : \A i \in Other : m <= i
    <3>1. Other \subseteq Nat
      BY <1>1
    <3> HIDE DEF Other
    <3> QED  BY <3>1, LeastOf
  <2>2. m \in 0 .. n /\ m \in Nat /\ D[m] \notin Seq(Char)
    BY <1>1
  <2>3. m >= 10 => m \div 10 \in 0 .. n /\ m \div 10 < m
    BY <1>1, <2>2, TenthOf
  <2>4. m >= 10 => D[m \div 10] \in Seq(Char)
    <3>1. m >= 10 => m \div 10 \notin Other
      BY <2>1, <2>2, <2>3
    <3> QED  BY <2>3, <3>1
  <2> QED  BY <1>6, <2>2, <2>4, DigitsChars
<1> QED  BY <1>6, <1>7 DEF DigitsUpTo, D, n
-----------------------------------------------------------------------------
(* What a call has done so far                                             *)

\* The input of getint: a minus, the digits, and what is left behind them.
Negative == asked.input # <<>> /\ Head(asked.input) = Minus
Number == IF Negative THEN Tail(asked.input) ELSE asked.input
Count == ConsoleSpec!DigitCount(Number)
Text == SubSeq(Number, 1, Count)
Value(j) == ConsoleSpec!Values(Text)[j]
Left == ConsoleSpec!Rest(SubSeq(Number, Count + 1, Len(Number)))

\* How many digits are on the stack.
Held == 20 - r12

\* reader_loop has pushed the first digits behind the minus it met.
Pushing ==
    LET u == IF r15 = 1 THEN Tail(asked.input) ELSE asked.input
    IN /\ r15 = 1 => Negative
       /\ Held <= Len(u) /\ input = SubSeq(u, Held + 1, Len(u))
       /\ \A i \in 1 .. Held : u[i] \in Digit /\ stack[2 + i] = Pushed(u[i] - Zero)
       /\ r13 = 0

\* writer_loop has still to add the number of the digits held, times r14.
Adding ==
    /\ r15 = 1 <=> Negative
    /\ Held <= Count /\ Count <= Len(Number)
    /\ \A i \in 1 .. Held : stack[2 + i] = Pushed(Number[i] - Zero)
    /\ input = Left
    /\ Wrap(r13 + r14 * Value(Held)) = Value(Count)

NumberRead == input = Left /\ rax = Wrap(IF Negative THEN -Value(Count) ELSE Value(Count))

\* putint writes the minus at once; the digits held come behind those of r13.
Magnitude == IF asked.arg < 0 THEN -asked.arg ELSE asked.arg
Signed == IF asked.arg < 0 THEN Append(asked.output, Minus) ELSE asked.output
HeldOf(s) == [i \in 1 .. Len(s) - 2 |-> s[Len(s) + 1 - i][2]]
HeldDigits == HeldOf(stack)

Dividing ==
    /\ Unsigned(r13) \in 0 .. WordMax + 1
    /\ output = Signed
    /\ ConsoleSpec!Digits[Magnitude] = ConsoleSpec!Digits[Unsigned(r13)] \o HeldDigits

Writing == output \o HeldDigits = Signed \o ConsoleSpec!Digits[Magnitude]

NumberWritten == output = Signed \o ConsoleSpec!Digits[Magnitude]

Calling ==
    pc \in OnStack =>
      /\ asked.input \in Seq(Char) /\ asked.output \in Seq(Char)
      /\ \/ /\ asked.name = "getint" /\ output = asked.output
            /\ \/ pc = "reader_loop" /\ Pushing
               \/ pc = "writer_loop" /\ Adding
               \/ pc = "int_end" /\ NumberRead
         \/ /\ asked.name = "putint" /\ asked.arg \in Numbers /\ input = asked.input
            /\ \/ pc = "putint_loop" /\ Dividing
               \/ pc = "putint_2loop" /\ Writing
               \/ pc = "int_end" /\ NumberWritten
-----------------------------------------------------------------------------
(* getint                                                                  *)

\* Reading on in what is left of u behind k characters.
LEMMA ReadingOn ==
    ASSUME NEW u \in Seq(Char), NEW k \in 0 .. Len(u), NEW s, s = SubSeq(u, k + 1, Len(u))
    PROVE  /\ s \in Seq(Char) /\ (s = <<>> <=> k = Len(u))
           /\ s # <<>> => Head(s) = u[k + 1] /\ Tail(s) = SubSeq(u, k + 2, Len(u))
<1>1. Len(u) \in Nat /\ k \in Nat /\ \A i \in k + 1 .. Len(u) : u[i] \in Char
  BY ElementOfSeq
<1>2. s \in Seq(Char) /\ Len(s) = Len(u) - k /\ \A i \in 1 .. Len(u) - k : s[i] = u[k + i]
  <2>1. k + 1 \in Int /\ Len(u) \in Int
    BY <1>1
  <2>2. /\ s \in Seq(Char) /\ Len(s) = IF k + 1 <= Len(u) THEN Len(u) - (k + 1) + 1 ELSE 0
        /\ \A i \in 1 .. Len(u) - (k + 1) + 1 : s[i] = u[k + 1 + i - 1]
    BY <1>1, <2>1, SubSeqProperties
  <2> QED  BY <1>1, <2>2
<1>3. s = <<>> <=> k = Len(u)
  <2>1. s = <<>> <=> Len(s) = 0
    BY <1>2, EmptySeq
  <2> QED  BY <1>1, <1>2, <2>1
<1>4. ASSUME s # <<>> PROVE Head(s) = u[k + 1] /\ Tail(s) = SubSeq(u, k + 2, Len(u))
  <2>1. k + 1 \in 1 .. Len(u) /\ Len(u) \in k + 1 .. Len(u)
    BY <1>1, <1>3, <1>4
  <2>2. Head(s) = u[k + 1] /\ Tail(s) = SubSeq(u, k + 1 + 1, Len(u))
    BY <2>1, HeadTailOfSubSeq
  <2>3. k + 1 + 1 = k + 2
    BY <1>1
  <2> QED  BY <2>2, <2>3
<1> QED  BY <1>2, <1>3, <1>4

\* What reader_loop reads in.
Reader == IF r15 = 1 THEN Tail(asked.input) ELSE asked.input

LEMMA ReaderIs ==
    ASSUME Counted, pc = "reader_loop", asked.input \in Seq(Char), Pushing
    PROVE  /\ Reader \in Seq(Char) /\ Held \in 0 .. Len(Reader) /\ Len(stack) = 2 + Held
           /\ input \in Seq(Char) /\ input = SubSeq(Reader, Held + 1, Len(Reader))
           /\ input = <<>> <=> Held = Len(Reader)
           /\ input # <<>> => Read = Reader[Held + 1]
           /\ Unread = ConsoleSpec!Rest(input)
           /\ input # <<>> => Unread = SubSeq(Reader, Held + 2, Len(Reader))
<1>1. r12 \in Int /\ r12 <= 20 /\ Len(stack) = 2 + 20 - r12
  BY DEF Counted, TypeOK, DigitsCounted, OnStack
<1>2. Reader \in Seq(Char)
  <2>1. CASE r15 = 1
    <3>1. asked.input # <<>>
      BY <2>1 DEF Pushing, Negative
    <3> QED  BY <2>1, <3>1 DEF Reader
  <2> QED  BY <2>1 DEF Reader
<1>3. Held \in 0 .. Len(Reader) /\ input = SubSeq(Reader, Held + 1, Len(Reader))
  BY <1>1, <1>2 DEF Pushing, Reader, Held
<1>4. /\ input \in Seq(Char) /\ (input = <<>> <=> Held = Len(Reader))
      /\ input # <<>> => /\ Head(input) = Reader[Held + 1]
                         /\ Tail(input) = SubSeq(Reader, Held + 2, Len(Reader))
  BY <1>2, <1>3, ReadingOn
<1>5. Len(stack) = 2 + Held
  BY <1>1 DEF Held
<1> QED  BY <1>2, <1>3, <1>4, <1>5 DEF Read, Unread, ConsoleSpec!Rest

LEMMA MinusPushes ==
    ASSUME Counted, Calling, ReadMinus
    PROVE  asked.input \in Seq(Char) /\ pc = "reader_loop" /\ asked.name = "getint"
           /\ output = asked.output /\ Pushing'
<1>1. /\ asked.input \in Seq(Char) /\ pc = "reader_loop" /\ asked.name = "getint"
      /\ output = asked.output /\ Pushing
  BY DEF Calling, ReadMinus, OnStack
<1>2. r12 = 20 /\ Read = Minus /\ r15 = 0 /\ r15' = 1 /\ r12' = r12 /\ r13' = r13 /\ input' = Unread
      /\ asked' = asked
  BY DEF ReadMinus, IsMinus
<1>3. Held = 0 /\ Held' = 0 /\ Reader = asked.input
  BY <1>2 DEF Held, Reader
<1>4. input = asked.input
  <2>1. input = SubSeq(Reader, Held + 1, Len(Reader))
    BY <1>1, ReaderIs
  <2>2. input = SubSeq(asked.input, 1, Len(asked.input))
    BY <1>3, <2>1
  <2> QED  BY <1>1, <2>2, SubSeqFull
<1>5. Negative
  BY <1>2, <1>4 DEF Negative, Read, Minus
<1>6. Tail(asked.input) \in Seq(Char) /\ input' = Tail(asked.input)
  BY <1>1, <1>2, <1>4, <1>5 DEF Negative, Unread
<1>7. input' = SubSeq(Tail(asked.input), 1, Len(Tail(asked.input)))
  BY <1>6, SubSeqFull
<1>8. 0 <= Len(Tail(asked.input)) /\ 1 .. 0 = {} /\ 0 + 1 = 1
  BY <1>6
<1>9. Negative'
  BY <1>2, <1>5 DEF Negative
<1>10. r13' = 0
  BY <1>1, <1>2 DEF Pushing
<1> QED  BY <1>1, <1>2, <1>3, <1>7, <1>8, <1>9, <1>10 DEF Pushing

LEMMA DigitPushes ==
    ASSUME Counted, Calling, ReadDigit
    PROVE  asked.input \in Seq(Char) /\ pc = "reader_loop" /\ asked.name = "getint"
           /\ output = asked.output /\ Pushing'
<1>1. /\ asked.input \in Seq(Char) /\ pc = "reader_loop" /\ asked.name = "getint"
      /\ output = asked.output /\ Pushing
  BY DEF Calling, ReadDigit, OnStack
<1>2. Read \in Digit /\ r12' = r12 - 1 /\ stack' = Append(stack, Pushed(Read - Zero))
      /\ input' = Unread /\ UNCHANGED <<r13, r15, asked>>
  BY DEF ReadDigit
<1>3. /\ Reader \in Seq(Char) /\ Held \in 0 .. Len(Reader) /\ Len(stack) = 2 + Held
      /\ input = <<>> <=> Held = Len(Reader)
      /\ input # <<>> => Read = Reader[Held + 1]
      /\ input # <<>> => Unread = SubSeq(Reader, Held + 2, Len(Reader))
  BY <1>1, ReaderIs
<1>4. input # <<>>
  BY <1>2 DEF Read, Digit, Zero
<1>5. Held' = Held + 1 /\ Held \in Nat /\ Held + 1 <= Len(Reader) /\ Reader' = Reader
  <2>1. r12 \in Int
    BY DEF Counted, TypeOK
  <2>2. Held' = Held + 1
    BY <1>2, <2>1 DEF Held
  <2>3. Held \in Nat /\ Held + 1 <= Len(Reader)
    BY <1>3, <1>4
  <2> QED  BY <1>2, <2>2, <2>3 DEF Reader
<1>6. Reader[Held + 1] \in Digit /\ stack' = Append(stack, Pushed(Reader[Held + 1] - Zero))
  BY <1>2, <1>3, <1>4
<1>7. stack \in Seq(Item)
  BY DEF Counted, TypeOK, Item
<1>8. Pushed(Reader[Held + 1] - Zero) \in Item
  <2>1. Reader[Held + 1] - Zero \in 0 .. Zero + 9
    BY <1>6 DEF Digit, Zero
  <2> QED  BY <2>1 DEF Item, Digits
<1>9. /\ \A i \in 1 .. Held : stack'[2 + i] = stack[2 + i]
      /\ stack'[2 + (Held + 1)] = Pushed(Reader[Held + 1] - Zero)
  <2> DEFINE h == Held
  <2>1. h \in Nat /\ Len(stack) = 2 + h
    BY <1>3, <1>5
  <2>2. /\ \A i \in 1 .. Len(stack) : stack'[i] = stack[i]
        /\ stack'[Len(stack) + 1] = Pushed(Reader[Held + 1] - Zero)
    BY <1>6, <1>7, <1>8
  <2> HIDE DEF h
  <2>3. Len(stack) + 1 = 2 + (h + 1) /\ \A i \in 1 .. h : 2 + i \in 1 .. Len(stack)
    BY <2>1
  <2> QED  BY <2>2, <2>3 DEF h
<1>10. \A i \in 1 .. Held : Reader[i] \in Digit /\ stack[2 + i] = Pushed(Reader[i] - Zero)
  BY <1>1 DEF Pushing, Reader
<1>11. \A i \in 1 .. Held + 1 : Reader[i] \in Digit /\ stack'[2 + i] = Pushed(Reader[i] - Zero)
  <2>1. \A i \in 1 .. Held + 1 : i \in 1 .. Held \/ i = Held + 1
    BY <1>5
  <2> QED  BY <1>6, <1>9, <1>10, <2>1
<1>12. input' = SubSeq(Reader, Held + 1 + 1, Len(Reader))
  <2>1. Held + 1 + 1 = Held + 2
    BY <1>5
  <2> QED  BY <1>2, <1>3, <1>4, <2>1
<1>13. (r15' = 1 => Negative') /\ r13' = 0
  BY <1>1, <1>2 DEF Pushing, Negative
<1> QED  BY <1>1, <1>5, <1>11, <1>12, <1>13 DEF Pushing, Reader

\* reader_loop leaves behind the digits of the input, whatever the sign.
LEMMA DigitsRead ==
    ASSUME Counted, pc = "reader_loop", asked.input \in Seq(Char), Pushing,
           Read \notin Digit, ~IsMinus
    PROVE  /\ r15 = 1 <=> Negative
           /\ Number \in Seq(Char) /\ Count = Held /\ Held \in 0 .. Len(Number)
           /\ \A i \in 1 .. Held : Number[i] \in Digit /\ stack[2 + i] = Pushed(Number[i] - Zero)
           /\ Unread = Left
<1>1. /\ Reader \in Seq(Char) /\ Held \in 0 .. Len(Reader)
      /\ input \in Seq(Char) /\ input = SubSeq(Reader, Held + 1, Len(Reader))
      /\ input = <<>> <=> Held = Len(Reader)
      /\ input # <<>> => Read = Reader[Held + 1]
      /\ Unread = ConsoleSpec!Rest(input)
  BY ReaderIs
<1>2. \A i \in 1 .. Held : Reader[i] \in Digit /\ stack[2 + i] = Pushed(Reader[i] - Zero)
  BY DEF Pushing, Reader
<1>3. ASSUME r15 # 1, Negative PROVE FALSE
  <2>1. Reader = asked.input /\ Reader # <<>> /\ Reader[1] = Minus
    BY <1>3 DEF Reader, Negative
  <2>2. CASE Held = 0
    <3>1. input # <<>>
      BY <1>1, <2>1, <2>2, EmptySeq
    <3>2. Read = Reader[1]
      BY <1>1, <2>2, <3>1
    <3>3. r15 = 0 /\ r12 = 20
      BY <1>3, <2>2 DEF Counted, TypeOK, Held
    <3> QED  BY <2>1, <3>2, <3>3 DEF IsMinus
  <2>3. CASE Held # 0
    <3>1. 1 \in 1 .. Held
      BY <1>1, <2>3
    <3> QED  BY <1>2, <2>1, <3>1 DEF Digit, Zero, Minus
  <2> QED  BY <2>2, <2>3
<1>4. r15 = 1 <=> Negative
  BY <1>3 DEF Pushing
<1>5. Number = Reader
  BY <1>4 DEF Number, Reader
<1>6. Count = Held
  <2>1. Held < Len(Reader) => Reader[Held + 1] \notin Digit
    BY <1>1
  <2> QED  BY <1>1, <1>2, <1>5, <2>1, DigitCountIs DEF Count
<1>7. Unread = Left
  BY <1>1, <1>5, <1>6 DEF Left
<1> QED  BY <1>1, <1>2, <1>4, <1>5, <1>6, <1>7

\* The numbers of the digits read.
LEMMA NumbersAre ==
    ASSUME Number \in Seq(Char), Count \in 0 .. Len(Number)
    PROVE  /\ Value(0) = 0 /\ \A i \in 0 .. Count : Value(i) \in Word
           /\ \A i \in 1 .. Count : Value(i) = Wrap((10 * Value(i - 1)) + (Number[i] - Zero))
           /\ Value(Count) = ConsoleSpec!NumberOf(Text)
<1>1. Text \in Seq(Char) /\ Len(Text) = Count /\ \A i \in 1 .. Count : Text[i] = Number[i]
  <2>1. 1 \in Int /\ Count \in Int /\ Count \in Nat /\ \A i \in 1 .. Count : Number[i] \in Char
    BY ElementOfSeq
  <2>2. /\ Text \in Seq(Char) /\ Len(Text) = IF 1 <= Count THEN Count - 1 + 1 ELSE 0
        /\ \A i \in 1 .. Count - 1 + 1 : Text[i] = Number[1 + i - 1]
    BY <2>1, SubSeqProperties DEF Text
  <2> QED  BY <2>1, <2>2
<1>2. ValuesUpTo(Text, Count, ConsoleSpec!Values(Text))
  BY <1>1, ValuesAre
<1> QED  BY <1>1, <1>2 DEF Value, ValuesUpTo, ConsoleSpec!NumberOf

LEMMA OtherEnds ==
    ASSUME Counted, Calling, ReadOther
    PROVE  asked.input \in Seq(Char) /\ pc = "reader_loop" /\ asked.name = "getint"
           /\ output = asked.output /\ Adding'
<1>1. /\ asked.input \in Seq(Char) /\ pc = "reader_loop" /\ asked.name = "getint"
      /\ output = asked.output /\ Pushing
  BY DEF Calling, ReadOther, OnStack
<1>2. /\ r15 = 1 <=> Negative
      /\ Number \in Seq(Char) /\ Count = Held /\ Held \in 0 .. Len(Number)
      /\ \A i \in 1 .. Held : Number[i] \in Digit /\ stack[2 + i] = Pushed(Number[i] - Zero)
      /\ Unread = Left
  BY <1>1, DigitsRead DEF ReadOther
<1>3. /\ r14' = 1 /\ input' = Unread /\ r13 = 0
      /\ UNCHANGED <<r12, r13, r15, stack, asked>>
  BY <1>1 DEF ReadOther, Pushing
<1>4. UNCHANGED <<Negative, Number, Held>>
  BY <1>3 DEF Negative, Number, Held
<1>5. UNCHANGED <<Count, Left, Text>>
  BY <1>4 DEF Count, Left, Text
<1>6. Value(Count) \in Word /\ Value(Held)' = Value(Count) /\ Value(Count)' = Value(Count)
  <2>1. Count \in 0 .. Count /\ Count \in 0 .. Len(Number)
    BY <1>2
  <2> QED  BY <1>2, <1>4, <1>5, <2>1, NumbersAre DEF Value
<1>7. Wrap(r13' + r14' * Value(Held)') = Value(Count)'
  <2>1. r13' = 0 /\ r14' = 1
    BY <1>3
  <2>2. 0 + 1 * Value(Count) = Value(Count)
    BY <1>6 DEF Word
  <2> QED  BY <1>6, <2>1, <2>2, WrapOfWord
<1> QED  BY <1>1, <1>2, <1>3, <1>4, <1>5, <1>7 DEF Adding

\* At the end of the input no digit is held.
LEMMA EndEnds ==
    ASSUME Counted, Ended, Calling, ReadEnd
    PROVE  asked.input \in Seq(Char) /\ pc = "reader_loop" /\ asked.name = "getint"
           /\ output = asked.output /\ NumberRead'
<1>1. /\ asked.input \in Seq(Char) /\ pc = "reader_loop" /\ asked.name = "getint"
      /\ output = asked.output /\ Pushing /\ Read = 0
  BY DEF Calling, ReadEnd, OnStack
<1>2. r12 = 20 /\ Held = 0
  <2>1. r12 \in Int /\ r12 <= 20
    BY DEF Counted, TypeOK
  <2>2. r12 = 20
    BY <1>1, <2>1 DEF Ended, Read
  <2> QED  BY <2>2 DEF Held
<1>3. Read \notin Digit /\ ~IsMinus
  BY <1>1 DEF Digit, Zero, IsMinus, Minus
<1>4. Number \in Seq(Char) /\ Count = 0 /\ 0 \in 0 .. Len(Number) /\ Unread = Left
  BY <1>1, <1>2, <1>3, DigitsRead
<1>5. Value(Count) = 0
  BY <1>4, NumbersAre
<1>6. rax' = 0 /\ input' = Left /\ asked' = asked
  BY <1>4 DEF ReadEnd
<1>7. UNCHANGED <<Negative, Count, Left, Text>>
  BY <1>6 DEF Negative, Number, Count, Left, Text
<1>8. Value(Count)' = 0
  BY <1>5, <1>7 DEF Value
<1>9. 0 = Wrap(IF Negative' THEN -Value(Count)' ELSE Value(Count)')
  <2>1. 0 \in Word
    BY WordMaxAssumption DEF Word
  <2>2. -Value(Count)' = 0
    BY <1>8, OppositeOfZero
  <2> QED  BY <1>8, <2>1, <2>2, WrapOfWord
<1> QED  BY <1>1, <1>6, <1>7, <1>8, <1>9 DEF NumberRead

LEMMA AddKeeps ==
    ASSUME Counted, Calling, Number \in Seq(Char), AddDigit
    PROVE  asked.input \in Seq(Char) /\ pc = "writer_loop" /\ asked.name = "getint"
           /\ output = asked.output /\ Adding'
<1>1. /\ asked.input \in Seq(Char) /\ pc = "writer_loop" /\ asked.name = "getint"
      /\ output = asked.output /\ Adding
  BY DEF Calling, AddDigit, OnStack
<1>2. /\ rax' = Wrap(Top[2] * r14) /\ r13' = Wrap(r13 + Wrap(Top[2] * r14)) /\ r14' = Wrap(r14 * 10)
      /\ r12' = r12 + 1 /\ stack' = Popped /\ r12 # 20
      /\ UNCHANGED <<r15, input, asked>>
  BY DEF AddDigit
<1>3. /\ r12 \in Int /\ r12 <= 20 /\ Len(stack) = 2 + 20 - r12 /\ stack \in Seq(Item)
      /\ r13 \in Word /\ r14 \in Word
  BY <1>1 DEF Counted, TypeOK, DigitsCounted, OnStack, Item
<1> DEFINE h == Held
<1>4. h \in Nat \ {0} /\ Len(stack) = 2 + h /\ Held' = h - 1
  BY <1>2, <1>3 DEF Held
<1>5. UNCHANGED <<Negative, Number, Count, Left, Text>>
  BY <1>2 DEF Negative, Number, Count, Left, Text
<1>6. /\ r15 = 1 <=> Negative
      /\ h <= Count /\ Count <= Len(Number) /\ input = Left
      /\ \A i \in 1 .. h : stack[2 + i] = Pushed(Number[i] - Zero)
      /\ Wrap(r13 + r14 * Value(h)) = Value(Count)
  BY <1>1 DEF Adding
<1> HIDE DEF h
<1>7. Count \in 0 .. Len(Number)
  \* DigitCount chooses among them
  <2>1. \E n \in 0 .. Len(Number) : /\ \A i \in 1 .. n : Number[i] \in Digit
                                    /\ n < Len(Number) => Number[n + 1] \notin Digit
    BY DigitCountExists
  <2> QED  BY <2>1, DigitCountIs DEF Count
<1>8. h \in 1 .. Count /\ h - 1 \in 0 .. Count
  BY <1>4, <1>6, <1>7
<1>9. Top = Pushed(Number[h] - Zero)
  BY <1>4, <1>6 DEF Top
<1>10. Top[2] = Number[h] - Zero
  BY <1>9 DEF Pushed
<1>11. /\ Value(h) = Wrap((10 * Value(h - 1)) + (Number[h] - Zero))
       /\ Value(h - 1) \in Int /\ Number[h] - Zero \in Int
  <2>1. /\ Value(h) = Wrap((10 * Value(h - 1)) + (Number[h] - Zero))
        /\ Value(h - 1) \in Word
    BY <1>7, <1>8, NumbersAre
  <2>2. Number[h] \in Char
    BY <1>7, <1>8, ElementOfSeq
  <2>3. Number[h] \in Int
    BY <2>2, CharInt
  <2>4. Value(h - 1) \in Int
    BY <2>1 DEF Word
  <2>5. Number[h] - Zero \in Int
    BY <2>3 DEF Zero
  <2> QED  BY <2>1, <2>4, <2>5
<1>12. Wrap(r13' + r14' * Value(h - 1)) = Value(Count)
  <2>1. r13 \in Int /\ r14 \in Int
    BY <1>3 DEF Word
  <2>2. Wrap(Wrap(r13 + Wrap((Number[h] - Zero) * r14)) + Wrap(r14 * 10) * Value(h - 1))
          = Wrap(r13 + r14 * Wrap((10 * Value(h - 1)) + (Number[h] - Zero)))
    <3>1. Moves(Value(h - 1), Number[h] - Zero, r13, r14)
      BY <1>11, <2>1, DigitMoved
    <3> QED  BY <3>1 DEF Moves
  <2> QED  BY <1>2, <1>6, <1>10, <1>11, <2>2
<1>13. \A i \in 1 .. h - 1 : stack'[2 + i] = Pushed(Number[i] - Zero)
  <2>1. \A i \in 1 .. Len(stack) - 1 : stack'[i] = stack[i]
    BY <1>2, <1>3, <1>4 DEF Popped
  <2>2. \A i \in 1 .. h - 1 : 2 + i \in 1 .. Len(stack) - 1 /\ i \in 1 .. h
    BY <1>4
  <2> QED  BY <1>6, <2>1, <2>2
<1>14. h - 1 <= Count /\ Count <= Len(Number)
  BY <1>7, <1>8
<1>15. Wrap(r13' + r14' * Value(Held)') = Value(Count)'
  BY <1>4, <1>5, <1>12 DEF Value
<1> QED  BY <1>1, <1>2, <1>4, <1>5, <1>6, <1>13, <1>14, <1>15 DEF Adding

LEMMA SignKeeps ==
    ASSUME Counted, Calling, Number \in Seq(Char), SignNumber
    PROVE  asked.input \in Seq(Char) /\ pc = "writer_loop" /\ asked.name = "getint"
           /\ output = asked.output /\ NumberRead'
<1>1. /\ asked.input \in Seq(Char) /\ pc = "writer_loop" /\ asked.name = "getint"
      /\ output = asked.output /\ Adding /\ Held = 0
  BY DEF Calling, SignNumber, OnStack, Held
<1>2. rax' = (IF r15 = 1 THEN Wrap(-r13) ELSE r13) /\ UNCHANGED <<input, asked>>
  BY DEF SignNumber
<1>3. r13 \in Word /\ r14 \in Word
  BY DEF Counted, TypeOK
<1>4. Count \in 0 .. Len(Number)
  BY DigitCountExists, DigitCountIs DEF Count
<1>5. r13 = Value(Count)
  <2>1. Value(0) = 0
    BY <1>4, NumbersAre
  <2>2. r13 + r14 * 0 = r13
    BY <1>3 DEF Word
  <2>3. Wrap(r13 + r14 * Value(0)) = Value(Count)
    BY <1>1 DEF Adding
  <2> QED  BY <1>3, <2>1, <2>2, <2>3, WrapOfWord
<1>6. UNCHANGED <<Negative, Number, Count, Left, Text>>
  BY <1>2 DEF Negative, Number, Count, Left, Text
<1>7. Value(Count)' = Value(Count)
  BY <1>6 DEF Value
<1>8. rax' = Wrap(IF Negative THEN -Value(Count) ELSE Value(Count))
  <2>1. r15 = 1 <=> Negative
    BY <1>1 DEF Adding
  <2> QED  BY <1>2, <1>3, <1>5, <2>1, WrapOfWord
<1>9. input = Left
  BY <1>1 DEF Adding
<1> QED  BY <1>1, <1>2, <1>6, <1>7, <1>8, <1>9 DEF NumberRead
-----------------------------------------------------------------------------
(* putint                                                                  *)

LEMMA ModuloUnique ==
    ASSUME NEW n \in Int, NEW m \in Nat \ {0}, NEW r \in 0 .. m - 1, NEW k \in Int, n = r + k * m
    PROVE  n % m = r
<1>1. PICK j \in Int : n % m = n + j * m
  BY ModuloIs
<1> DEFINE q == n % m
<1>2. q \in 0 .. m - 1 /\ q = n + j * m
  BY <1>1, ModuloBounds
<1> HIDE DEF q
<1>3. q - r = (k + j) * m
  BY <1>2
<1>4. q - r < m /\ -m < q - r
  BY <1>2
<1>5. k + j = 0
  BY <1>3, <1>4, Multiple
<1>6. q - r = 0
  BY <1>3, <1>5
<1>7. q = r
  BY <1>2, <1>6
<1> QED  BY <1>7 DEF q

\* The words that are not negative are divided as they are, and the least word
\* as its opposite.
LEMMA UnsignedIs == /\ \A n \in 0 .. WordMax : Unsigned(n) = n
                    /\ Unsigned(-WordMax - 1) = WordMax + 1
                    /\ Wrap(WordMax + 1) = -WordMax - 1
<1> DEFINE h == WordMax + 1
<1>1. h \in Nat \ {0} /\ WordCount = 2 * h /\ WordCount \in Nat \ {0} /\ WordMax = h - 1
  BY WordMaxAssumption, WordsPositive DEF WordCount
<1> HIDE DEF h
<1>2. ASSUME NEW n \in 0 .. WordMax PROVE Unsigned(n) = n
  <2>1. n \in 0 .. WordCount - 1 /\ n \in Int /\ n = n + 0 * WordCount
    BY <1>1
  <2>2. n % WordCount = n
    BY <1>1, <2>1, ModuloUnique
  <2> QED  BY <2>2 DEF Unsigned, WordCount
<1>3. Unsigned(-WordMax - 1) = WordMax + 1
  <2>1. -WordMax - 1 \in Int /\ h \in 0 .. WordCount - 1 /\ -WordMax - 1 = h + (-1) * WordCount
    BY <1>1
  <2>2. (-WordMax - 1) % WordCount = h
    BY <1>1, <2>1, ModuloUnique
  <2> QED  BY <2>2 DEF Unsigned, WordCount, h
<1>4. Wrap(WordMax + 1) = -WordMax - 1
  <2>1. 2 * h \in Int /\ 0 \in 0 .. WordCount - 1 /\ 2 * h = 0 + 1 * WordCount
    BY <1>1
  <2>2. (2 * h) % WordCount = 0
    BY <1>1, <2>1, ModuloUnique
  <2>3. WordMax + 1 \notin Word /\ WordMax + 1 + WordMax + 1 = 2 * h
    BY WordMaxAssumption DEF Word, h
  <2>4. Wrap(WordMax + 1) = ((2 * h) % WordCount) - WordMax - 1
    BY <2>3 DEF Wrap, WordCount
  <2> QED  BY <1>1, <2>2, <2>4
<1> QED  BY <1>2, <1>3, <1>4

\* The magnitude of a number is what putint divides first.
LEMMA MagnitudeIs ==
    ASSUME NEW n \in Word
    PROVE  /\ IF n < 0 THEN -n \in 0 .. WordMax + 1 /\ Unsigned(Wrap(-n)) = -n
              ELSE n \in 0 .. WordMax + 1 /\ Unsigned(n) = n
<1>1. n \in Int /\ -WordMax - 1 <= n /\ n <= WordMax /\ WordMax \in Nat
  BY WordMaxAssumption DEF Word
<1>2. CASE n >= 0
  BY <1>1, <1>2, UnsignedIs
<1>3. CASE n < 0 /\ n # -WordMax - 1
  <2>1. -n \in 0 .. WordMax /\ -n \in Word /\ -n \in 0 .. WordMax + 1
    BY <1>1, <1>3 DEF Word
  <2> QED  BY <1>3, <2>1, UnsignedIs, WrapOfWord
<1>4. CASE n = -WordMax - 1
  <2>1. -n = WordMax + 1 /\ n < 0
    BY <1>1, <1>4
  <2>2. Wrap(-n) = -WordMax - 1
    BY <2>1, UnsignedIs
  <2> QED  BY <1>1, <2>1, <2>2, UnsignedIs
<1> QED  BY <1>1, <1>2, <1>3, <1>4

\* Digits above the frame.
Holds(s) == /\ s \in Seq(Item) /\ Len(s) >= 2 /\ \A i \in 3 .. Len(s) : s[i] \in Digits

LEMMA HeldChars ==
    ASSUME NEW s, Holds(s)
    PROVE  HeldOf(s) \in Seq(Char) /\ Len(HeldOf(s)) = Len(s) - 2
<1>1. Len(s) \in Nat /\ Len(s) >= 2
  BY DEF Holds
<1>2. \A i \in 1 .. Len(s) - 2 : s[Len(s) + 1 - i][2] \in Char
  <2> SUFFICES ASSUME NEW i \in 1 .. Len(s) - 2 PROVE s[Len(s) + 1 - i][2] \in Char
    OBVIOUS
  <2>1. Len(s) + 1 - i \in 3 .. Len(s)
    BY <1>1
  <2>2. PICK d \in 0 .. Zero + 9 : s[Len(s) + 1 - i] = Pushed(d)
    BY <2>1 DEF Holds, Digits
  <2> QED  BY <2>2 DEF Pushed, Char, Zero
<1>3. HeldOf(s) \in [1 .. Len(s) - 2 -> Char] /\ Len(s) - 2 \in Nat
  BY <1>1, <1>2 DEF HeldOf
<1> QED  BY <1>3

\* The last digit pushed is the first to be written.
LEMMA PushHeld ==
    ASSUME NEW s, Holds(s), NEW d \in 0 .. Zero + 9, NEW t, t = Append(s, Pushed(d))
    PROVE  Holds(t) /\ HeldOf(t) = <<d>> \o HeldOf(s)
<1>1. s \in Seq(Item) /\ Len(s) \in Nat /\ Len(s) >= 2
  BY DEF Holds
<1>2. Pushed(d) \in Digits /\ Pushed(d) \in Item
  BY DEF Digits, Item
<1>3. /\ t \in Seq(Item) /\ Len(t) = Len(s) + 1 /\ t[Len(s) + 1] = Pushed(d)
      /\ \A i \in 1 .. Len(s) : t[i] = s[i]
  BY <1>1, <1>2
<1>4. Holds(t)
  BY <1>1, <1>2, <1>3 DEF Holds
<1>5. /\ HeldOf(s) \in Seq(Char) /\ Len(HeldOf(s)) = Len(s) - 2
      /\ HeldOf(t) \in Seq(Char) /\ Len(HeldOf(t)) = Len(s) - 1
  <2>1. HeldOf(s) \in Seq(Char) /\ Len(HeldOf(s)) = Len(s) - 2
    BY HeldChars
  <2>2. HeldOf(t) \in Seq(Char) /\ Len(HeldOf(t)) = Len(t) - 2
    BY <1>4, HeldChars
  <2> QED  BY <1>1, <1>3, <2>1, <2>2
<1>6. <<d>> \in Seq(Char) /\ Len(<<d>>) = 1 /\ <<d>>[1] = d
  BY DEF Char, Zero
<1> DEFINE c == <<d>> \o HeldOf(s)
<1>7. /\ c \in Seq(Char) /\ Len(c) = 1 + (Len(s) - 2)
      /\ \A i \in 1 .. 1 + (Len(s) - 2) : c[i] = IF i <= 1 THEN <<d>>[i] ELSE HeldOf(s)[i - 1]
  BY <1>5, <1>6, ConcatProperties
<1>8. \A i \in 1 .. Len(s) - 1 : HeldOf(t)[i] = c[i]
  <2> SUFFICES ASSUME NEW i \in 1 .. Len(s) - 1 PROVE HeldOf(t)[i] = c[i]
    OBVIOUS
  <2>1. HeldOf(t)[i] = t[Len(s) + 2 - i][2]
    <3>1. i \in 1 .. Len(t) - 2 /\ Len(t) + 1 - i = Len(s) + 2 - i
      BY <1>1, <1>3
    <3> QED  BY <3>1 DEF HeldOf
  <2>2. CASE i = 1
    <3>1. Len(s) + 2 - i = Len(s) + 1
      BY <1>1, <2>2
    <3>2. HeldOf(t)[i] = d
      BY <1>3, <2>1, <3>1 DEF Pushed
    <3> QED  BY <1>6, <1>7, <2>2, <3>2
  <2>3. CASE i # 1
    <3>1. i - 1 \in 1 .. Len(s) - 2 /\ Len(s) + 1 - (i - 1) = Len(s) + 2 - i
          /\ Len(s) + 2 - i \in 1 .. Len(s) /\ i \in 1 .. 1 + (Len(s) - 2) /\ ~(i <= 1)
      BY <1>1, <2>3
    <3>2. HeldOf(s)[i - 1] = s[Len(s) + 2 - i][2]
      BY <3>1 DEF HeldOf
    <3> HIDE DEF c
    <3> QED  BY <1>3, <1>7, <2>1, <3>1, <3>2
  <2> QED  BY <2>2, <2>3
<1>9. Len(HeldOf(t)) = Len(c)
  <2> HIDE DEF c
  <2> QED  BY <1>1, <1>5, <1>7
<1>10. HeldOf(t) = c
  <2> HIDE DEF c
  <2> QED  BY <1>5, <1>7, <1>8, <1>9, SeqEqual
<1> QED  BY <1>4, <1>10

LEMMA PopHeld ==
    ASSUME NEW s, Holds(s), Len(s) > 2, NEW t, t = SubSeq(s, 1, Len(s) - 1)
    PROVE  /\ Holds(t) /\ HeldOf(s) = <<s[Len(s)][2]>> \o HeldOf(t)
           /\ s[Len(s)][2] \in Char
<1>1. s \in Seq(Item) /\ Len(s) \in Nat /\ Len(s) \in 3 .. Len(s)
  BY DEF Holds
<1>2. PICK d \in 0 .. Zero + 9 : s[Len(s)] = Pushed(d)
  BY <1>1 DEF Holds, Digits
<1>3. /\ t \in Seq(Item) /\ Len(t) = Len(s) - 1
      /\ \A i \in 1 .. Len(s) - 1 : t[i] = s[i]
  BY <1>1
<1>4. Holds(t)
  <2>1. \A i \in 3 .. Len(s) - 1 : i \in 3 .. Len(s) /\ i \in 1 .. Len(s) - 1
    BY <1>1
  <2> QED  BY <1>1, <1>3, <2>1 DEF Holds
<1>5. s = Append(t, Pushed(d))
  <2>1. Pushed(d) \in Item
    BY DEF Item, Digits
  <2> DEFINE u == Append(t, Pushed(d))
  <2>2. u \in Seq(Item) /\ Len(u) = Len(s) /\ \A i \in 1 .. Len(s) : u[i] = s[i]
    BY <1>1, <1>2, <1>3, <2>1
  <2> HIDE DEF u
  <2>3. u = s
    BY <1>1, <2>2, SeqEqual
  <2> QED  BY <2>3 DEF u
<1>6. HeldOf(s) = <<d>> \o HeldOf(t)
  BY <1>4, <1>5, PushHeld
<1>7. s[Len(s)][2] = d /\ d \in Char
  BY <1>2 DEF Pushed, Char, Zero
<1> QED  BY <1>4, <1>6, <1>7

LEMMA NoneHeld == ASSUME NEW s, Holds(s), Len(s) = 2 PROVE HeldOf(s) = <<>>
<1>1. HeldOf(s) \in Seq(Char) /\ Len(HeldOf(s)) = Len(s) - 2
  BY HeldChars
<1> QED  BY <1>1, EmptySeq

LEMMA StackHolds == ASSUME Counted, pc \in OnStack PROVE Holds(stack) /\ Len(stack) = 22 - r12
  BY DEF Counted, TypeOK, OnStack, DigitsCounted, OverFrame, Holds, Item

\* The digits of a number of which putint divides the magnitude.
LEMMA MagnitudeDigits ==
    ASSUME asked.arg \in Word, asked.output \in Seq(Char)
    PROVE  /\ Magnitude \in 0 .. WordMax + 1 /\ Signed \in Seq(Char)
           /\ ConsoleSpec!Digits[Magnitude] \in Seq(Char)
<1>1. Magnitude \in 0 .. WordMax + 1
  BY MagnitudeIs DEF Magnitude
<1>2. Signed \in Seq(Char)
  <2>1. Minus \in Char
    BY DEF Minus, Char
  <2> QED  BY <2>1 DEF Signed
<1> QED  BY <1>1, <1>2, DigitsAre DEF DigitsUpTo

LEMMA PutintStarts ==
    ASSUME Counted, NEW n \in Numbers, Putint(n)
    PROVE  asked'.name = "putint" /\ asked'.arg = n /\ asked'.input = input /\ asked'.output = output
           /\ input' = input /\ Dividing'
<1>1. /\ asked' = [name |-> "putint", arg |-> n, input |-> input, output |-> output, rax |-> rax]
      /\ stack' = Frame /\ input' = input
      /\ r13' = (IF n < 0 THEN Wrap(-n) ELSE n)
      /\ output' = (IF n < 0 THEN Append(output, Minus) ELSE output)
  BY DEF Putint, Call
<1>2. n \in Word /\ output \in Seq(Char)
  BY ArgumentsAssumption DEF Counted, TypeOK
<1>3. Magnitude' = (IF n < 0 THEN -n ELSE n) /\ Signed' = output'
  BY <1>1 DEF Magnitude, Signed
<1>4. Unsigned(r13') = Magnitude' /\ Magnitude' \in 0 .. WordMax + 1
  BY <1>1, <1>2, <1>3, MagnitudeIs
<1>5. HeldDigits' = <<>>
  <2>1. Holds(Frame) /\ Len(Frame) = 2
    BY DEF Holds, Frame, Item
  <2> QED  BY <1>1, <2>1, NoneHeld DEF HeldDigits
<1>6. ConsoleSpec!Digits[Magnitude'] \in Seq(Char)
  BY <1>4, DigitsAre DEF DigitsUpTo
<1>7. ConsoleSpec!Digits[Magnitude'] \o <<>> = ConsoleSpec!Digits[Magnitude']
  BY <1>6, ConcatEmptySeq
<1>8. Unsigned(r13)' = Unsigned(r13')
  BY DEF Unsigned
<1> QED  BY <1>1, <1>3, <1>4, <1>5, <1>7, <1>8 DEF Dividing

LEMMA DivideKeeps ==
    ASSUME Counted, Calling, Divide
    PROVE  /\ asked.input \in Seq(Char) /\ asked.name = "putint" /\ asked.arg \in Numbers
           /\ input = asked.input
           /\ (pc' = "putint_loop" /\ Dividing') \/ (pc' = "putint_2loop" /\ Writing')
<1>1. /\ asked.input \in Seq(Char) /\ pc = "putint_loop" /\ asked.name = "putint"
      /\ asked.arg \in Word /\ asked.arg \in Numbers /\ input = asked.input /\ Dividing
      /\ asked.output \in Seq(Char)
  BY ArgumentsAssumption DEF Calling, Divide, OnStack
<1> DEFINE u == Unsigned(r13)
           d == (u % 10) + Zero
           D == ConsoleSpec!Digits
           H == HeldDigits
<1>2. /\ r13' = u \div 10 /\ stack' = Append(stack, Pushed(d))
      /\ pc' = (IF r13' > 0 THEN "putint_loop" ELSE "putint_2loop")
      /\ output' = output /\ asked' = asked
  BY <1>1 DEF Divide
<1>3. u \in 0 .. WordMax + 1 /\ u \in Nat /\ output = Signed /\ D[Magnitude] = D[u] \o H
  BY <1>1, WordMaxAssumption DEF Dividing
<1>4. Holds(stack) /\ H \in Seq(Char)
  <2>1. Holds(stack)
    BY <1>1, StackHolds DEF OnStack
  <2> QED  BY <2>1, HeldChars DEF HeldDigits
<1>5. d \in 0 .. Zero + 9 /\ d \in Char
  <2>1. u % 10 \in 0 .. 9
    BY <1>3, TenthOf
  <2> HIDE DEF u
  <2> QED  BY <2>1 DEF Zero, Char
<1>6. HeldDigits' = <<d>> \o H
  BY <1>2, <1>4, <1>5, PushHeld DEF HeldDigits
<1>7. UNCHANGED <<Signed, Magnitude>>
  BY <1>2 DEF Signed, Magnitude
<1>8. D[u] = DigitsFrom(D, u) /\ D[u] \in Seq(Char)
  BY <1>3, DigitsAre DEF DigitsUpTo
<1>9. u \div 10 \in Nat /\ (u >= 10 => u \div 10 < u) /\ (u < 10 => u \div 10 = 0)
      /\ (u >= 10 => u \div 10 > 0)
  BY <1>3
<1>10. CASE u < 10
  <2>1. u % 10 = u
    <3> HIDE DEF u
    <3>1. u \in 0 .. 9 /\ \A i \in 0 .. 9 : i % 10 = i
      BY <1>3, <1>10
    <3> QED  BY <3>1
  <2>2. D[u] = <<d>>
    <3>1. D[u] = <<Zero + u>> /\ Zero + u = u + Zero
      BY <1>3, <1>8, <1>10 DEF DigitsFrom, Zero
    <3> QED  BY <2>1, <3>1
  <2>3. D[Magnitude] = HeldDigits'
    BY <1>3, <1>6, <2>2
  <2>4. Writing'
    BY <1>2, <1>3, <1>7, <2>3 DEF Writing
  <2>5. pc' = "putint_2loop"
    BY <1>2, <1>9, <1>10
  <2> QED  BY <1>1, <2>4, <2>5
<1>11. CASE u >= 10
  <2>1. u \div 10 \in 0 .. WordMax /\ u \div 10 \in 0 .. WordMax + 1
    BY <1>3, <1>9, <1>11, WordMaxAssumption
  <2>2. Unsigned(r13)' = u \div 10
    BY <1>2, <2>1, UnsignedIs DEF Unsigned
  <2>3. D[u] = Append(D[u \div 10], d) /\ D[u \div 10] \in Seq(Char)
    <3>1. D[u] = Append(D[u \div 10], Zero + (u % 10))
      BY <1>3, <1>8, <1>11 DEF DigitsFrom
    <3>2. u % 10 \in Nat
      BY <1>3, TenthOf
    <3>3. Zero + (u % 10) = d
      BY <3>2 DEF Zero
    <3> QED  BY <2>1, <3>1, <3>3, DigitsAre DEF DigitsUpTo
  <2>4. D[Magnitude] = D[u \div 10] \o HeldDigits'
    <3>1. D[u] = D[u \div 10] \o <<d>>
      BY <1>5, <2>3, AppendIsConcat
    <3>2. <<d>> \in Seq(Char)
      BY <1>5
    <3> DEFINE b == D[u \div 10]
    <3>3. (b \o <<d>>) \o H = b \o (<<d>> \o H)
      <4>1. b \in Seq(Char)
        BY <2>3
      <4> HIDE DEF b
      <4> QED  BY <1>4, <3>2, <4>1, ConcatAssociative
    <3> QED  BY <1>3, <1>6, <3>1, <3>3
  <2>5. pc' = "putint_loop"
    BY <1>2, <1>9, <1>11
  <2>6. Dividing'
    BY <1>2, <1>3, <1>7, <2>1, <2>2, <2>4 DEF Dividing
  <2> QED  BY <1>1, <2>5, <2>6
<1> QED  BY <1>3, <1>10, <1>11

LEMMA WriteKeeps ==
    ASSUME Counted, Calling, WriteDigit
    PROVE  /\ asked.input \in Seq(Char) /\ asked.name = "putint" /\ asked.arg \in Numbers
           /\ input = asked.input
           /\ (pc' = "putint_2loop" /\ Writing') \/ (pc' = "int_end" /\ NumberWritten')
<1>1. /\ asked.input \in Seq(Char) /\ pc = "putint_2loop" /\ asked.name = "putint"
      /\ asked.arg \in Word /\ asked.arg \in Numbers /\ input = asked.input /\ Writing
      /\ asked.output \in Seq(Char)
  BY ArgumentsAssumption DEF Calling, WriteDigit, OnStack
<1>2. /\ output' = Append(output, Top[2]) /\ stack' = Popped /\ r12' = r12 + 1 /\ asked' = asked
      /\ pc' = IF r12' # 20 THEN "putint_2loop" ELSE "int_end"
  BY <1>1 DEF WriteDigit
<1>3. Holds(stack) /\ Len(stack) = 22 - r12 /\ r12 \in Int /\ r12 < 20
  BY <1>1, StackHolds DEF OnStack, Counted, TypeOK
<1>4. /\ Holds(stack') /\ HeldDigits = <<Top[2]>> \o HeldDigits' /\ Top[2] \in Char
      /\ Len(stack') = 22 - r12'
  <2>1. Len(stack) > 2
    BY <1>3
  <2>2. /\ Holds(stack') /\ HeldDigits = <<Top[2]>> \o HeldDigits' /\ Top[2] \in Char
    BY <1>2, <1>3, <2>1, PopHeld DEF Popped, Top, HeldDigits
  <2>3. Len(stack') = Len(stack) - 1
    BY <1>2, <1>3, <2>1 DEF Popped, Holds
  <2> QED  BY <1>2, <1>3, <2>2, <2>3
<1>5. output \in Seq(Char) /\ <<Top[2]>> \in Seq(Char) /\ HeldDigits' \in Seq(Char)
  BY <1>4, HeldChars DEF Counted, TypeOK, HeldDigits
<1>6. output' = output \o <<Top[2]>> /\ output' \in Seq(Char)
  BY <1>2, <1>4, <1>5, AppendIsConcat
<1>7. output' \o HeldDigits' = output \o HeldDigits
  <2>1. (output \o <<Top[2]>>) \o HeldDigits' = output \o (<<Top[2]>> \o HeldDigits')
    BY <1>5, ConcatAssociative
  <2> QED  BY <1>4, <1>6, <2>1
<1>8. UNCHANGED <<Signed, Magnitude>>
  BY <1>2 DEF Signed, Magnitude
<1>9. Writing'
  BY <1>1, <1>7, <1>8 DEF Writing
<1>10. CASE r12' = 20
  <2>1. HeldDigits' = <<>>
    BY <1>4, <1>10, NoneHeld DEF HeldDigits
  <2>2. output' \o <<>> = output'
    BY <1>6, ConcatEmptySeq
  <2>3. NumberWritten'
    BY <1>9, <2>1, <2>2 DEF Writing, NumberWritten
  <2> QED  BY <1>1, <1>2, <1>10, <2>3
<1>11. CASE r12' # 20
  BY <1>1, <1>2, <1>9, <1>11
<1> QED  BY <1>10, <1>11
-----------------------------------------------------------------------------
(* The refinement                                                          *)

LEMMA NumberChars == ASSUME asked.input \in Seq(Char) PROVE Number \in Seq(Char)
  BY DEF Number, Negative

LEMMA NextCalling == Counted /\ Ended /\ Calling /\ [Next]_vars => Calling'
<1> SUFFICES ASSUME Counted, Ended, Calling, [Next]_vars PROVE Calling'
  OBVIOUS
<1> USE DEF Calling, OnStack
<1>1. CASE Getchar \/ \E c \in Characters : Putchar(c)
  BY <1>1 DEF Getchar, Putchar, Call
<1>2. CASE Getint
  <2>1. /\ asked' = [name |-> "getint", arg |-> 0, input |-> input, output |-> output, rax |-> rax]
        /\ pc' = "reader_loop" /\ r12' = 20 /\ r13' = 0 /\ r15' = 0
        /\ input' = input /\ output' = output
    BY <1>2 DEF Getint, Call
  <2>2. input \in Seq(Char) /\ output \in Seq(Char)
    BY DEF Counted, TypeOK
  <2>3. Held' = 0
    BY <2>1 DEF Held
  <2>4. input = SubSeq(input, 1, Len(input)) /\ 0 <= Len(input) /\ 0 + 1 = 1 /\ 1 .. 0 = {}
    BY <2>2, SubSeqFull
  <2>5. Pushing'
    BY <2>1, <2>3, <2>4 DEF Pushing
  <2> QED  BY <2>1, <2>2, <2>5
<1>3. CASE \E n \in Numbers : Putint(n)
  <2>1. PICK n \in Numbers : Putint(n)
    BY <1>3
  <2>2. input \in Seq(Char) /\ output \in Seq(Char) /\ pc' = "putint_loop"
    BY <2>1 DEF Counted, TypeOK, Putint
  <2> QED  BY <2>1, <2>2, PutintStarts
<1>4. CASE ReadEnd
  <2>1. pc' = "int_end" /\ UNCHANGED <<asked, output>>
    BY <1>4 DEF ReadEnd
  <2> QED  BY <1>4, <2>1, EndEnds
<1>5. CASE ReadMinus
  <2>1. pc' = pc /\ UNCHANGED <<asked, output>>
    BY <1>5 DEF ReadMinus
  <2> QED  BY <1>5, <2>1, MinusPushes
<1>6. CASE ReadDigit
  <2>1. pc' = pc /\ UNCHANGED <<asked, output>>
    BY <1>6 DEF ReadDigit
  <2> QED  BY <1>6, <2>1, DigitPushes
<1>7. CASE ReadOther
  <2>1. pc' = "writer_loop" /\ UNCHANGED <<asked, output>>
    BY <1>7 DEF ReadOther
  <2> QED  BY <1>7, <2>1, OtherEnds
<1>8. CASE AddDigit
  <2>1. pc' = pc /\ UNCHANGED <<asked, output>> /\ Number \in Seq(Char)
    BY <1>8, NumberChars DEF AddDigit
  <2> QED  BY <1>8, <2>1, AddKeeps
<1>9. CASE SignNumber
  <2>1. pc' = "int_end" /\ UNCHANGED <<asked, output>> /\ Number \in Seq(Char)
    BY <1>9, NumberChars DEF SignNumber
  <2> QED  BY <1>9, <2>1, SignKeeps
<1>10. CASE Divide
  <2>1. UNCHANGED <<asked, input>>
    BY <1>10 DEF Divide
  <2> QED  BY <1>10, <2>1, DivideKeeps DEF Divide
<1>11. CASE WriteDigit
  <2>1. UNCHANGED <<asked, input>>
    BY <1>11 DEF WriteDigit
  <2> QED  BY <1>11, <2>1, WriteKeeps DEF WriteDigit
<1>12. CASE Leave
  BY <1>12 DEF Leave
<1>13. CASE UNCHANGED vars
  <2>1. UNCHANGED <<pc, asked, input, output, stack, rax, r12, r13, r14, r15>>
    BY <1>13 DEF vars, regs
  <2>2. UNCHANGED <<Pushing, Adding, NumberRead, Dividing, Writing, NumberWritten>>
    BY <2>1 DEF Pushing, Adding, NumberRead, Dividing, Writing, NumberWritten, Held, Negative, Number,
                Count, Text, Value, Left, Magnitude, Signed, HeldDigits, HeldOf, Unsigned
  <2> QED  BY <2>1, <2>2
<1> QED  BY <1>1, <1>2, <1>3, <1>4, <1>5, <1>6, <1>7, <1>8, <1>9, <1>10, <1>11, <1>12, <1>13
         DEF Next, Step

\* What the caller sees.
Seen == <<IF Done THEN input ELSE asked.input, IF Done THEN output ELSE asked.output,
          IF Done THEN rax ELSE asked.rax>>

\* A call that comes back has done one step of Console.
LEMMA LeaveSteps ==
    ASSUME Counted, Calling, Leave, pc' = "caller"
    PROVE  ConsoleSpec!Next
<1>1. pc = "int_end" /\ UNCHANGED <<rax, input, output, asked>> /\ rax \in Word
  BY DEF Leave, regs, Counted, TypeOK
<1>2. Done' /\ ~Done
  BY <1>1 DEF Done
<1>3. CASE asked.name = "getint"
  <2>1. asked.input \in Seq(Char) /\ output = asked.output /\ NumberRead
    BY <1>1, <1>3 DEF Calling, OnStack
  <2>2. Number \in Seq(Char) /\ Count \in 0 .. Len(Number)
    BY <2>1, NumberChars, DigitCountExists, DigitCountIs DEF Count
  <2>3. Value(Count) = ConsoleSpec!NumberOf(Text)
    BY <2>2, NumbersAre
  <2>4. ConsoleSpec!GetInt
    BY <1>1, <1>2, <2>1, <2>3, ConsoleWords
       DEF ConsoleSpec!GetInt, NumberRead, Negative, Number, Count, Text, Left
  <2> QED  BY <2>4 DEF ConsoleSpec!Next
<1>4. CASE asked.name = "putint"
  <2>1. /\ asked.output \in Seq(Char) /\ asked.arg \in Numbers /\ input = asked.input
        /\ NumberWritten
    BY <1>1, <1>4 DEF Calling, OnStack
  <2>2. PICK n \in Numbers : n = asked.arg
    BY <2>1
  <2>3. n \in Word
    BY ArgumentsAssumption
  <2>4. output = asked.output \o ConsoleSpec!Decimal(n)
    <3> DEFINE d == ConsoleSpec!Digits[Magnitude]
    <3>1. d \in Seq(Char) /\ output = Signed \o d
      BY <2>1, <2>2, <2>3, MagnitudeDigits DEF NumberWritten
    <3>2. Magnitude = IF n < 0 THEN -n ELSE n
      BY <2>2 DEF Magnitude
    <3>3. CASE n < 0
      <4>1. ConsoleSpec!Decimal(n) = <<Minus>> \o d
        BY <3>2, <3>3, ConsoleWords DEF ConsoleSpec!Decimal
      <4>2. Minus \in Char /\ <<Minus>> \in Seq(Char)
        BY DEF Minus, Char
      <4>3. Signed = asked.output \o <<Minus>>
        BY <2>1, <2>2, <3>3, <4>2, AppendIsConcat DEF Signed
      <4>4. (asked.output \o <<Minus>>) \o d = asked.output \o (<<Minus>> \o d)
        <5> DEFINE m == <<Minus>>
                   o == asked.output
        <5>1. m \in Seq(Char) /\ o \in Seq(Char) /\ d \in Seq(Char)
          BY <2>1, <3>1, <4>2
        <5> HIDE DEF m, o, d
        <5>2. (o \o m) \o d = o \o (m \o d)
          BY <5>1, ConcatAssociative
        <5> QED  BY <5>2 DEF m, o
      <4> QED  BY <3>1, <4>1, <4>3, <4>4
    <3>4. CASE ~(n < 0)
      <4>1. ConsoleSpec!Decimal(n) = d
        BY <3>2, <3>4 DEF ConsoleSpec!Decimal
      <4>2. Signed = asked.output
        BY <2>2, <3>4 DEF Signed
      <4> QED  BY <3>1, <4>1, <4>2
    <3> QED  BY <3>3, <3>4
  <2>5. ConsoleSpec!PutInt(n)
    BY <1>1, <1>2, <2>1, <2>4, ConsoleWords DEF ConsoleSpec!PutInt
  <2> QED  BY <2>5 DEF ConsoleSpec!Next
<1> QED  BY <1>1, <1>3, <1>4 DEF Calling, OnStack

LEMMA NextConsole ==
    Counted /\ Ended /\ Calling /\ [Next]_vars => [ConsoleSpec!Next]_(ConsoleSpec!vars)
<1> SUFFICES ASSUME Counted, Ended, Calling, [Next]_vars
             PROVE  ConsoleSpec!Next \/ UNCHANGED Seen
  BY DEF ConsoleSpec!vars, Seen
<1>1. CASE Getchar
  <2>1. /\ pc = "caller" /\ pc' = "caller" /\ rax' = Read /\ input' = Unread /\ output' = output
    BY <1>1 DEF Getchar, Call
  <2>2. ConsoleSpec!GetChar
    BY <2>1 DEF ConsoleSpec!GetChar, ConsoleSpec!Rest, Done, Read, Unread
  <2> QED  BY <2>2 DEF ConsoleSpec!Next
<1>2. ASSUME NEW c \in Characters, Putchar(c) PROVE ConsoleSpec!Next
  <2>1. /\ pc = "caller" /\ pc' = "caller" /\ rax' = c % EaxSize /\ input' = input
        /\ output' = Append(output, c % 256)
    BY <1>2 DEF Putchar, Call
  <2>2. ConsoleSpec!PutChar(c)
    BY <2>1 DEF ConsoleSpec!PutChar, Done
  <2> QED  BY <2>2 DEF ConsoleSpec!Next
<1>3. CASE Getint \/ \E n \in Numbers : Putint(n)
  <2>1. /\ pc = "caller" /\ pc' # "caller"
        /\ asked'.input = input /\ asked'.output = output /\ asked'.rax = rax
    BY <1>3 DEF Getint, Putint, Call
  <2> QED  BY <2>1 DEF Seen, Done
<1>4. CASE ReadEnd \/ ReadMinus \/ ReadDigit \/ ReadOther \/ AddDigit \/ SignNumber \/ Divide \/ WriteDigit
  <2>1. pc # "caller" /\ pc' # "caller" /\ asked' = asked
    BY <1>4 DEF ReadEnd, ReadMinus, ReadDigit, ReadOther, AddDigit, SignNumber, Divide, WriteDigit
  <2> QED  BY <2>1 DEF Seen, Done
<1>5. CASE Leave
  <2>1. CASE pc' = "caller"
    BY <1>5, <2>1, LeaveSteps
  <2>2. CASE pc' # "caller"
    <3>1. pc # "caller" /\ asked' = asked
      BY <1>5 DEF Leave
    <3> QED  BY <2>2, <3>1 DEF Seen, Done
  <2> QED  BY <2>1, <2>2
<1>6. CASE UNCHANGED vars
  BY <1>6 DEF vars, regs, Seen, Done
<1> QED  BY <1>1, <1>2, <1>3, <1>4, <1>5, <1>6 DEF Next, Step

\* When no digit is the last thing to be read, the four functions do what their
\* callers are promised, for words of any size, any input and any arguments.
THEOREM BuiltinsDoTheirWork ==
    ASSUME \A s \in Inputs : Terminated(s)
    PROVE  Spec => ImplementsConsole
<1>1. Init => Ended /\ Calling /\ ConsoleSpec!Init
  BY InitEnded DEF Init, Calling, OnStack, ConsoleSpec!Init, Done
<1> QED
  BY <1>1, InitCounted, NextCounted, NextEnded, NextCalling, NextConsole, PTL
     DEF Spec, ImplementsConsole, ConsoleSpec!Spec
=============================================================================
