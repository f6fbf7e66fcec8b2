------------------------------ MODULE MCBuiltins ------------------------------
(***************************************************************************)
(* Inputs and arguments for Builtins: words of ten bits.                   *)
(***************************************************************************)
EXTENDS Builtins

Texts(chars, n) == UNION {[1 .. k -> chars] : k \in 0 .. n}

\* A minus, two digits, a blank; 51 is the digit 3.
Short == {s \in Texts({45, 48, 51, 32}, 4) : Terminated(s)}
\* Numbers that overflow ten bits, with leading zeros, a zero byte, a letter.
Long == { <<57, 57, 57, 57, 10>>, <<45, 53, 49, 50, 10>>, <<53, 49, 50, 10>>, <<45, 53, 49, 51, 10>>,
          <<48, 48, 49, 48, 50, 51, 65, 55, 32>>, <<45, 45, 53, 32>>, <<0, 45, 0, 49, 32>>,
          [i \in 1 .. 23 |-> IF i = 23 THEN 10 ELSE 48 + (i % 10)] }
TerminatedInputs == Short \cup Long
AnyInputs == Texts({45, 51, 32}, 3)

SomeCharacters == {65, -1, 300}
SomeNumbers == {-512, -511, -100, -10, -9, -1, 0, 1, 9, 10, 11, 99, 100, 101, 511}
AllNumbers == Word
=============================================================================
