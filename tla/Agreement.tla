------------------------------ MODULE Agreement ------------------------------
(***************************************************************************)
(* What the code of Machine does, against what its program means: the run  *)
(* that module Semantics gives to the program is picked with the program.  *)
(***************************************************************************)
EXTENDS Discipline, Semantics
LOCAL INSTANCE SequencesExt

VARIABLE expected  \* the run that the program means

AgreementInit == DisciplineInit /\ expected = <<>>
LoadMeaning == WatchedLoad /\ expected' = Meaning(source, stdin)
StepOn == WatchedStep /\ UNCHANGED expected

AgreementNext == LoadMeaning \/ StepOn

AgreementSpec == AgreementInit /\ [][AgreementNext]_<<vars, intact, expected>>
\* A processor goes on as long as it can.
FairSpec == AgreementSpec /\ WF_<<vars, intact, expected>>(StepOn)
-----------------------------------------------------------------------------
Defined == Loaded /\ expected.state # "undefined"

GlobalWord(x, k) == memory[GlobalVars + Get(code.globals, x).addr + WordSize * k]

\* The code does what the program means: it never writes anything else, it stops
\* for a division exactly where the program has no quotient, and when it exits
\* it has written everything, it answers the value of main and the global
\* variables hold what they should.  Its elements are where variables are, so
\* nothing ever spoils the stack.  (treeReader.c and codeWriter.c as a whole:
\* the addresses, the order of the operands on the stack, the jumps.)
Agrees ==
    Defined =>
    /\ IsPrefix(stdout, expected.out)
    /\ intact /\ \A a \in Explicit : InFrames(a)
    /\ status # "crashed"
    /\ status = "fault" => expected.state = "fault" /\ stdout = expected.out
    /\ status = "exited" =>
         /\ expected.state = "run" /\ stdout = expected.out
         /\ regs["rdi"] % 256 = expected.value % 256
         /\ \A i \in DOMAIN source.globals :
              LET x == source.globals[i]
              IN \A k \in 0 .. x.length - 1 : GlobalWord(x.ident, k) = expected.word[<<0, x.ident, k>>]

\* The code of every program of the runs comes to an end: the jumps of a loop
\* leave it when its condition tells so.
Halts == Loaded ~> status \notin {"source", "running"}
=============================================================================
