----------------------------- MODULE DriverProofs -----------------------------
(***************************************************************************)
(* Proofs about Driver, for every command line, every set of sources and   *)
(* any number of reports: what the exit code and the output file tell, the *)
(* name of that file, and the line that a report shows.                    *)
(***************************************************************************)
EXTENDS Driver, SequenceTheorems, WellFoundedInduction, TLAPS

Reported == {"semantic", "warn"}

\* Up to the parser nothing is reported, and nothing is decided.
Started == told = {} /\ err = {} /\ abr = None /\ asm = "old" /\ status = None

\* An option was not taken, though every documented one but the short w is.
Refused == \E o \in Range(command.options) : o \notin Documented \ {<<"short", "w">>}

\* In the checks err holds the levels that were reported, and a compiler that
\* stops after the tree is not there.
Checking == told = err /\ told \subseteq Reported /\ ~opt.only_tree /\ asm = "old" /\ status = None

\* A report of ST_resolve_from_node is being printed: the exit code is chosen, and
\* the output is cut short if it was the generator that found the name.
Leaving == "semantic" \in told /\ told \subseteq Reported /\ asm \in {"old", "partial"} /\ status = 2

Told ==
    /\ "semantic" \in told => status = 2
    /\ "parse" \in told => status = 1
    /\ status = 0 => told \subseteq {"warn", "help"} \/ (told = {"critical"} /\ opt.only_tree)
    /\ "help" \in told /\ status = 1 => Refused
    /\ asm = "complete" <=> status = 0 /\ ~opt.only_tree /\ ~opt.semantic /\ "help" \notin told
    /\ asm \in {"old", "partial", "complete"}
    /\ asm = "partial" => status = 2 /\ "semantic" \in told /\ "system" \notin told

\* The output and the handle on it: touched once opened, closed by the handler.
Handle ==
    /\ pc # "ended" => out = IF asm = "old" THEN None ELSE "open"
    /\ pc = "ended" => out = IF asm = "old" THEN None ELSE "closed"

\* What each phase has told so far.
Phases ==
    /\ command \in Commands
    /\ pc \in {"options", "open", "parse"} => Started
    /\ pc = "options" => next \in Nat \ {0}
    /\ pc = "tree" => /\ asm = "old" /\ status = None
                      /\ told = {} \/ (told = {"critical"} /\ abr = None)
    /\ pc \in {"symbols", "checks"} => Checking
    /\ pc \in {"rewind", "lines"} => \/ back \in {"symbols", "checks"} /\ Checking
                                     \/ back = "exit" /\ Leaving
    /\ pc \in {"output", "generate"} =>
         told \subseteq {"warn"} /\ ~opt.only_tree /\ ~opt.semantic /\ status = None
    /\ pc = "output" => asm = "old"
    /\ pc = "generate" => asm = "partial"
    /\ pc \in {"exit", "ended"} => Told
-----------------------------------------------------------------------------
\* EXIT_CODE of the values that main has.
LEMMA ExitCodes ==
  /\ ExitCode({"critical"}) = 3 /\ ExitCode({"parse"}) = 1 /\ ExitCode({"semantic"}) = 2
  /\ \A e \in SUBSET Reported : /\ ExitCode(e) = IF "semantic" \in e THEN 2 ELSE 0
                                /\ IsFatal(e) <=> "semantic" \in e
  BY DEF ExitCode, IsFatal, Reported

\* getopt_long takes every documented option but the short w.
LEMMA DocumentedIsKnown ==
    \A o \in Documented \ {<<"short", "w">>} : Known(o)
  BY DEF Documented, Known, LongOptions, ShortOptions

LEMMA InitPhases == Init => Phases
  BY DEF Init, Phases, Started

\* main reads argv and never writes it.
LEMMA CommandKept == [Next]_vars => command' = command
  BY DEF Next, Step, Over, ReadOption, ReadPaths, OpenSource, Parsed, SyntaxError, StackFull,
         ParserExits, ShowTree, SymbolError, SymbolsDone, CheckError, CheckWarning, Undeclared,
         CodeErrorPrint, ChecksDone, OpenOutput, Generate, GenerateAborts, AtExit, Rewind,
         SkipLine, ReadPastEnd, ShowLine, vars

LEMMA NextPhases == Phases /\ [Next]_vars => Phases'
<1> SUFFICES ASSUME Phases, [Next]_vars PROVE Phases'
  OBVIOUS
<1> USE NoneAssumption DEF Phases
<1> command' = command /\ (Refused' <=> Refused)
  BY CommandKept DEF Refused
<1>1. CASE ReadOption
  <2>1. pc = "options" /\ Started
    BY <1>1 DEF ReadOption
  <2>2. err' = err /\ asm' = asm /\ abr' = abr /\ command' = command /\ next' = next + 1
    BY <1>1 DEF ReadOption
  <2>3. \/ pc' = "options" /\ told' = told /\ status' = status
        \/ /\ pc' = "exit" /\ told' = told \cup {"help"} /\ status' \in {0, 1}
           /\ status' = 1 => ~Known(command.options[next])
    BY <1>1, <2>1 DEF ReadOption, Exit
  <2>4. CASE pc' = "options" /\ told' = told /\ status' = status
    BY <2>1, <2>2, <2>4 DEF Started
  <2>5. CASE /\ pc' = "exit" /\ told' = told \cup {"help"} /\ status' \in {0, 1}
             /\ status' = 1 => ~Known(command.options[next])
    <3>1. told' = {"help"} /\ asm' = "old"
      BY <2>1, <2>2, <2>5 DEF Started
    <3>2. command.options[next] \in Range(command.options)
      <4>1. next \in 1 .. Len(command.options) /\ command.options \in Seq({"short", "long"} \X STRING)
        BY <1>1, CommandsAssumption DEF ReadOption
      <4> QED  BY <4>1 DEF Range
    <3>3. status' = 1 => Refused'
      BY <2>2, <2>5, <3>2, DocumentedIsKnown DEF Refused
    <3> QED BY <2>2, <2>5, <3>1, <3>3 DEF Told
  <2> QED BY <2>3, <2>4, <2>5
<1>2. CASE ReadPaths
  BY <1>2 DEF ReadPaths, report, Started
<1>3. CASE OpenSource
  <2>1. Started /\ asm' = asm /\ err' = err /\ abr' = abr
    BY <1>3 DEF OpenSource
  <2>2. \/ pc' = "parse" /\ told' = told /\ status' = status
        \/ pc' = "exit" /\ told' = told \cup {"system"} /\ status' = 3
    BY <1>3, ExitCodes DEF OpenSource, Exit
  <2>3. CASE pc' = "parse" /\ told' = told /\ status' = status
    BY <2>1, <2>3 DEF Started
  <2>4. CASE pc' = "exit" /\ told' = told \cup {"system"} /\ status' = 3
    <3>1. told' = {"system"} /\ asm' = "old"
      BY <2>1, <2>4 DEF Started
    <3> QED BY <2>4, <3>1 DEF Told
  <2> QED BY <2>2, <2>3, <2>4
<1>4. CASE Parsed
  BY <1>4 DEF Parsed, Started
<1>5. CASE SyntaxError
  <2>1. told' = {"parse"} /\ status' = 1 /\ asm' = "old" /\ pc' = "exit"
    BY <1>5, ExitCodes DEF SyntaxError, Exit, Started
  <2> QED BY <2>1 DEF Told
<1>6. CASE StackFull
  <2>1. Started /\ asm' = asm /\ status' = status /\ abr' = abr
    BY <1>6 DEF StackFull
  <2>2. pc' = "tree" /\ told' = {"critical"}
    BY <1>6, <2>1 DEF StackFull, Started
  <2>3. abr = None
    BY <1>6 DEF StackFull, Started
  <2> QED BY <2>1, <2>2, <2>3 DEF Started
<1>7. CASE ParserExits
  <2>1. told' = {"system"} /\ status' \in {1, 2} /\ asm' = "old" /\ pc' = "exit"
    BY <1>7 DEF ParserExits, Exit, Started
  <2> QED BY <2>1 DEF Told
<1>8. CASE ShowTree
  BY <1>8 DEF ShowTree, report, Exit, Checking, Told
<1>9. CASE SymbolsDone
  BY <1>9, ExitCodes DEF SymbolsDone, report, Exit, Checking, Told, Reported
<1>10. CASE ChecksDone
  <2>1. Checking
    BY <1>10 DEF ChecksDone
  <2>2. IsFatal(err) <=> "semantic" \in told
    BY <2>1, ExitCodes DEF Checking
  <2>3. ExitCode(err) = IF "semantic" \in told THEN 2 ELSE 0
    BY <2>1, ExitCodes DEF Checking
  <2>4. told' = told /\ asm' = "old" /\ opt' = opt
    BY <1>10, <2>1 DEF ChecksDone, report, Checking
  <2>5. CASE opt.semantic \/ IsFatal(err)
    <3>1. pc' = "exit" /\ status' = IF "semantic" \in told THEN 2 ELSE 0
      BY <1>10, <2>3, <2>5 DEF ChecksDone, Exit
    <3> QED BY <2>1, <2>2, <2>4, <2>5, <3>1 DEF Told, Checking, Reported
  <2>6. CASE ~(opt.semantic \/ IsFatal(err))
    <3>1. pc' = "output" /\ status' = status
      BY <1>10, <2>6 DEF ChecksDone
    <3> QED BY <2>1, <2>2, <2>4, <2>6, <3>1 DEF Checking, Reported
  <2> QED BY <2>5, <2>6
<1>11. CASE OpenOutput
  BY <1>11, ExitCodes DEF OpenOutput, Exit, Told
<1>12. CASE Generate
  BY <1>12 DEF Generate, report, Exit, Told
<1>13. CASE GenerateAborts
  BY <1>13 DEF GenerateAborts
<1>14. CASE AtExit
  BY <1>14 DEF AtExit, report, Told
<1>15. CASE SymbolError
  <2>1. /\ told' = told \cup {"semantic"} /\ err' = err \cup {"semantic"} /\ status' = status
        /\ opt' = opt /\ asm' = asm
        /\ pc' = "symbols" \/ (pc' = "rewind" /\ back' = "symbols")
    BY <1>15 DEF SymbolError, CodeErrorPrint
  <2> QED BY <1>15, <2>1 DEF SymbolError, Checking, Reported
<1>16. CASE CheckError
  <2>1. /\ told' = told \cup {"semantic"} /\ err' = err \cup {"semantic"} /\ status' = status
        /\ opt' = opt /\ asm' = asm
        /\ pc' = "checks" \/ (pc' = "rewind" /\ back' = "checks")
    BY <1>16 DEF CheckError, CodeErrorPrint
  <2> QED BY <1>16, <2>1 DEF CheckError, Checking, Reported
<1>17. CASE CheckWarning
  <2>1. /\ told' = told \cup {"warn"} /\ err' = err \cup {"warn"} /\ status' = status
        /\ opt' = opt /\ asm' = asm
        /\ pc' = "checks" \/ (pc' = "rewind" /\ back' = "checks")
    BY <1>17 DEF CheckWarning, CodeErrorPrint
  <2> QED BY <1>17, <2>1 DEF CheckWarning, Checking, Reported
<1>18. CASE Undeclared
  <2>1. /\ told' = told \cup {"semantic"} /\ status' = 2
        /\ opt' = opt /\ asm' = asm
        /\ pc' = "exit" \/ (pc' = "rewind" /\ back' = "exit")
    BY <1>18, ExitCodes DEF Undeclared, CodeErrorPrint
  <2>2. told \subseteq Reported /\ asm \in {"old", "partial"}
    BY <1>18 DEF Undeclared, Checking, Reported
  <2>3. Leaving'
    BY <2>1, <2>2 DEF Leaving, Reported
  <2> QED BY <2>1, <2>3 DEF Leaving, Told, Reported
<1>19. CASE Rewind
  BY <1>19 DEF Rewind, Checking, Leaving
<1>20. CASE SkipLine
  BY <1>20 DEF SkipLine, Checking, Leaving
<1>21. CASE ShowLine
  BY <1>21 DEF ShowLine, place, Checking, Leaving, Told, Reported
<1>22. CASE UNCHANGED vars
  BY <1>22 DEF vars, report, place, Started, Checking, Leaving, Told
<1> QED BY <1>1, <1>2, <1>3, <1>4, <1>5, <1>6, <1>7, <1>8, <1>9, <1>10, <1>11, <1>12, <1>13,
           <1>14, <1>15, <1>16, <1>17, <1>18, <1>19, <1>20, <1>21, <1>22
        DEF Next, Step, ReadPastEnd, Over

\* Whatever the command line and the program, a semantic error gives the exit
\* code 2 and a parse error 1; 0 is given after warnings or the help only, but for
\* the parser out of stack under -a, and 1 after the help only for an option that is
\* not documented, but for -w (main.c:52-86, error.h:51-56, parser.c:93-128).
THEOREM ExitCodeTells == Spec => []ExitTells
<1>1. Phases => ExitTells
  BY DEF Phases, Told, Refused, ExitTells
<1> QED BY <1>1, InitPhases, NextPhases, PTL DEF Spec

LEMMA NextHandle == Phases /\ Handle /\ [Next]_vars => Handle'
<1> SUFFICES ASSUME Phases, Handle, [Next]_vars PROVE Handle'
  OBVIOUS
<1>1. CASE OpenOutput
  <2>1. out = None /\ asm = "old" /\ pc' # "ended"
    BY <1>1 DEF OpenOutput, Exit, Phases, Handle
  <2> QED  BY <1>1, <2>1 DEF OpenOutput, Handle
<1>2. CASE Generate
  BY <1>2 DEF Generate, report, Exit, Phases, Handle
<1>3. CASE AtExit
  BY <1>3, NoneAssumption DEF AtExit, report, Handle
<1>4. CASE ShowLine
  <2>1. pc # "ended" /\ pc' # "ended"
    BY <1>4 DEF ShowLine, Phases
  <2> QED  BY <1>4, <2>1 DEF ShowLine, Handle
<1>5. CASE UNCHANGED <<out, asm>> /\ pc # "ended" /\ pc' # "ended"
  BY <1>5 DEF Handle
<1>6. CASE UNCHANGED vars
  BY <1>6 DEF vars, Handle
<1> QED  BY <1>1, <1>2, <1>3, <1>4, <1>5, <1>6
        DEF Next, Step, Over, ReadOption, ReadPaths, OpenSource, Parsed, SyntaxError, StackFull,
            ParserExits, ShowTree, SymbolError, SymbolsDone, CheckError, CheckWarning, Undeclared,
            CodeErrorPrint, ChecksDone, GenerateAborts, Rewind, SkipLine, ReadPastEnd, report, Exit

\* Whatever the command line and the program, a compiler that ends says by 0 that
\* the whole output was written, and an output cut short is told by a report and
\* the exit code 2 (main.c:69-86, symbolTable.c:167-186).
THEOREM OutputIsTold == Spec => []OutputTells
<1>1. Init => Handle
  BY DEF Init, Handle
<1>2. Phases /\ Handle => OutputTells
  BY DEF Phases, Told, Handle, OutputTells
<1> QED BY <1>1, <1>2, InitPhases, NextPhases, NextHandle, PTL DEF Spec
-----------------------------------------------------------------------------
(* The line under a report                                                 *)

\* What is read was opened; and while lines are skipped in a file the reading
\* stands at the first character of the current one, that is not behind the line
\* of the report.
Reading ==
    /\ pc \in {"parse", "tree", "symbols", "checks", "output", "generate", "rewind", "lines"} =>
         opt.path = None \/ opt.path \in DOMAIN Source
    /\ pc \in {"rewind", "lines"} => line \in Nat
    /\ pc = "lines" /\ Source[opt.path].kind = "file" =>
         /\ current_line \in Nat \ {0} /\ pos = current_line - 1
         /\ current_line = 1 \/ current_line <= line

LEMMA ReportReads ==
    ASSUME Reading, pc \in {"symbols", "checks", "generate"},
           NEW level, NEW l \in NodeLines \cup {0} \cup {n + 1 : n \in NodeLines}, NEW then,
           CodeErrorPrint(level, l, then), then \in {"symbols", "checks", "exit"}
    PROVE  Reading'
<1>1. opt' = opt /\ line' = l /\ pc' \in {then, "rewind"}
  BY DEF CodeErrorPrint
<1>2. Read \in Nat
  BY SourceAssumption DEF Reading, Read
<1>3. l \in Nat
  BY <1>2 DEF NodeLines
<1> QED  BY <1>1, <1>3 DEF Reading

LEMMA NextReading == Phases /\ Reading /\ [Next]_vars => Reading'
<1> SUFFICES ASSUME Phases, Reading, [Next]_vars PROVE Reading'
  OBVIOUS
<1>1. CASE ReadOption \/ ReadPaths \/ ParserExits \/ SyntaxError \/ SymbolsDone \/ ChecksDone
  BY <1>1 DEF ReadOption, ReadPaths, ParserExits, SyntaxError, SymbolsDone, ChecksDone, Exit, Reading
<1>2. CASE OpenSource \/ Parsed \/ StackFull \/ ShowTree
  BY <1>2 DEF OpenSource, Parsed, StackFull, ShowTree, Exit, Reading
<1>3. CASE OpenOutput \/ Generate \/ GenerateAborts \/ AtExit
  BY <1>3 DEF OpenOutput, Generate, GenerateAborts, AtExit, Exit, Reading
<1>4. CASE SymbolError
  BY <1>4, ReportReads DEF SymbolError
<1>5. CASE CheckError
  BY <1>5, ReportReads DEF CheckError
<1>6. CASE CheckWarning
  BY <1>6, ReportReads DEF CheckWarning
<1>7. CASE Undeclared
  BY <1>7, ReportReads DEF Undeclared
<1>8. CASE Rewind
  BY <1>8 DEF Rewind, Reading
<1>9. CASE SkipLine
  BY <1>9 DEF SkipLine, Reading
<1>10. CASE ShowLine
  BY <1>10 DEF ShowLine, place, Reading, Phases
<1>11. CASE UNCHANGED vars
  BY <1>11 DEF vars, report, place, Reading
<1> QED BY <1>1, <1>2, <1>3, <1>4, <1>5, <1>6, <1>7, <1>8, <1>9, <1>10, <1>11
        DEF Next, Step, ReadPastEnd, Over

\* The line shown is the line reported, for reports on any lines of any file, in
\* whatever order they come (error.c:47-78).
THEOREM ReportedLineShown == Spec => LineShown
<1>1. Init => Reading
  BY DEF Init, Reading
<1>2. Reading /\ [Next]_vars =>
        [pc = "lines" /\ pc' # "lines" /\ Source[opt.path].kind = "file"
           => pos = IF line = 0 THEN 0 ELSE line - 1]_vars
  <2> SUFFICES ASSUME Reading, Next, pc = "lines", pc' # "lines", Source[opt.path].kind = "file"
               PROVE  pos = IF line = 0 THEN 0 ELSE line - 1
    OBVIOUS
  <2>1. ShowLine
    BY DEF Next, Step, ReadPastEnd, Over, vars, ReadOption, ReadPaths, OpenSource, Parsed, SyntaxError,
           StackFull, ParserExits, ShowTree, SymbolError, SymbolsDone, CheckError, CheckWarning,
           Undeclared, ChecksDone, OpenOutput, Generate, GenerateAborts, AtExit, Rewind, SkipLine
  <2>2. line \in Nat /\ current_line \in Nat \ {0} /\ line <= current_line /\ pos = current_line - 1
    BY <2>1 DEF ShowLine, Reading
  <2>3. current_line = 1 \/ current_line <= line
    BY DEF Reading
  <2> QED  BY <2>2, <2>3
<1> QED  BY <1>1, <1>2, InitPhases, NextPhases, NextReading, PTL DEF Spec, LineShown
-----------------------------------------------------------------------------
(* The name of the output                                                  *)

\* A set of places has a last one: the distances to the end have a least one.
LEMMA LastOfPlaces ==
    ASSUME NEW n \in Nat, NEW S, S \subseteq 1 .. n, S # {}
    PROVE  Max(S) \in S /\ \A y \in S : Max(S) >= y
<1> DEFINE D == {n - x : x \in S}
<1>1. D \subseteq Nat /\ D # {}
  <2>1. \A x \in S : n - x \in Nat
    OBVIOUS
  <2> QED  BY <2>1
<1> HIDE DEF D
<1>2. PICK d \in D : \A e \in D : <<e, d>> \notin OpToRel(<, Nat)
  BY <1>1, NatLessThanWellFounded, WFMin
<1>3. \A e \in D : ~ (e < d)
  BY <1>1, <1>2 DEF OpToRel
<1>4. \E x \in S : \A y \in S : x >= y
  <2>1. PICK x \in S : d = n - x
    BY DEF D
  <2>2. \A y \in S : n - y \in D
    BY DEF D
  <2>3. \A y \in S : ~ (n - y < n - x)
    BY <1>3, <2>1, <2>2
  <2> QED  BY <2>3
<1> QED  BY <1>4 DEF Max

\* LastPlace is the one place that holds c with no other behind it.
LEMMA LastPlaceOf ==
    ASSUME NEW path \in Seq(STRING), NEW c
    PROVE  /\ LastPlace(path, c) \in 0 .. Len(path)
           /\ LastPlace(path, c) # 0 => path[LastPlace(path, c)] = c
           /\ \A i \in 1 .. Len(path) : i > LastPlace(path, c) => path[i] # c
<1> DEFINE places == {i \in DOMAIN path : path[i] = c}
<1>1. Len(path) \in Nat /\ DOMAIN path = 1 .. Len(path)
  OBVIOUS
<1>2. CASE places = {}
  BY <1>1, <1>2 DEF LastPlace
<1>3. CASE places # {}
  <2>1. LastPlace(path, c) = Max(places)
    BY <1>3 DEF LastPlace
  <2>2. places \subseteq 1 .. Len(path)
    BY <1>1
  <2>3. Max(places) \in places /\ \A y \in places : Max(places) >= y
    BY <1>1, <1>3, <2>2, LastOfPlaces
  <2> DEFINE m == Max(places)
  <2>4. m \in 1 .. Len(path) /\ path[m] = c
    BY <2>2, <2>3
  <2>5. \A i \in 1 .. Len(path) : path[i] = c => m >= i
    BY <1>1, <2>3
  <2> HIDE DEF m
  <2>6. \A i \in 1 .. Len(path) : i > m => path[i] # c
    BY <1>1, <2>4, <2>5
  <2> QED  BY <1>1, <2>1, <2>4, <2>6 DEF m
<1> QED  BY <1>2, <1>3

LEMMA LastPlaceUnique ==
    ASSUME NEW path \in Seq(STRING), NEW c, NEW k \in 1 .. Len(path), path[k] = c,
           \A i \in 1 .. Len(path) : i > k => path[i] # c
    PROVE  LastPlace(path, c) = k
<1>1. LastPlace(path, c) >= k
  BY LastPlaceOf
<1> QED  BY <1>1, LastPlaceOf

\* The precision of "%.*s" cuts the extension of the name and nothing else.
LEMMA CutIsStem ==
    ASSUME NEW path \in Seq(STRING)
    PROVE  Cut(path, LastPlace(path, "/") + 1, LastPlace(path, ".")) = Stem(Name(path))
<1> DEFINE n == Len(path)
           slash == LastPlace(path, "/")
           dot == LastPlace(path, ".")
           name == Name(path)
<1>1. n \in Nat /\ slash \in 0 .. n /\ dot \in 0 .. n
  BY LastPlaceOf
<1>2. /\ dot # 0 => path[dot] = "."
      /\ \A i \in 1 .. n : i > dot => path[i] # "."
  BY LastPlaceOf
<1>3. name = SubSeq(path, slash + 1, n)
  BY DEF Name
<1>4. \A i \in slash + 1 .. n : path[i] \in STRING
  BY <1>1, ElementOfSeq
<1>5. /\ name \in Seq(STRING) /\ Len(name) = n - slash
      /\ \A i \in 1 .. n - slash : name[i] = path[slash + i]
  BY <1>1, <1>3, <1>4, SubSeqProperties
<1>6. Range(name) = {name[i] : i \in 1 .. n - slash}
  BY <1>1, <1>5 DEF Range
<1>7. Cut(path, slash + 1, dot) = IF dot < slash + 1 THEN SubSeq(path, slash + 1, n)
                                  ELSE SubSeq(path, slash + 1, dot - 1)
  BY DEF Cut
<1> HIDE DEF n, slash, dot, name
<1>8. CASE dot < slash + 1
  <2>1. "." \notin Range(name)
    BY <1>1, <1>2, <1>5, <1>6, <1>8
  <2> QED  BY <1>3, <1>7, <1>8, <2>1 DEF Stem, n, slash, dot, name
<1>9. CASE ~(dot < slash + 1)
  <2> DEFINE k == dot - slash
  <2>1. k \in 1 .. n - slash /\ name[k] = "."
    BY <1>1, <1>2, <1>5, <1>9
  <2>2. \A i \in 1 .. n - slash : i > k => name[i] # "."
    BY <1>1, <1>2, <1>5, <1>9
  <2>3. LastPlace(name, ".") = k
    BY <1>5, <2>1, <2>2, LastPlaceUnique
  <2>4. "." \in Range(name)
    BY <1>6, <2>1
  <2>5. Stem(name) = SubSeq(name, 1, k - 1)
    BY <2>3, <2>4 DEF Stem
  <2>6. /\ SubSeq(name, 1, k - 1) \in Seq(STRING)
        /\ Len(SubSeq(name, 1, k - 1)) = k - 1
        /\ \A i \in 1 .. k - 1 : SubSeq(name, 1, k - 1)[i] = path[slash + i]
    <3>1. \A i \in 1 .. k - 1 : name[i] \in STRING
      BY <1>1, <1>5, <2>1, ElementOfSeq
    <3> HIDE DEF k
    <3>2. /\ SubSeq(name, 1, k - 1) \in Seq(STRING)
          /\ Len(SubSeq(name, 1, k - 1)) = k - 1
          /\ \A i \in 1 .. k - 1 : SubSeq(name, 1, k - 1)[i] = name[i]
      BY <1>1, <2>1, <3>1, SubSeqProperties
    <3> QED  BY <1>1, <1>5, <2>1, <3>2
  <2>7. /\ SubSeq(path, slash + 1, dot - 1) \in Seq(STRING)
        /\ Len(SubSeq(path, slash + 1, dot - 1)) = k - 1
        /\ \A i \in 1 .. k - 1 : SubSeq(path, slash + 1, dot - 1)[i] = path[slash + i]
    <3>1. \A i \in slash + 1 .. dot - 1 : path[i] \in STRING
      BY <1>1, <1>4
    <3> QED  BY <1>1, <1>9, <3>1, SubSeqProperties
  <2>8. SubSeq(name, 1, k - 1) = SubSeq(path, slash + 1, dot - 1)
    <3> HIDE DEF k
    <3> QED  BY <2>1, <2>6, <2>7, SeqEqual
  <2> QED  BY <1>7, <1>9, <2>5, <2>8 DEF slash, dot, name
<1> QED  BY <1>8, <1>9

\* The name of the output follows the path.
Naming ==
    /\ command \in Commands
    /\ {"path", "output"} \subseteq DOMAIN opt
    /\ opt.path # None => /\ opt.path \in Seq(STRING)
                          /\ opt.output = DefaultOutputName(opt.path)

LEMMA NextNaming == Naming /\ [Next]_vars => Naming'
<1> SUFFICES ASSUME Naming, [Next]_vars PROVE Naming'
  OBVIOUS
<1>1. CASE ReadOption
  <2>1. command' = command
    BY <1>1 DEF ReadOption
  <2>2. CASE opt' = opt
    BY <2>1, <2>2 DEF Naming
  <2>3. CASE opt' # opt
    <3> DEFINE o == command.options[next]
    <3>1. o[2] \in {"t", "s", "a", "w"} /\ opt' = [opt EXCEPT ![Flag[o[2]]] = TRUE]
      BY <1>1, <2>3 DEF ReadOption, Known, LongOptions, ShortOptions
    <3> HIDE DEF o
    <3>2. Flag[o[2]] \notin {"path", "output"}
      BY <3>1 DEF Flag
    <3> QED  BY <2>1, <3>1, <3>2 DEF Naming
  <2> QED  BY <2>2, <2>3
<1>2. CASE ReadPaths
  <2>1. command' = command
    BY <1>2 DEF ReadPaths
  <2>2. CASE Len(command.paths) = 1
    <3> DEFINE p == command.paths[1]
    <3>1. p \in Seq(STRING)
      BY <2>2, CommandsAssumption DEF Naming
    <3>2. opt' = [opt EXCEPT !.path = p, !.output = DefaultOutputName(p)]
      BY <1>2, <2>2 DEF ReadPaths
    <3> QED  BY <2>1, <3>1, <3>2 DEF Naming
  <2>3. CASE Len(command.paths) # 1
    BY <1>2, <2>1, <2>3 DEF ReadPaths, Naming
  <2> QED  BY <2>2, <2>3
<1>3. CASE UNCHANGED <<command, opt>>
  BY <1>3 DEF Naming
<1> QED  BY <1>1, <1>2, <1>3
        DEF Next, Step, Over, vars, OpenSource, Parsed, SyntaxError, StackFull, ParserExits, ShowTree,
            SymbolError, SymbolsDone, CheckError, CheckWarning, Undeclared, CodeErrorPrint, ChecksDone,
            OpenOutput, Generate, GenerateAborts, AtExit, Rewind, SkipLine, ReadPastEnd, ShowLine

\* The output is named after the source, with dots and slashes anywhere in its
\* path (parser.c:69-87).
THEOREM OutputNamedAfterSource == Spec => []NamedAfterSource
<1>1. Init => Naming
  BY DEF Init, InitOption, Naming
<1>2. Naming => NamedAfterSource
  BY CutIsStem DEF Naming, NamedAfterSource, DefaultOutputName
<1> QED  BY <1>1, <1>2, NextNaming, PTL DEF Spec
-----------------------------------------------------------------------------
(* Types                                                                   *)

\* The tree is freed behind the last phase only.
Typing == TypeOK /\ (pc = "tree" => abr \in {None, "tree"})

OptionType ==
    [path : Path \cup {None}, output : {DefaultOutputName(p) : p \in Path} \cup {Anonymous},
     tree : BOOLEAN, only_tree : BOOLEAN, symtabs : BOOLEAN, semantic : BOOLEAN]

\* What is read has a number of lines.
LEMMA ReadType ==
    ASSUME Reading, pc \in {"parse", "symbols", "checks", "generate", "rewind", "lines"}
    PROVE  Read \in Nat
  BY SourceAssumption DEF Reading, Read

LEMMA ReadOptionTypes == Typing /\ ReadOption => Typing'
<1> SUFFICES ASSUME Typing, ReadOption PROVE Typing'
  OBVIOUS
<1> DEFINE o == command.options[next]
<1>1. /\ command' = command /\ next' = next + 1 /\ next <= Len(command.options)
      /\ pc = "options" /\ Len(command.options) \in Nat
  BY CommandsAssumption DEF ReadOption, Typing, TypeOK
<1>2. next' \in 1 .. Len(command'.options) + 1
  BY <1>1 DEF Typing, TypeOK
<1>3. opt' \in OptionType
  <2>1. opt \in OptionType
    BY DEF Typing, TypeOK, OptionType
  <2>2. CASE Known(o) /\ o[2] # "h"
    <3>1. opt' = [opt EXCEPT ![Flag[o[2]]] = TRUE] /\ o[2] \in {"t", "s", "a", "w"}
      BY <2>2 DEF ReadOption, Known, LongOptions, ShortOptions
    <3> HIDE DEF o
    <3>2. Flag[o[2]] \in {"tree", "symtabs", "only_tree", "semantic"}
      BY <3>1 DEF Flag
    <3> QED  BY <2>1, <3>1, <3>2 DEF OptionType
  <2>3. CASE ~(Known(o) /\ o[2] # "h")
    BY <2>1, <2>3 DEF ReadOption
  <2> QED  BY <2>2, <2>3
<1>4. pc' \in {"options", "exit"} /\ status' \in {status, 0, 1} /\ told' \in {told, told \cup {"help"}}
  BY <1>1 DEF ReadOption, Exit
<1> QED  BY <1>1, <1>2, <1>3, <1>4 DEF ReadOption, place, Typing, TypeOK, OptionType

LEMMA ReadPathsTypes == Typing /\ ReadPaths => Typing'
<1> SUFFICES ASSUME Typing, ReadPaths PROVE Typing'
  OBVIOUS
<1>1. opt \in OptionType /\ command \in Commands
  BY DEF Typing, TypeOK, OptionType
<1>2. opt' \in OptionType
  <2>1. CASE Len(command.paths) = 1
    <3>1. command.paths \in Seq(Seq(STRING))
      BY <1>1, CommandsAssumption
    <3>2. 1 \in DOMAIN command.paths
      BY <2>1, <3>1
    <3>3. command.paths[1] \in Path
      BY <1>1, <3>2 DEF Path
    <3> QED  BY <1>1, <2>1, <3>3 DEF ReadPaths, OptionType
  <2>2. CASE Len(command.paths) # 1
    BY <1>1, <2>2 DEF ReadPaths
  <2> QED  BY <2>1, <2>2
<1> QED  BY <1>2 DEF ReadPaths, report, place, Typing, TypeOK, OptionType

LEMMA ReportTypes ==
    ASSUME Typing, Reading, pc \in {"symbols", "checks", "generate"}, NEW level \in Levels,
           NEW l \in NodeLines \cup {0} \cup {n + 1 : n \in NodeLines},
           NEW then \in {"symbols", "checks", "exit"}, CodeErrorPrint(level, l, then),
           err' \subseteq Levels, status' \in {None} \cup 0 .. 3
    PROVE  Typing'
<1>1. Read \in Nat
  BY ReadType
<1>2. l \in Nat
  BY <1>1 DEF NodeLines
<1>3. reports' \in 0 .. MaxReports
  BY MaxReportsAssumption DEF CodeErrorPrint, Typing, TypeOK
<1>4. /\ command' = command /\ next' = next /\ opt' = opt /\ abr' = abr /\ out' = out
      /\ asm' = asm /\ pos' = pos /\ current_line' = current_line
  BY DEF CodeErrorPrint
<1>5. /\ pc' \in {then, "rewind"} /\ back' \in {back, then}
      /\ told' = told \cup {level} /\ line' = l
  BY DEF CodeErrorPrint
<1> QED  BY <1>2, <1>3, <1>4, <1>5 DEF Typing, TypeOK

LEMMA NextTyping == Phases /\ Reading /\ Typing /\ [Next]_vars => Typing'
<1> SUFFICES ASSUME Phases, Reading, Typing, [Next]_vars PROVE Typing'
  OBVIOUS
<1>1. CASE ReadOption
  BY <1>1, ReadOptionTypes
<1>2. CASE ReadPaths
  BY <1>2, ReadPathsTypes
<1>3. CASE OpenSource
  BY <1>3, ExitCodes DEF OpenSource, Exit, place, Typing, TypeOK
<1>4. CASE Parsed
  BY <1>4, ReadType DEF Parsed, place, Typing, TypeOK
<1>5. CASE SyntaxError
  <2>1. pos' \in Nat
    BY <1>5, ReadType DEF SyntaxError
  <2> QED  BY <1>5, <2>1, ExitCodes DEF SyntaxError, Exit, place, Typing, TypeOK, Levels
<1>6. CASE StackFull
  <2>1. pos' \in Nat /\ abr = None
    BY <1>6, ReadType DEF StackFull, Phases, Started
  <2> QED  BY <1>6, <2>1 DEF StackFull, place, Typing, TypeOK, Levels
<1>7. CASE ParserExits
  <2>1. pos' \in Nat
    BY <1>7, ReadType DEF ParserExits
  <2> QED  BY <1>7, <2>1 DEF ParserExits, Exit, place, Typing, TypeOK
<1>8. CASE ShowTree
  BY <1>8 DEF ShowTree, Exit, report, place, Typing, TypeOK
<1>9. CASE SymbolsDone \/ ChecksDone
  <2>1. ExitCode(err) \in 0 .. 3
    BY DEF ExitCode
  <2> QED  BY <1>9, <2>1 DEF SymbolsDone, ChecksDone, Exit, report, place, Typing, TypeOK
<1>10. CASE OpenOutput
  BY <1>10, ExitCodes DEF OpenOutput, Exit, place, Typing, TypeOK
<1>11. CASE Generate \/ GenerateAborts \/ AtExit
  BY <1>11 DEF Generate, GenerateAborts, AtExit, Exit, report, place, Typing, TypeOK
<1>12. CASE SymbolError
  BY <1>12, ReportTypes DEF SymbolError, Typing, TypeOK, Levels
<1>13. CASE CheckError
  BY <1>13, ReportTypes DEF CheckError, Typing, TypeOK, Levels
<1>14. CASE CheckWarning
  BY <1>14, ReportTypes DEF CheckWarning, Typing, TypeOK, Levels
<1>15. CASE Undeclared
  <2>1. PICK l \in NodeLines : CodeErrorPrint("semantic", l, "exit")
    BY <1>15 DEF Undeclared
  <2>2. pc \in {"checks", "generate"} /\ status' = 2 /\ err' = err /\ err \subseteq Levels
    BY <1>15, ExitCodes DEF Undeclared, Typing, TypeOK
  <2>3. l \in NodeLines \cup {0} \cup {n + 1 : n \in NodeLines} /\ "semantic" \in Levels
    BY DEF Levels
  <2>4. status' \in {None} \cup 0 .. 3 /\ err' \subseteq Levels
    BY <2>2
  <2> QED  BY <2>1, <2>2, <2>3, <2>4, ReportTypes
<1>16. CASE Rewind
  BY <1>16 DEF Rewind, Typing, TypeOK
<1>17. CASE SkipLine
  BY <1>17 DEF SkipLine, Typing, TypeOK
<1>18. CASE ShowLine
  <2>1. back \in {"symbols", "checks", "exit"}
    BY <1>18 DEF ShowLine, Phases
  <2> QED  BY <1>18, <2>1 DEF ShowLine, place, Typing, TypeOK
<1>19. CASE UNCHANGED vars
  BY <1>19 DEF vars, report, place, Typing, TypeOK
<1> QED BY <1>1, <1>2, <1>3, <1>4, <1>5, <1>6, <1>7, <1>8, <1>9, <1>10, <1>11, <1>12, <1>13,
           <1>14, <1>15, <1>16, <1>17, <1>18, <1>19
        DEF Next, Step, ReadPastEnd, Over

\* Each phase finds what the one before it leaves, for every command line: the
\* phases that read the tree are not entered without one, and a report returns
\* to the phase that made it (main.c:35-86, error.c:47-78).
THEOREM Types == Spec => []TypeOK
<1>1. Init => Typing /\ Reading
  <2> SUFFICES ASSUME Init PROVE Typing /\ Reading
    OBVIOUS
  <2>1. Len(command.options) \in Nat
    BY CommandsAssumption DEF Init
  <2> QED  BY <2>1, MaxReportsAssumption DEF Init, InitOption, Typing, TypeOK, Reading
<1>2. Typing => TypeOK
  BY DEF Typing
<1> QED  BY <1>1, <1>2, InitPhases, NextPhases, NextReading, NextTyping, PTL DEF Spec
=============================================================================
