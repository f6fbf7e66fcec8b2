-------------------------------- MODULE Driver --------------------------------
(***************************************************************************)
(* The compiler as its user runs it: src/main.c and src/parser.c, with the *)
(* printing of reports of src/error.c.  What the parser, the construction  *)
(* of the symbol tables, the checks and the generator do is reduced to     *)
(* what main makes of it: the reports they print and how they come back.   *)
(***************************************************************************)
EXTENDS Integers, SequencesExt

CONSTANTS Commands,    \* command lines: [options, paths], as getopt orders them
          Source,      \* [path |-> [lines, kind]]: what can be opened for reading
          Locked,      \* names that cannot be opened for writing
          MaxReports,  \* bound on the number of reports
          None         \* NULL

\* An option is <<"short", "t">> or <<"long", "t">>; a path is a sequence of
\* pieces of names, "." and "/".
ASSUME SourceAssumption == \A p \in DOMAIN Source : /\ Source[p].lines \in Nat
                                                    /\ Source[p].kind \in {"file", "pipe", "directory"}

\* A path is a sequence of pieces.
ASSUME CommandsAssumption == \A c \in Commands : /\ c.options \in Seq({"short", "long"} \X STRING)
                                                 /\ c.paths \in Seq(Seq(STRING))

ASSUME MaxReportsAssumption == MaxReports \in Nat

\* NULL is told apart from the exit codes, and from what a pointer can be.
ASSUME NoneAssumption == None \notin 0 .. 3 /\ None \notin {"symbols", "checks", "exit", "tree", "open"}

VARIABLES pc, command,
          next,    \* index in command.options of the next option
          opt,     \* Option: path, output and flags
          err,     \* the levels in ErrorType err of main
          abr,     \* PROGRAM.abr: None, "tree", "freed"
          out,     \* PROGRAM.file_out: None, "open", "closed"
          asm,     \* the file named opt.output: "old" until it is opened
          pos,     \* how many line feeds of the source have been read
          line, current_line,  \* of the report being printed, and of _go_to_line
          back,    \* where the report returns
          told,    \* ghost: the levels reported, "help", and "system" for perror
          reports, \* ghost: how many reports were printed
          status   \* the exit code, None before

place == <<line, current_line, back>>
report == <<pos, place, told, reports>>
vars == <<pc, command, next, opt, err, abr, out, asm, report, status>>

Levels == {"parse", "semantic", "critical", "warn"}
ExitCode(e) == IF "critical" \in e THEN 3
               ELSE IF "parse" \in e THEN 1
               ELSE IF "semantic" \in e THEN 2 ELSE 0
IsFatal(e) == e \cap {"semantic", "critical"} # {}

Exit(code) == pc' = "exit" /\ status' = code
-----------------------------------------------------------------------------
(* The command line                                                        *)

\* The place of the last c in the path, 0 without one.
LastPlace(path, c) == LET places == {i \in DOMAIN path : path[i] = c}
                      IN IF places = {} THEN 0 ELSE Max(places)

\* Mistake: with a dot anywhere in the path something is cut off the name.
CutWithDot(path, first, dot) == IF dot = 0 THEN SubSeq(path, first, Len(path))
                                ELSE SubSeq(path, first, dot - 1)
\* The stem is cut before the last dot of the whole path; a dot before the name
\* makes the precision of "%.*s" negative, which cuts nothing.
Cut(path, first, dot) == IF dot < first THEN SubSeq(path, first, Len(path))
                         ELSE SubSeq(path, first, dot - 1)
DefaultOutputName(path) ==
    LET first == LastPlace(path, "/") + 1
    IN Cut(path, first, LastPlace(path, ".")) \o <<".", "asm">>

Anonymous == <<"_anonymous", ".", "asm">>
\* Mistake: no name for the output of a program read from stdin.
InitOptionUnnamed == [path |-> None, output |-> None,
                      tree |-> FALSE, only_tree |-> FALSE, symtabs |-> FALSE, semantic |-> FALSE]
InitOption == [path |-> None, output |-> Anonymous,
               tree |-> FALSE, only_tree |-> FALSE, symtabs |-> FALSE, semantic |-> FALSE]

\* The long options, and the letters of "asht".
LongOptions == {"h", "t", "s", "a", "w"}
ShortOptions == {"a", "s", "h", "t"}
Known(o) == o[2] \in IF o[1] = "long" THEN LongOptions ELSE ShortOptions
Flag == [t |-> "tree", s |-> "symtabs", a |-> "only_tree", w |-> "semantic"]

Init == /\ pc = "options" /\ command \in Commands /\ next = 1
        /\ opt = InitOption /\ err = {} /\ abr = None /\ out = None /\ asm = "old"
        /\ pos = 0 /\ line = 0 /\ current_line = 1 /\ back = None /\ told = {} /\ reports = 0
        /\ status = None

ReadOption ==
    /\ pc = "options" /\ next <= Len(command.options)
    /\ LET o == command.options[next] IN
       IF Known(o) /\ o[2] # "h"
       THEN /\ opt' = [opt EXCEPT ![Flag[o[2]]] = TRUE]
            /\ UNCHANGED <<pc, told, status>>
       ELSE /\ told' = told \cup {"help"}
            /\ Exit(IF Known(o) THEN 0 ELSE 1)
            /\ UNCHANGED opt
    /\ next' = next + 1
    /\ UNCHANGED <<command, err, abr, out, asm, pos, place, reports>>

\* With several paths none is taken, and the program is read from stdin.
ReadPaths ==
    /\ pc = "options" /\ next > Len(command.options)
    /\ opt' = IF Len(command.paths) = 1
              THEN [opt EXCEPT !.path = command.paths[1],
                               !.output = DefaultOutputName(command.paths[1])]
              ELSE opt
    /\ pc' = "open"
    /\ UNCHANGED <<command, next, err, abr, out, asm, report, status>>
-----------------------------------------------------------------------------
(* The phases of main                                                      *)

OpenSource ==
    /\ pc = "open"
    /\ IF opt.path = None \/ opt.path \in DOMAIN Source
       THEN pc' = "parse" /\ UNCHANGED <<told, status>>
       ELSE told' = told \cup {"system"} /\ Exit(ExitCode({"critical"}))
    /\ UNCHANGED <<command, next, opt, err, abr, out, asm, pos, place, reports>>

Readable == opt.path # None => Source[opt.path].kind # "directory"
Read == IF opt.path = None THEN 0 ELSE Source[opt.path].lines

\* The whole source is read, and the tree is made when Prog is reduced.
Parsed == /\ pc = "parse" /\ Readable
          /\ abr' = "tree" /\ pos' = Read
          /\ pc' = "tree"
          /\ UNCHANGED <<command, next, opt, err, out, asm, place, told, reports, status>>

\* A token behind the last function is refused after Prog was reduced.
SyntaxError == /\ pc = "parse" /\ Readable
               /\ abr' \in {None, "tree"}
               /\ pos' \in 0 .. Read
               /\ err' = {"parse"} /\ told' = told \cup {"parse"}
               /\ Exit(ExitCode(err'))
               /\ UNCHANGED <<command, next, opt, out, asm, place, reports>>

\* bison's stack is full: no parse error, so main goes on without a tree.
StackFull == /\ pc = "parse" /\ Readable
             /\ pos' \in 0 .. Read
             /\ err' = {"critical"} /\ told' = told \cup {"critical"}
             /\ pc' = "tree"
             /\ UNCHANGED <<command, next, opt, abr, out, asm, place, reports, status>>

\* makeNode without memory leaves with 1; flex, that cannot read, with 2.
ParserExits == /\ pc = "parse"
               /\ pos' \in 0 .. Read
               /\ told' = told \cup {"system"}
               /\ Exit(IF Readable THEN 1 ELSE 2)
               /\ UNCHANGED <<command, next, opt, err, abr, out, asm, place, reports>>

\* printTree and the construction of the tables take the tree to be there.
ShowTree ==
    /\ pc = "tree"
    /\ IF opt.tree /\ abr = None THEN pc' = "aborted" /\ UNCHANGED <<err, status>>
       ELSE IF opt.only_tree THEN Exit(0) /\ UNCHANGED err
       ELSE IF abr = None THEN pc' = "aborted" /\ UNCHANGED <<err, status>>
       ELSE pc' = "symbols" /\ err' = {} /\ UNCHANGED status
    /\ UNCHANGED <<command, next, opt, abr, out, asm, report>>

\* The tables are printed before the errors in them are looked at.
SymbolsDone ==
    /\ pc = "symbols"
    /\ IF IsFatal(err) THEN Exit(ExitCode(err))
       ELSE pc' = "checks" /\ UNCHANGED status
    /\ UNCHANGED <<command, next, opt, err, abr, out, asm, report>>

\* Mistake: only critical errors stop the compiler here.
ChecksDoneCritical ==
    /\ pc = "checks"
    /\ IF opt.semantic \/ "critical" \in err THEN Exit(ExitCode(err))
       ELSE pc' = "output" /\ UNCHANGED status
    /\ UNCHANGED <<command, next, opt, err, abr, out, asm, report>>
ChecksDone ==
    /\ pc = "checks"
    /\ IF opt.semantic \/ IsFatal(err) THEN Exit(ExitCode(err))
       ELSE pc' = "output" /\ UNCHANGED status
    /\ UNCHANGED <<command, next, opt, err, abr, out, asm, report>>

\* Mistake: the name that cannot be opened is reported, and nothing else.
OpenOutputTold ==
    /\ pc = "output"
    /\ IF opt.output \in Locked
       THEN told' = told \cup {"system"} /\ Exit(0) /\ UNCHANGED <<out, asm>>
       ELSE out' = "open" /\ asm' = "partial" /\ pc' = "generate" /\ UNCHANGED <<told, status>>
    /\ UNCHANGED <<command, next, opt, err, abr, pos, place, reports>>
OpenOutput ==
    /\ pc = "output"
    /\ IF opt.output \in Locked
       THEN told' = told \cup {"system"} /\ Exit(ExitCode({"critical"})) /\ UNCHANGED <<out, asm>>
       ELSE out' = "open" /\ asm' = "partial" /\ pc' = "generate" /\ UNCHANGED <<told, status>>
    /\ UNCHANGED <<command, next, opt, err, abr, pos, place, reports>>

\* TreeReader_Prog comes back; a name it finds undeclared is Undeclared below.
Generate == /\ pc = "generate"
            /\ asm' = "complete" /\ Exit(0)
            /\ UNCHANGED <<command, next, opt, err, abr, out, report>>

\* An assertion of codeWriter.c fails: no exit handler runs.
GenerateAborts == /\ pc = "generate"
                  /\ pc' = "aborted"
                  /\ UNCHANGED <<command, next, opt, err, abr, out, asm, report, status>>

AtExit == /\ pc = "exit"
          /\ abr' = IF abr = None THEN None ELSE "freed"
          /\ out' = IF out = None THEN None ELSE "closed"
          /\ pc' = "ended"
          /\ UNCHANGED <<command, next, opt, err, asm, report, status>>
-----------------------------------------------------------------------------
(* Reports                                                                 *)

\* CodeError_print: behind the message the line is shown, when the source has a
\* name; then the caller goes on.
CodeErrorPrint(level, at, then) ==
    /\ reports < MaxReports /\ reports' = reports + 1
    /\ told' = told \cup {level}
    /\ line' = at
    /\ IF opt.path = None THEN pc' = then /\ UNCHANGED back
       ELSE pc' = "rewind" /\ back' = then
    /\ UNCHANGED <<command, next, opt, abr, out, asm, pos, current_line>>

\* A node has the line the lexer had reached; a missing main has no line.
NodeLines == 1 .. Read + 1

SymbolError == /\ pc = "symbols"
               /\ \E l \in NodeLines : CodeErrorPrint("semantic", l, pc)
               /\ err' = err \cup {"semantic"}
               /\ UNCHANGED status

CheckError == /\ pc = "checks"
              /\ \E l \in NodeLines \cup {0} : CodeErrorPrint("semantic", l, pc)
              /\ err' = err \cup {"semantic"}
              /\ UNCHANGED status

\* A missing return is shown one line below the node.
CheckWarning == /\ pc = "checks"
                /\ \E l \in NodeLines \cup {n + 1 : n \in NodeLines} : CodeErrorPrint("warn", l, pc)
                /\ err' = err \cup {"warn"}
                /\ UNCHANGED status

\* ST_resolve_from_node leaves at once, from the checks or, when they never looked
\* at the name, from the generator with the output half written.
Undeclared == /\ pc \in {"checks", "generate"}
              /\ \E l \in NodeLines : CodeErrorPrint("semantic", l, "exit")
              /\ status' = ExitCode({"semantic"})
              /\ UNCHANGED err

\* Mistake: the file is read on from where it was.
RewindKept == /\ pc = "rewind"
              /\ current_line' = 1
              /\ pc' = "lines"
              /\ UNCHANGED <<command, next, opt, err, abr, out, asm, pos, line, back, told, reports, status>>
\* Mistake: lines are counted from 0.
RewindToZero == /\ pc = "rewind"
                /\ pos' = IF Source[opt.path].kind = "pipe" THEN pos ELSE 0
                /\ current_line' = 0
                /\ pc' = "lines"
                /\ UNCHANGED <<command, next, opt, err, abr, out, asm, line, back, told, reports, status>>
\* A pipe stays where the parser left it, at its end.
Rewind == /\ pc = "rewind"
          /\ pos' = IF Source[opt.path].kind = "pipe" THEN pos ELSE 0
          /\ current_line' = 1
          /\ pc' = "lines"
          /\ UNCHANGED <<command, next, opt, err, abr, out, asm, line, back, told, reports, status>>

SkipLine == /\ pc = "lines" /\ current_line < line /\ pos < Read
            /\ pos' = pos + 1 /\ current_line' = current_line + 1
            /\ UNCHANGED <<pc, command, next, opt, err, abr, out, asm, line, back, told, reports, status>>

\* fgetc gives EOF, which is no line feed, again and again.
ReadPastEnd == /\ pc = "lines" /\ current_line < line /\ pos = Read
               /\ UNCHANGED vars

\* print_one_line_from_file, and the cursor.
ShowLine == /\ pc = "lines" /\ line <= current_line
            /\ pos' = IF pos < Read THEN pos + 1 ELSE pos
            /\ pc' = back
            /\ UNCHANGED <<command, next, opt, err, abr, out, asm, place, told, reports, status>>
-----------------------------------------------------------------------------
Step == \/ ReadOption \/ ReadPaths \/ OpenSource
        \/ Parsed \/ SyntaxError \/ StackFull \/ ParserExits
        \/ ShowTree \/ SymbolError \/ SymbolsDone
        \/ CheckError \/ CheckWarning \/ Undeclared \/ ChecksDone
        \/ OpenOutput \/ Generate \/ GenerateAborts \/ AtExit
        \/ Rewind \/ SkipLine \/ ReadPastEnd \/ ShowLine

Over == pc \in {"ended", "aborted"} /\ UNCHANGED vars

Next == Step \/ Over

Spec == Init /\ [][Next]_vars
\* One process, that nothing stops.
FairSpec == Spec /\ WF_vars(Step)
-----------------------------------------------------------------------------
(* Properties                                                              *)

Path == UNION {{c.paths[i] : i \in DOMAIN c.paths} : c \in Commands}

\* The phases of main, with the tree made before the phases that read it and the
\* output open in the last one only.
TypeOK ==
    /\ pc \in {"options", "open", "parse", "tree", "symbols", "checks", "rewind", "lines",
               "output", "generate", "exit", "ended", "aborted"}
    /\ command \in Commands /\ next \in 1 .. Len(command.options) + 1
    /\ opt \in [path : Path \cup {None}, output : {DefaultOutputName(p) : p \in Path} \cup {Anonymous},
               tree : BOOLEAN, only_tree : BOOLEAN, symtabs : BOOLEAN, semantic : BOOLEAN]
    /\ err \subseteq Levels /\ told \subseteq Levels \cup {"help", "system"}
    /\ abr \in {None, "tree", "freed"} /\ out \in {None, "open", "closed"}
    /\ asm \in {"old", "partial", "complete"}
    /\ back \in {None, "symbols", "checks", "exit"}
    /\ pos \in Nat /\ line \in Nat /\ current_line \in Nat
    /\ reports \in 0 .. MaxReports /\ status \in {None} \cup 0 .. 3
    /\ pc \in {"symbols", "checks", "rewind", "lines", "output", "generate"} => abr = "tree"

\* The options that the help and rep/rapport.md name (parser.c:25-40,
\* rapport.md:29-37), short and long.
Documented == {"short", "long"} \X {"t", "a", "s", "w", "h"}

\* The exit code says what was reported last: a semantic error is 2, whichever
\* of three ways leads out, a parse error 1; it is 0 only after warnings or the
\* help; and 1 after the help only if there was an option that is not documented.
\* The code makes two exceptions: bison out of stack under -a (main.c:52), and -w,
\* which the help names and getopt_long is not given (parser.c:38, :101).
ExitTells ==
    pc = "ended" =>
      /\ "semantic" \in told => status = 2
      /\ "parse" \in told => status = 1
      /\ status = 0 => told \subseteq {"warn", "help"} \/ (told = {"critical"} /\ opt.only_tree)
      /\ "help" \in told /\ status = 1 =>
           \E o \in Range(command.options) : o \notin Documented \ {<<"short", "w">>}

\* A compiler that ends says by 0, and by nothing else, that the output was asked
\* for and is whole.  An output cut short comes from one cause, a name that the
\* generator found undeclared, and is told by a report and the exit code 2; in
\* every other case the file of that name is as it was.  What was opened is closed.
OutputTells ==
    pc = "ended" =>
      /\ asm = "complete" <=> status = 0 /\ ~opt.only_tree /\ ~opt.semantic /\ "help" \notin told
      /\ asm = "partial" => status = 2 /\ "semantic" \in told /\ "system" \notin told
      /\ out = IF asm = "old" THEN None ELSE "closed"

\* The output is in the current directory, with the name of the source, the
\* extension of the name replaced, and a dot of a directory never taken for it.
Name(path) == LET first == LastPlace(path, "/") + 1 IN SubSeq(path, first, Len(path))
Stem(name) == IF "." \in Range(name) THEN SubSeq(name, 1, LastPlace(name, ".") - 1) ELSE name
NamedAfterSource ==
    pc = "output" /\ opt.path # None => opt.output = Stem(Name(opt.path)) \o <<".", "asm">>

\* The line shown under a report is the one the report names: the reading stands
\* at its first character, though reports and parser share one stream.
LineShown ==
    [][pc = "lines" /\ pc' # "lines" /\ Source[opt.path].kind = "file"
         => pos = IF line = 0 THEN 0 ELSE line - 1]_vars

\* The compiler ends, unless it looks for a line behind the last one, or for any
\* but the first in a pipe.
Astray == /\ pc = "lines"
          /\ line > IF Source[opt.path].kind = "pipe" THEN 1 ELSE Read + 1
EndsOrAstray == <>(pc \in {"ended", "aborted"} \/ Astray)
=============================================================================
