# A TLA+ model of the TPC compiler

The repository holds a compiler from TPC, a small subset of C, to x86-64 assembly
for nasm. This directory holds TLA+ modules that model its parts, the TLC
configurations that check them on small instances, and TLAPS proofs of what holds
for every instance. Paths below are those of the repository (`src/symbolTable.c`
is the compiler's own directory `src`).

    tlc -config Machine_programs.cfg MCMachine.tla   # a run
    tlapm SymbolTableProofs.tla                      # the proofs of a module

## 1. The system

A run of the compiler is sequential. `main.c` parses the options, lets bison build
the tree, builds the symbol tables in one pass over the tree, checks the tree
against them, and writes the assembly text in one more pass. The parts share two
data structures, the tree and the tables, that each phase only reads once the
phase before has ended.

| part | files | state it keeps | operations | what makes it correct |
|---|---|---|---|---|
| list | `arraylist.c` | `arr`, `len`, `capacity` | append, sorted insert, search, pop, resize, shrink, clear, sort, free | order kept, no cell read that was never written, nothing lost when `realloc` fails |
| symbol tables | `symbolTable.c`, `symbol.c` | the globals, one `FunctionST` (parameters, locals) per function, `next_addr` of each table | declare (`_ST_add`), resolve a name, find a function | two names never share a byte; a parameter is where the caller left it; redeclarations are reported, all of them and no other |
| semantic checks | `semantic.c` | the error bits, `has_return` | one check per node | a program that passes has a meaning; errors are reported once |
| code generator | `treeReader.c`, `codeWriter.c`, `registers.c` | two label counters, the text written | one function per node | the text computes what the program means |
| compiled program | the text, `builtins.asm` | registers, stack, `bss` | instructions, four built-in functions | calls balanced, frames respected, ends as the program ends |
| error reporting | `error.c` | position in the source file | print a diagnostic, go to a line | ends for every line number |
| driver | `main.c`, `parser.c` | options, open files | read the options, phases in order, exit handler | the exit code tells how far it came; no output for a program with errors |
| lexer, grammar | `tpc.lex`, `tpc.y` | `nbline`, `nbchar`, start condition | tokens, tree building | positions; generated automata |
| tree | `tree.c` | `firstChild`, `nextSibling` | add child, add sibling, delete, print | every node freed once |

The tables keep their symbols in lists (`ArrayList_sorted_insert`,
`ArrayList_search`); the checks and the generator ask the tables to resolve
names; the generator's text calls the functions of `builtins.asm`, which is
appended to it.

What is hard in this code is not concurrency, of which there is none, but:

  - **invariants spread over several functions**: the list that `bsearch` is
    called on is only in order because another dichotomy placed every element;
    the address of a local variable depends on a counter of another table, read
    once; the caller, the prologue, each `return` and the epilogue must agree on
    the stack without any shared description of it;
  - **the stack as a protocol**: an expression leaves one word, whatever path
    and/or take, an instruction none, arguments go right to left and the first
    six leave the stack before the call, the others after it;
  - **limits**: the sixth and seventh parameter, a full list, an array whose
    size does not fit an `int`, quotients that do not exist, the end of input;
  - **errors that travel as bits** through six functions of the checks, and decide
    whether a text is written and what the exit code is; a name that is not found
    leaves the program in the middle of an expression;
  - **one stream for two readers**: the parser reads the source to its end, and
    every report goes back into it to show a line;
  - **steps that fail in the middle**: `realloc`, the opening of a file, bison's
    own stack, and results that callers drop.

`PROJECT.json` lists these hazards, each at its line, with the properties that
would catch it.

## 2. Plan

In order of importance; each module was written to be extended by the next.

1. `ArrayList` with its abstraction `LookupSet`, and proofs. *Done.*
2. `Tables`, `SymbolTable` with its abstraction `Scopes`, and proofs. *Done.*
   The list of a table is a set there: that is what step 1 shows.
3. `Program` (a tree and the tables of step 2), `CodeGen` (the translation, a
   function of a program), `Semantics` (what a program means), `Machine` (the
   processor that runs the text). *Done*, with the built-in functions as single
   steps.
4. `Semantic` (the checks) against `Typing` (the rules of the language), and what
   the generator relies on. *Done*; the last property is where the code fails.
5. `Builtins`: the four functions of `builtins.asm` instruction by instruction,
   with its abstraction `Console`, and proofs, of the refinement too. *Done.* It
   justifies the single steps of `Machine`.
6. `Driver`: `main.c`, `parser.c` and `error.c` around the phases, and proofs.
   *Done.*
7. The translation and the checks as functions that the proof system takes
   (`Trees`, and no `RECURSIVE` in `CodeGen` and `Semantic`), and proofs about
   every program of the grammar. *Done* for the labels and jumps of the text, the
   types of the processor, the reports of the checks, and for what the checks
   leave to the generator: a program that is accepted, with a name wherever an
   array is expected, is `Translatable`.
8. `Discipline`, what the code does to the stack whatever it computes, and proofs for
   every program. *Done*: each instruction of a text has a depth, and
   `rsp = rbp - frame - 8 * depth` there.

    Words, Trees <- Tables, Program <- CodeGen <- Machine <- Discipline <- Agreement <- MCMachine
                                                           Semantics <-------'
                    Program <- Semantic <- SemanticRules <- MCSemantic  (Typing inside)
             Tables <- SymbolTable (Scopes inside)
    Words <- Builtins (Console inside)      ArrayList (LookupSet inside)      Driver

`Syntax` builds the trees of `MCMachine` and `MCSemantic`.

## 3. The modules

**`ArrayList`** (`arraylist.c`). The variables are the fields of the struct and
the locals of the call in progress: `pc`, `op`, `elem`, and the window
`left..right` of `_ArrayList_bsearch_index` or of the C library's `bsearch`. One
action per call (`CallInsert`, `CallAppend`, `CallSearch`, `Pop`, `Clear`,
`Resize`, `Sort`, `ShrinkToFit`, `Free`, `Reinit`), and one per step a call
takes: `Extend` or `ExtendFails` (realloc is free to fail), `BsearchStep` and
`BsearchExit`, `SearchStep` and `SearchMiss`, `Store`. A block that grows holds
`Junk` where nothing was written. A list is used as a symbol table
(`SortedSpec`) or as any list (`ListSpec`), as the compiler's own lists are;
`ArrayList_resize` is only used to truncate, since above the old length it would
expose cells nobody wrote, against `arraylist.h:137`.

**`LookupSet`** is what a sorted list promises: a set of keys, one question at a
time, an insertion may fail without loss. `ArrayList` implements it with
`keys <- Stored`, the elements below `len`.

**`Tables`** holds what is a function of its arguments in `symbolTable.c`: the
symbol each declaration makes (with the conversion of its size to `int`),
`_ST_add` as `Add` (`Address`, `NextAddr`, `NextAddrParam`, and the lists that
fail to grow, `FullAt`), the built-in functions, `Get` and `ScopeIn`
(`ST_get`, `ST_resolve`).

**`SymbolTable`** (`ProgramST_from_Prog`). The variables are the globals, the
list of functions, the function being filled, the part of the program being read
and the error bits. One action per declaration and one for each thing the pass
does between them: `AddDefaultFunction`, `BeginGlobals`, `DeclareGlobal`,
`BeginFunction`, `DeclareParam`, `BeginLocals`, `DeclareLocal`, `EndFunction`
(the check of locals against parameters, then the append), `EndProgram`. The
program is not fixed: each declaration may be any, so a run covers every program
within the bounds.

**`Scopes`** is the language's rule for redeclarations: two scopes, one of the
program and one of each function. `SymbolTable` implements it with the names of
its tables.

**`Trees`** is the grammar of `tpc.y` as sets: `Exps(s)` and `Instrs(s)` are the
trees that its rules build over the names of a scope `s`, up to the height
`Height`; a node is `[label, ident, num, child]`. A scope says which names may
stand for a value, for an array and for a function of so many arguments, which
functions leave a value for an operand (`codeWriter.c:338`), which arguments are to
be names and no more, and whether a return has an expression (`treeReader.c:224`).
`AnyScope` is all that the parser looks at. **`Syntax`** has one operator per rule, which builds one tree:
the runs write their programs with it.

**`Program`** is what the checks and the generator both read: the declarations
and definitions of a program, and the tables that `Tables` makes of one without
redeclarations. `Translatable` is what the assertions of the generator ask of a
program: its trees are in the grammar restricted to the names of the right kind
and values (`Scope`). `NamesArrays` asks for a name wherever the parameter is an array
(`NamingScope`), and leaves all else to the checks.

**`Semantic`** (`semantic.c`). One operator per C function, from a node to what
it prints, the error bits it returns and its type; the C functions print as they
go, so the log is a sequence and the order of the operators' parts is that of the
calls. The recursion over the tree is by height: `Expr(f)` is the last of the
functions `upTo[h]` on the trees of height `h`, each of which calls the one
before. `Load` chooses a program and makes its tables, `DeclFonct` checks one
function definition, `CheckMain` the main. `ST_resolve_from_node` calls `exit` when a
name is not found: the action cuts the log there and the phase is `"exited"`.
`att` is a union, and one check reads the name of a node that may be a number:
`Spelling` says which name it reads.

**`SemanticRules`** states what the checks say against the rules of the language
(`Typing`) and what the generator takes for granted.

**`Typing`** says what is wrong in a program without any order of visit: one set
of places for each rule, a place being the path to a node. `Expected` leaves out
the places inside something that has no meaning already (the arguments of a
variable that is called): there the code says nothing, and one report is enough.

**`CodeGen`** (`treeReader.c`, `codeWriter.c`). One operator per C function, from
a piece of the tree and the two counters where its text begins to that text and
the counters behind it; instructions are tuples, comments of the text are left
out. The recursion is by height, as in `Semantic`. The symbol tables come from
`Program`, so the addresses in the text are those of `_ST_add`.

**`Semantics`** says what a program means with environments and no stack,
registers or addresses: every variable of every call has its own words, an array
parameter stands for an array. The order of evaluation is the generator's
(operands left to right, arguments right to left, the value of an assignment
before its place), which the language leaves open. A program that reads a word
nobody wrote has no meaning and is not compared.

**`Machine`** runs the text, **`Agreement`** compares what it does with `Semantics`. `Load`
compiles a program chosen in `Init` and loads its text, which `Link` makes of what
the generator wrote; then one action per kind of instruction: `PushStep`, `PopStep`,
`MovStep`, `LeaStep`, `ComputeStep`, `NegStep`, `CqoStep`, `IdivStep`,
`DivisionFault`, `CompareStep`, `SeteStep`, `MovzxStep`, `JumpStep`,
`LabelStep`, `CallStep`, `RetStep`, `BuiltinStep`, `ExitStep`, `Crash`. What was
never written holds an arbitrary word, one of `Fills`, so that code which relies
on it disagrees with itself. A built-in function destroys every register it may
destroy and the stack below `rsp`. The processor is not part of the repository:
its actions are marked external in `PROJECT.json`, and limited to what the
generator's text uses. `getint` and `getchar` read from one sequence of words,
0 after its end. `Agreement` adds `expected`, the run that the program means,
picked when the program is loaded.

**`Discipline`** watches `Machine`: what is on the stack from the last word of the
caller downwards, and which of these words a call needs to return (`Links`). Two
things can spoil it, and the language checks neither: a stack that is used up
(`RunsOut`) and an element written outside of its array that hits one of `Links`
(`Strays`). The history variable `intact` tells that neither has happened yet; it
has no influence on a step. The three properties of the stack are stated there,
under `intact`: they do not ask that the program means anything, so that a program
that reads what nobody wrote, or that writes over another variable, is included.
`Agrees` says that a program that means something stays intact.

**`Builtins`** (`builtins.asm`). The variables are the registers the functions
use, the stack of the call, the input and the output. One action per call
(`Getchar`, `Putchar`, `Getint`, `Putint`), one per turn of the four loops
(`ReadMinus`, `ReadDigit`, `AddDigit`, `Divide`, `WriteDigit`) and per way out
(`ReadOther`, `ReadEnd`, `SignNumber`, `Leave`). A call that leaves with a digit
where the return address should be is `"lost"`. `write` and `read` are system
calls: they never fail in the model.

**`Console`** is what the four functions promise: a character, a number with an
optional minus and the character behind it, a number in decimal, each in one
step. `Builtins` implements it, a call becoming visible when it comes back.

**`Driver`** (`main.c`, `parser.c`, `error.c`). The phases of `main`, with its
early returns and the exits of what it calls: `ReadOption` (`getopt_long` and the `switch`), `ReadPaths` (the
name of the output is built from a path, a sequence of pieces), `OpenSource`, the
four ways in which the parser comes back (`Parsed`, `SyntaxError`, `StackFull`,
`ParserExits`), `ShowTree`, `SymbolsDone`, `ChecksDone`, `OpenOutput`,
`Generate` or `GenerateAborts`, `AtExit`. Between them the tables and the checks
report what they like, within `MaxReports`: `SymbolError`, `CheckError`,
`CheckWarning`, `Undeclared`. The last one is `ST_resolve_from_node`, which both the
checks and the generator call: from the generator it leaves an output that is cut
short, with a report and the exit code 2. A report with a source goes through `Rewind`,
`SkipLine` or `ReadPastEnd`, and `ShowLine` (`_go_to_line`,
`print_one_line_from_file`), which move the stream that the parser reads. `told`
and `reports` are ghosts: what was reported.

**`Words`** is the arithmetic of a word of any width. The `MC` modules hold the
constants of the runs; `MCMachine`, `MCSemantic` and `MCDriver` also hold the
families of programs and of command lines. Operators whose comment begins with
*Mistake* are wrong versions of the definition that follows them; `PROJECT.json`
names the property each of them breaks.

## 4. The runs

| run | asks | bounds |
|---|---|---|
| `arraylist_sorted` | is a sorted list the set of its keys, do both dichotomies stay in their windows and end, when memory may run out at any extension? | five keys, capacity 3, then 6, up to 7 elements |
| `arraylist_list` | under any sequence of list calls, is every used cell written and in the block, do elements keep their places? | three keys, capacity 1, 2, 4, up to 4 elements |
| `symbols_frame` | do the globals fill the block reserved for them, do variables ever share a byte, are parameters where the caller left them, when an insertion may fail? | 2 globals behind the built-ins, one function with 3 parameters for 2 registers and 2 locals, arrays of 0 and 2 words |
| `symbols_names` | are the redeclarations reported those of the language, do the two lists of functions agree? | 2 functions, 3 names, one of them `getint`'s |
| `symbols_overflow` | *finding*: `total_size` is the size of the array, as `symbol.h:31` says | an int of 8 bits |
| `machine` | does the text compute what the program means, balance its calls, keep to its frames, and end? | some 1200 programs: expressions over every operator, instructions two deep, functions of 0 to 8 parameters; words of 16 bits, two fills |
| `semantic` | are the reports those the rules of the language ask for, each as often as the tree tells, do they all count, and can what is accepted be translated? | some 5000 programs: every atom in every place, one operator, index or call over it, instructions three deep |
| `semantic_arrays` | *finding*: what is accepted can be translated, whatever is given for an array | every expression of the run before as an argument |
| `builtins` | do the four functions do what they promise, with the stack as they found it, and come back? | words of ten bits, two calls, inputs of up to 4 characters and 8 long ones, 15 numbers |
| `builtins_end` | *finding*: a call comes back whatever is read | inputs of up to 3 characters |
| `builtins_eof` | *finding*: `getchar` answers `EOF` at the end of the input, as `test/builtins/getchar.c:8` expects | one call, inputs of up to 3 characters |
| `driver` | do exit code and output file tell how far the compiler came, is the right line shown, does it end? | up to 2 options, paths of up to 5 pieces, 3 reports, 2 lines |

Why the bounds are enough. The dichotomies behave by the parity and the ends of
a window: windows of up to seven cells contain every case of both, twice over,
and two extensions happen. With two registers for six and three parameters, the
last parameter in a register and the first one on the stack are both there, in
each order with arrays and names that clash. Words of 16 bits overflow and have
a least word without opposite, and differ from 64 in no operation the text uses;
so do words of ten bits, where four digits already overflow. Two nested
instructions are the least that can confuse their label numbers, and eight
parameters leave two on the stack, which tells their order. A check looks at a
node, its children and the function it is in: one operator over every kind of
atom reaches every branch, and three nested instructions show the double visits
that grow with the depth. `Height` cuts no program of the runs: it is above the
height of each of them (9 for the programs of the checks, 20 for the sums of
eight parameters of the machine's), and a tree above it would be an error of the
run. Two calls are the least that see what the first one
left behind. In five pieces a path has a dot in a directory, in a name, in both,
none, and one at either end. With three reports every phase reports after an
earlier report moved the stream. What the runs cannot exclude by size, the
theorems of section 6 exclude for lists, layouts, the stack, built-in functions and
phases.

Four runs show that the code does what its documentation excludes or what nobody
can have meant.

  - `symbols_overflow`: the size of an array is computed in a `size_t` and kept in
    an `int`; it wraps for long arrays, and the variable declared next is given
    an address inside the array.
  - `semantic_arrays`: what is given for an array is looked up by its name and
    never checked as an expression (`semantic.c:81`). An element of an array
    passes, with any index: the generator then stops at an assertion, or leaves
    with 2 at a name that does not exist (`symbolTable.c:183`), in both cases with
    the output file open and half written.
  - `builtins_end`: the end of the input behind a digit takes `getint` to its end
    with the digits still on the stack (`builtins.asm:115`): it returns to the
    saved `rbp`.
  - `builtins_eof`: at the end of the input `getchar` answers 0 (`builtins.asm:49`),
    at every call. `Console` promises no more than that. Its labels are global so that
    programs compiled by gcc can be linked with it, and the one the repository has for
    it (`test/builtins/getchar.c:8`) reads until `EOF`: it never ends.

Four more things the passing properties state as exceptions. `EndsOrAstray`: the
compiler looks for ever for a line that is not there (`error.c:55`), and a missing
return in the last function is reported one line too far (`semantic.c:490`).
`ExitTells`: with bison's stack full and `-a` the exit code is 0, since `main.c:52`
only looks for parse errors; and `-w` gives the help and 1, though the help
(`parser.c:38`) and the report (`rep/rapport.md:35`) name it, since it is not among the
letters given to `getopt_long` (`parser.c:101`): every other documented option is
taken, in both its forms. `ReportedOnce`: behind an `if` whose first branch has
no block, what is in the else branch is reported twice (`semantic.c:454`).

`CHECK_DEADLOCK FALSE` stands where the system stops by design: a program whose
declarations are read or that is checked, a process that has exited, calls at
their bound.

The properties, by what they protect:

  - `Sorted`, `WindowSound`, `StoreSound`, `UsedCellsWritten`,
    `InsertionOrderKept`: the list, at every step of every call.
  - `GlobalLayout`, `FrameLayout`, `StorageDisjoint`, `ParametersInPlace`: who
    owns which byte, whatever was declared before and whatever failed.
  - `Agrees`: the compiled program against `Semantics`: its output at every
    moment, its end, its exit code, its global variables.
  - `CallsBalanced`, `StatementsLeaveNothing`, `AccessesInFrames`: the stack
    protocol, which a program that computes the right result may still break, and
    which holds of programs that mean nothing too.
  - `LabelsUnique`: the text is one nasm accepts.
  - `ReportsExpected`, `ReportedOnce`, `SaidBeforeExit`: what the checks say
    is what the rules refuse, no more, no less, and as often as stated.
  - `LeftAtFirstUndeclared`: the exit in the middle of an expression is taken at
    the first name that is missing, and never passed.
  - `EveryReportCounts`, `AcceptedIsTranslatable`: what is accepted was not
    complained about, and the generator's assertions hold for it: it is in the
    grammar that `ProgramsAssumption` of `Machine` asks for.
  - `DigitsCounted`, `ComesBack`, `ImplementsConsole`: `r12` and the stack agree,
    so the built-in functions return, with the right number.
  - `ExitTells`, `OutputTells`, `NamedAfterSource`, `LineShown`: what the user
    sees of a run is what happened in it. An output that is not whole is never
    announced by 0, and there is one way to it: a name no check looked at.
    `GenerateAborts` ends a run without the exit handler and is not among the ends
    these speak of: an assertion that fails kills the process, with half a file.

## 5. Fairness

`FairSortedSpec` assumes that a call of the list goes on while it can
(`WF_vars(Step)`); callers are free never to call. `FairSpec` of `Machine` and of
`Builtins` assume the same of the processor, `FairSpec` of `Driver` of the
compiler. All are what a sequential process gets from any operating system.
`CallsReturn` then says that every call of the list, or of a built-in function,
returns; `Halts` that the programs of the runs end: none of them loops forever
in `Semantics`; `EndsOrAstray` that the compiler ends, unless it looks for a line
that is not there. In `Driver` the step that reads past the end changes nothing,
so fairness cannot leave it: that is the endless loop of the code. The number of
reports is bounded in the model as the number of nodes is in a program.

## 6. What is proved

For every value of the constants, with `tlapm`:

**`ArrayListProofs`**: `TypeCorrect`, `AlwaysSorted`, `WindowsAreSound`,
`StoresAreSound`, and `ImplementsLookupSet`, that the list is a set of keys. The invariant `IInv` adds to the checked
properties that `op`, `pc` and `live` match (`CallsMatch`): order alone is not
inductive, since `Store` only keeps it because the window of the dichotomy, when
it closes, has smaller elements on its left and larger ones on its right
(`StoreSound`), which in turn is what every `BsearchStep` keeps of `WindowSound`.
The lemmas are about the middle of a window and about `Multiplier`, of which the
proof needs that it is at least 2. The refinement then has one case per action;
only `Store`, and an answer of `bsearch`, change what the set sees.

Also `OnlyWrittenCellsUsed` and `PlacesKept`, for every list,
sorted or not (`ListSpec`). The invariant `ListInv` adds that an append stores
behind the last element, inside the block, and that a live block has a cell:
doubling an extent of zero would make no room. `PlacesKept` is then a fact of
every step (`CellsKept`), whether the block was copied, kept or lost.

**`SymbolTableProofs`**: under `MaxFrame <= IntMax` (the bytes declared in one
table can be counted in an `int`, the condition that `symbols_overflow` shows to
be necessary): `TypeCorrect`, `GlobalsSideBySide`, `FramesSideBySide`,
`VariablesDisjoint`. The invariant `IInv` adds the place of the counters
(`ParamLayout`, `LocalLayout`), that no variable is global before the counter is
reset after the built-in functions, and that a function has no local variable
before its offset is set: without these, the next declaration could land
anywhere. That the block of the globals has no gap (`AddFilled`) needs
`GlobalsGrow`, that no insertion in their list fails, which the property states. One lemma per kind of table says what `Add` keeps, one per action
that it keeps the invariant.

Also `ParametersWhereCallersPut`, under the same condition. Its invariant `ParamsInPlace` says where the next parameter will be read, and
that the counters run ahead of the list after an insertion that failed, when
the property promises nothing any more. `FunctionsFound` needs `GlobalsGrow` as
well: a function whose insertion
in the globals failed is still defined. Its invariant `SameFunctions` sets the
function being declared, which the globals have and the list of functions does
not have yet, apart from those listed.

Also `ImplementsScopesOfLanguage`, the refinement of `Scopes`, when
no list fails to grow (`FullAt = {}`). One lemma per action finds the step of
`Scopes` it is; a local variable that hides a parameter is a fault there at once,
here only at the end of the function, which is what the mapping of `faulty`
bridges.

**`BuiltinsProofs`**: `TypeCorrect` and `DigitsAreCounted` for any input and words
of any width, and `CallsComeBack` when no digit is the last thing to be read in
any input, the condition that `builtins_end` shows to be necessary. `r12` alone is
not inductive: that the loops that pop start and stop at 20 needs the digits to be
above the frame of the call, and the two together make `Leave` find the frame.
`CallsComeBack` adds (`Ended`) that the rest of the input is terminated too, and
that behind a digit there is a character that is not 0.

Also `BuiltinsDoTheirWork`, the refinement of `Console`, under the
same condition. Its invariant `Calling` says what a call has done so far: `getint`
holds the digits behind the minus (`Pushing`), then owes the number of the digits
still held times `r14` (`Adding`, an equation modulo the words); `putint` holds the
digits that come behind those of `r13` (`Dividing`, `Writing`). What the recursive
functions of `Console` compute (`ValuesAre`, `DigitsAre`) is not shown by an
induction theorem but by the least number for which it would fail (`LeastOf`).
The arithmetic is in `DigitMoved`, for the sums and powers that wrap, and
`MagnitudeIs`, for the least word, which is its own opposite and right all the same
because `idiv` takes it without a sign.

**`DriverProofs`**: `Types`, `ExitCodeTells` and `OutputIsTold`, for every command line,
every source and any number of reports. The invariant `Phases` ties each phase to
what can have been told when it is reached, to the levels in `err` and to the
state of the output file (`Handle` adds that it is closed when it was opened), and keeps the command line,
of which the help with 1 has refused an option that is not documented
(`DocumentedIsKnown`); a report leaves for the place it came from, which is
why the phase it returns to is a part of it. `ReportedLineShown` adds (`Reading`)
that while lines are skipped in a file the stream stands at the first character
of the current one. `OutputNamedAfterSource` is about any path of pieces: that a
path has a last slash and a last dot comes from the natural numbers being well
ordered (`LastOfPlaces`), and that cutting at the last dot of the whole path cuts
the name at its own from comparing both places (`CutIsStem`).

**`ProgramProofs`** holds what the next two rest on: the shape of the tables of a
program (`Add` keeps a table a table, a name that resolves has a symbol with an
address), and the levels of `Trees` and of the functions by height. Induction over
the height is by the least height that fails (`LeastNumber`, `Reaches`), since
the induction theorems of the library take an operator.

**`SemanticProofs`**: for every program of the grammar, `Types`, `NoReportIsLost`,
`ExitIsAtFirstUndeclared` and `AcceptedCanBeTranslated`. One predicate on results, that the log is of
reports and the errors are the kinds in it, is kept by every way in which the
checks combine results (`Then`, `ThenAll`, `WithType`, `If`): one lemma per check,
under the hypothesis that it holds of lower trees, then all heights. What is
accumulated over the definitions is then exact in every phase, and the cut of the
log at the exit leaves one report of a missing name, the last.

`AcceptedCanBeTranslated` is about what a result without errors (`Clean`) leaves.
Over trees of `NamingScope`, a clean check leaves a tree of `Scope` (`Keeps`): one
lemma per check, then all heights of expressions, then of instructions. Two things
make it more than a walk over the tree. The lone name of an array is never checked
as an expression, and is an argument all the same (`KeepsArrays`): it is clean only
when the symbol is an array. And a block under an `if` or a `while` is not checked
itself, its instructions are, by the checks of a greater height than their own
(`KeepsUpTo`, `KeepsLists`). Without `NamesArrays` the theorem is false: that is the
finding of `semantic_arrays`. The invariant `CInv` adds to that of the reports that
the errors of every definition read, and of main, are among those returned.

**`MachineProofs`**: for every set of programs that meet `ProgramsAssumption`,
`ProgramText`, `NoLabelTwice` and `Types`. The text of a tree is a `Piece`: between
the counters where it begins and those behind it, it defines each of its labels
once, all of them with numbers in between (`Fresh`), but for a set `L` that it is
given, and jumps to its own labels or to a set `J` that it is given. A tree is
`Closed` when both sets are empty. Pieces put one behind the other are a piece
(`ThenPiece`, `EmitPiece`), because their numbers do not meet; each construct of
the language is shown closed when its parts are, then all heights, then the
functions of a program, whose labels differ by the name of the function. The
mutant of `If` that does not take its number breaks `IfClosed`. `ProgText` is what
the processor needs of the text: no label twice, every jump has a target, every
function called is in the text or in `builtins.asm`, and a `ret` comes last, so
that no instruction before it runs off the end. `MInv` adds to `TypeOK` that the text is
that of the program and that every instruction has one of the forms of
`OpForms`: without the first, the next instruction might not exist; without the
second, an operand might not be a word. `RemainderWord` is the arithmetic of
`idiv`, whose remainder is always a word.

**`DisciplineProofs`**: for every program that the checks accept, whatever it reads
and however long it runs, `CallsReturn`, `NothingLeft` and `VariablesInFrames`, the
three properties of the stack. The stack cannot be followed by a walk over the tree:
the processor only has the text, and a jump may come from anywhere. So the proof has
two parts.

The first is about texts. Each instruction has a *site*: the function it belongs to
and its level, the number of words that expressions have pushed when it begins, or
how much of the frame there is in the prologue and the epilogue. `Follows` says
which level each instruction needs and leaves, and what it may name there; a text is
`Sited` when there is one site for each of its instructions such that every way
to it agrees: the instruction before, and every jump to its label. The text of an
expression goes from any level to the one above, of a call from any level to
itself or, as an operand, to the next, of an instruction from 0 to 0; what stands behind
the `ret` of a `return` begins at 0 again. Each construct is shown sited when its parts are,
then all heights, functions and programs. That arguments left by the caller are
dropped by the caller, that both branches of and/or push as often, and that
the variables of a function fit in the room that its prologue makes are steps of this
part; the last uses the layout of the tables (`LayoutAssumption`), carried over
from lists of declarations to `ProgramTables`.

The second part follows the registers and the memory. The invariant `DInv`
(theorem `StackInvariant`) says of the calls in progress that each one was made at a
site of the text, and lies below the one before by just the frame, the pushed words
and the arguments of that site; that the return address and the saved rbp of
each are still in memory; and that rsp and rbp are what the site of the next
instruction tells. None of the three properties is inductive: `ret` finds its address
only because no write since the call could hit it, which needs all of the layout.
Every write is to a variable (`CellApart`), to a word below all frames (a push), or to
an element, which `intact` is about.

Its assumptions: those of `MachineProofs`; `LayoutAssumption`, that no list failed to
grow, that the programs' symbols have the sizes the declarations give them, that
an `int` can count the bytes of a table, and that `main` has no parameters
(`semantic.c:528`); `SectionsAssumption`, that stack and section bss do not overlap. The
theorems are about `DisciplineSpec`; the run checks them under `AgreementSpec`,
which only adds the variable `expected`.

The assumptions on constants (`KeyAssumption`, `CapacityAssumption`,
`NbRegsAssumption`, `EaxAssumption`, ...) are those the C code's own constants
meet; TLC evaluates each of them in the runs. `ProgramsAssumption` is what the
checks leave: no name twice, a `main`, and what `Translatable` asks, the last two
by `AcceptedCanBeTranslated`. It adds that
no function is named `_start`, which the compiler does not look at (`nasm` refuses
such a text), and that every instruction has an address. `RegistersAssumption`
says that there are six registers for parameters.

## 7. What is only model-checked, and what is not modelled

Only checked:

  - `CallsReturn`, `Halts` and `EndsOrAstray`: liveness under fairness.
  - `ReportsExpected`, `SaidBeforeExit` and `ReportedOnce`: `Typing` walks the tree
    with `RECURSIVE` operators, which the proof system does not take in a module
    with a theorem.
  - `Agrees`: it is about runs that `Semantics` gives a meaning to, another interpreter
    with `RECURSIVE` operators. It includes that a program with a meaning stays
    `intact`, the condition of the theorems about the stack: that it has room
    enough is a matter of the run, and that its elements are inside of their arrays
    is what having a meaning says.

Not modelled: the automata flex and bison generate (how the parser comes back is
in `Driver`, what its rules build in `Trees` and `Syntax`); the printing of trees and tables
and the wording of messages; the release of the tables at exit; the comments of
the assembly text; failing `write`, `read` and `fclose`;
an append to the list of functions that fails for want of memory
(`symbolTable.c:466`, `:520`), which would lose a function whose name the globals
have. Left out of `Driver`:
abbreviations of long options, paths as long as `PATH_MAX`, and a source whose
name is that of its own output (`x.asm` in the current directory), which the
compiler overwrites. Identifiers are opaque: that a function named like a register
gives a text nasm reads otherwise is outside `CodeGen`.
