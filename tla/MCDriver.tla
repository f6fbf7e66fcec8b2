------------------------------- MODULE MCDriver -------------------------------
(***************************************************************************)
(* Command lines and files for Driver.                                     *)
(***************************************************************************)
EXTENDS Driver

Options == {"short", "long"} \X {"t", "a", "s", "w", "h", "x"}
OptionLists == {<<>>} \cup {<<o>> : o \in Options}
               \cup {<<<<"short", a>>, <<"long", b>>>> : a \in {"a", "t"}, b \in {"t", "a", "w"}}

\* a.b/n.tpc and the like: every path of up to five pieces that ends in a name.
Pieces == {"n", ".", "/"}
Paths == {p \in UNION {[1 .. k -> Pieces] : k \in 1 .. 5} : p[Len(p)] = "n"}
InDirectory == <<"d", "/", "n", ".", "tpc">>
FromPipe == <<"pipe">>
Directory == <<"d">>
Absent == <<"absent">>

\* Sources without a line feed, with two of them.
SomeSource ==
    [p \in Paths \cup {InDirectory, FromPipe, Directory} |->
        IF p = FromPipe THEN [lines |-> 1, kind |-> "pipe"]
        ELSE IF p = Directory THEN [lines |-> 0, kind |-> "directory"]
        ELSE [lines |-> IF p = InDirectory THEN 2 ELSE 0, kind |-> "file"]]

SomeCommands ==
    [options : OptionLists, paths : {<<>>, <<InDirectory>>, <<FromPipe>>, <<InDirectory, Absent>>}]
    \cup [options : {<<>>, <<<<"short", "s">>>>}, paths : {<<Absent>>, <<Directory>>}]
    \cup [options : {<<>>}, paths : {<<p>> : p \in Paths}]

SomeLocked == {DefaultOutputName(<<"n", "/", "n">>)}
=============================================================================
