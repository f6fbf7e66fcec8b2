---------------------------- MODULE MCSymbolTable ----------------------------
(* Small programs for SymbolTable.                                         *)
EXTENDS SymbolTable, TLC

CONSTANTS id1, id2, id3  \* identifiers

\* The names that are no built-in's may be exchanged.
Exchangeable == Permutations(Ident \ {"getint"})

\* The list of the parameters can, or cannot, take a third one.
ThirdParameterLost == {<<"param", 2>>}
NothingLost == {}
=============================================================================
