CONSTANTS
    id1 = id1
    id2 = id2
    id3 = id3
    Ident = {id1, id2, "getint"}
    Lengths = {}
    NbRegs = 2
    IntMax = 127
    MaxFrame = 120
    MaxGlobals = 6
    MaxParams = 2
    MaxLocals = 1
    MaxFunctions = 6
    FullAt <- NothingLost
SYMMETRY Exchangeable
SPECIFICATION Spec
INVARIANTS FunctionTableAgrees
PROPERTIES ImplementsScopes
CHECK_DEADLOCK FALSE
