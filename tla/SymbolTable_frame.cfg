\* Two global variables, one function with three parameters for two registers and
\* two local variables.
CONSTANTS
    id1 = id1
    id2 = id2
    id3 = id3
    Ident = {id1, id2, id3}
    Lengths = {0, 2}
    NbRegs = 2
    IntMax = 127
    MaxFrame = 32
    MaxGlobals = 6
    MaxParams = 3
    MaxLocals = 2
    MaxFunctions = 5
    FullAt <- ThirdParameterLost
SYMMETRY Exchangeable
SPECIFICATION Spec
INVARIANTS TypeOK GlobalLayout FrameLayout StorageDisjoint ParametersInPlace
CHECK_DEADLOCK FALSE
