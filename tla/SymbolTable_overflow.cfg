\* An int of eight bits: an array of sixteen words is as long as it can count.
CONSTANTS
    id1 = id1
    id2 = id2
    id3 = id3
    Ident = {id1, id2, id3}
    Lengths = {1, 16}
    NbRegs = 2
    IntMax = 127
    MaxFrame = 200
    MaxGlobals = 5
    MaxParams = 3
    MaxLocals = 2
    MaxFunctions = 5
    FullAt <- NothingLost
SYMMETRY Exchangeable
SPECIFICATION Spec
INVARIANTS TotalSizeIsExact
CHECK_DEADLOCK FALSE
