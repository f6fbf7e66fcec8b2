\* Calls with every kind of argument for an array parameter.
CONSTANTS
    NbRegs = 6
    IntMax = 32767
    FullAt <- NothingLost
    Height = 9
    Sources <- ArraySources
    Letter <- OneLetterNames
SPECIFICATION Spec
INVARIANTS AcceptedTranslates
CHECK_DEADLOCK FALSE
