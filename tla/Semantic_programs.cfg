\* Every kind of name in every place; instructions three deep.
CONSTANTS
    NbRegs = 6
    IntMax = 32767
    FullAt <- NothingLost
    Height = 9
    Sources <- AllSources
    Letter <- OneLetterNames
SPECIFICATION Spec
INVARIANTS TypeOK EveryReportCounts LeftAtFirstUndeclared AcceptedIsTranslatable
    ReportsExpected SaidBeforeExit ReportedOnce
CHECK_DEADLOCK FALSE
