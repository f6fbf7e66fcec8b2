\* Options, paths, up to three reports.
CONSTANTS
    Commands <- SomeCommands
    Source <- SomeSource
    Locked <- SomeLocked
    MaxReports = 3
    None = None
SPECIFICATION FairSpec
INVARIANTS TypeOK ExitTells OutputTells NamedAfterSource
PROPERTIES LineShown EndsOrAstray
