CONSTANTS
    Key = {1, 2, 3}
    Junk = Junk
    InitialCapacity = 1
    Multiplier = 2
    MaxLen = 4
SPECIFICATION ListSpec
INVARIANTS UsedCellsWritten
PROPERTIES InsertionOrderKept
