\* A symbol table: five keys, three cells at first.
CONSTANTS
    Key = {1, 2, 3, 4, 5}
    Junk = Junk
    InitialCapacity = 3
    Multiplier = 2
    MaxLen = 7
SPECIFICATION FairSortedSpec
INVARIANTS TypeOK Sorted WindowSound StoreSound
PROPERTIES Implements CallsReturn
