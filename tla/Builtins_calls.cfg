\* Two calls in any order; every number that is read has a character behind it.
CONSTANTS
    WordMax = 511
    EaxSize = 256
    Inputs <- TerminatedInputs
    Characters <- SomeCharacters
    Numbers <- SomeNumbers
    MaxCalls = 2
SPECIFICATION FairSpec
INVARIANTS TypeOK DigitsCounted ComesBack
PROPERTIES ImplementsConsole CallsReturn
CHECK_DEADLOCK FALSE
