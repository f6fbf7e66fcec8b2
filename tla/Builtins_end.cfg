\* Input that may end behind a digit.
CONSTANTS
    WordMax = 511
    EaxSize = 256
    Inputs <- AnyInputs
    Characters <- SomeCharacters
    Numbers <- SomeNumbers
    MaxCalls = 2
SPECIFICATION Spec
INVARIANTS ComesBack
CHECK_DEADLOCK FALSE
