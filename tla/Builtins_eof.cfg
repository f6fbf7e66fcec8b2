\* Input that ends, and a caller that was linked by gcc.
CONSTANTS
    WordMax = 511
    EaxSize = 256
    Inputs <- AnyInputs
    Characters <- SomeCharacters
    Numbers <- SomeNumbers
    MaxCalls = 1
SPECIFICATION Spec
INVARIANTS EndIsEOF
CHECK_DEADLOCK FALSE
