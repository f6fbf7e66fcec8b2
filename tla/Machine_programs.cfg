\* Expressions, instructions and calls.  Words of 16 bits, 100 words of stack.
CONSTANTS
    NbRegs = 6
    IntMax = 32767
    FullAt <- NothingLost
    Height = 20
    WordMax = 32767
    Programs <- AllPrograms
    Inputs <- OneInput
    Fills <- TwoFills
    GlobalVars = 4096
    StackTop = 2040
    StackSize = 800
SPECIFICATION FairSpec
INVARIANTS TypeOK Agrees LabelsUnique CallsBalanced StatementsLeaveNothing AccessesInFrames
PROPERTIES Halts
CHECK_DEADLOCK FALSE
