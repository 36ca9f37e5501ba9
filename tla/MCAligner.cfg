\* Windows: ulc_max = 1, urc_max = 2, llc_max = 1
SPECIFICATION AlignFairSpec
CONSTANTS
    a = a
    b = b
    c = c
    V1 = {a, b}
    V2 = {b, c}
    Sharp = Sharp
    Eps = Eps
    FinalState = FinalState
    Blank = Blank
    Undefined = Undefined
    UlcMax = 1
    UrcMax = 2
    LlcMax = 1
    Pad = 2
    MaxWord = 4
    MaxOutput = 3
    Words <- MCWords
    Outputs <- MCOutputs
INVARIANTS
    TypeOK
    RightWindow
    LeftWindows
    FinalReadsAll
    QueueIsRightWindow
    IsAlignment
PROPERTIES
    ReachesFinal
    ImplementsEditProcess
CHECK_DEADLOCK FALSE
