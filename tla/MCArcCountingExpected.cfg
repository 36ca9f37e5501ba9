\* Windows: ulc_max, urc_max, llc_max = 1, 1, 1
SPECIFICATION EvalSpec
CONSTANTS
    a = a
    b = b
    V1 = {a}
    V2 = {b}
    Sharp = Sharp
    Eps = Eps
    FinalState = FinalState
    Nine = Nine
    NoState = NoState
    UlcMax = 1
    UrcMax = 1
    LlcMax = 1
    MaxWord = 1
    MaxOutput = 1
    MaxTestWord = 1
    MaxStates = 12
    MaxArcs = 3
    N = 1
    TestExemplars <- MCTestExemplars
    Exemplars <- MCExemplars
    Scores <- MCSkewedScores
    EditWeight <- MCEditWeight
INVARIANTS
    ExpectedEditIsToTheOneBest
CHECK_DEADLOCK FALSE
