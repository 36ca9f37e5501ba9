\* Windows: ulc_max, urc_max, llc_max = 1, 1, 1
SPECIFICATION EvalSpec
CONSTANTS
    a = a
    b = b
    V1 = {a}
    V2 = {b}
    Sharp = Sharp
    Eps = Eps
    FinalState = FinalState
    Nine = Nine
    NoState = NoState
    UlcMax = 1
    UrcMax = 1
    LlcMax = 1
    MaxWord = 3
    MaxOutput = 2
    MaxTestWord = 2
    MaxStates = 12
    MaxArcs = 3
    N = 2
    TestExemplars <- MCTestExemplars
    Exemplars <- MCExemplars
    Scores <- MCScores
    EditWeight <- MCEditWeight
INVARIANTS
    FeatTypeOK
    FeaturesOfTheArc
    FullContextIsOwn
    CountTypeOK
    LatticeNotEmpty
    CreditedToItsArc
    OnePathPerEditScript
    CountsArePathCounts
    CountsOfActions
    LogLossIsLikelihood
    ConditionalDistribution
CHECK_DEADLOCK FALSE
