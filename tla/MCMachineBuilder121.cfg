\* Windows: ulc_max, urc_max, llc_max = 1, 2, 1
SPECIFICATION Spec
CONSTANTS
    a = a
    b = b
    V1 = {a}
    V2 = {b}
    Sharp = Sharp
    Eps = Eps
    FinalState = FinalState
    NoState = NoState
    UlcMax = 1
    UrcMax = 2
    LlcMax = 1
INVARIANTS
    TypeOK
    NoKeyError
    ArcToActionCorrect
    EditsDoNotCompete
    Coaccessible
CHECK_DEADLOCK FALSE
