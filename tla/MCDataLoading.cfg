SPECIFICATION Spec
CONSTANTS
    a = a
    b = b
    comma = comma
    sharp = sharp
    Chars = {a, b, comma, sharp}
    Comma = comma
    Files <- MCFiles
    MaxNum = 4
INVARIANTS TypeOK SpelledForward LegalFileLoads
CHECK_DEADLOCK FALSE
