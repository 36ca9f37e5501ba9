SPECIFICATION Spec
CONSTANTS
    t0 = t0
    t1 = t1
    t2 = t2
    Theta = {t0, t1, t2}
    Theta0 = t0
    N = 2
    OuterMax = 3
    InnerMax = 3
    LineMax = 3
    Debug = FALSE
INVARIANTS
    GradientAtThatPoint
CHECK_DEADLOCK FALSE
