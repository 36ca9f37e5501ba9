SPECIFICATION Spec
CONSTANTS
    InSyms = {1, 2, 3}
    OutSyms = {1, 2, 3}
    Golds <- MCGolds
    Paths <- MCPaths
    N = 2
    Infinity = 100
INVARIANTS TypeOK EditsAreLevenshtein
CHECK_DEADLOCK FALSE
