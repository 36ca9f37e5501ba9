SPECIFICATION Spec
CONSTANTS
    Machines <- MCMachines
    FeatureMaps <- MCFeatureMaps
    Vectors <- MCVectors
    Weights <- MCWeights
    Zero <- MCZero
    Product <- MCProduct
    CountValues = {0, 1}
    SymbolBound = 1
    E <- MCE
INVARIANTS SymbolBoundSuffices
