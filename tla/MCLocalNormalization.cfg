SPECIFICATION Spec
CONSTANTS
    Machines <- MCMachines
    FeatureMaps <- MCFeatureMaps
    Vectors <- MCVectors
    Weights <- MCWeights
    Zero <- MCZero
    Product <- MCProduct
    CountValues = {0, 1}
    SymbolBound = 2
    E <- MCE
INVARIANTS TypeOK Normalised CountsConserved

