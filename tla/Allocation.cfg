CONSTANTS
    MaxQuantity = 6
    MaxWeight = 3
    MaxTargets = 3
SPECIFICATION Spec
INVARIANTS
    Conserves
    NearestShares
    FractionsAreNearest
    FullFillKeepsPlan
