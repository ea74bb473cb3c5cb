CONSTANTS
    Vectors = {1, 2, 5}
    Queries = {2}
    Dist <- LineDist
    CodeDist <- LineDist
    R = 2
    LParam = 1
    AlphaNum = 6
    AlphaDen = 5
    Ks = {1, 3}
    LSearches = {0, 1}
    MaxNodes = 5
SPECIFICATION Spec
INVARIANTS
    SimpleLists
    LoopMatchesDefinition
    SmallIndexIsExact
