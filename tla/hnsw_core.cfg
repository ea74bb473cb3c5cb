CONSTANTS
    Vectors = {1, 2, 4}
    Queries = {2}
    Dist <- LineDist
    CodeDist <- LineDist
    M = 1
    M0 = 2
    EfConstruction = 2
    Ef = 3
    MaxLevel = 1
    MaxNodes = 4
SPECIFICATION FairSpec
INVARIANTS
    NoReadPastBlock
    EntryIsTop
    SimpleLists
    SmallIndexIsExact
    LocallyOptimal
PROPERTIES
    OperationEnds
