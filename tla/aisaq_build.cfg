CONSTANTS
    N = 5
    NumThreads = 3
    R = 2
    L = 2
    AlphaNum = 6
    AlphaDen = 5
    NEntryPoints = 2
    AnyStoreOrder = FALSE
    CodeDist <- LineDist
    LutDist <- LineDist
    Position <- FivePoints
SPECIFICATION FairSpec
INVARIANTS
    TypeOK
    NoHalfBuiltNode
    ForwardStoresArePrivate
    OneLockPerTask
    SoundLists
PROPERTIES
    EdgesLostOnlyToReprune
    BuildsAtomically
    BuildFinishes
