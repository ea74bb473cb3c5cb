CONSTANTS
    NList = 3
    KMeansIters = 3
    NProbe = 1
    ReplicaCount = 2
    ClosureNum = 2
    ClosureDen = 1
    Rows = {1, 2, 3, 4}
    InitialRows <- FirstRows
    Vectors = {6, 18}
    Null = Null
    SampleCap = 3
    Threads = {t1, t2}
SYMMETRY ThreadSymmetry
SPECIFICATION Spec
INVARIANTS
    EveryRowStored
    IvfCellKept
    OwnVectorFindsRow
    RowReturnedOnce
    FullProbeIsExact
CHECK_DEADLOCK FALSE
