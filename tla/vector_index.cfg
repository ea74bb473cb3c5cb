CONSTANTS
    Rows = {r1, r2, r3}
    Vecs = {1, 2}
    NoVec = NoVec
    Absent = Absent
    Readers = {reader}
    EmptyCore <- NoEntries
    CoreInsert <- ListInsert
    CoreSearch <- ListSearch
    CoreEntries <- ListEntries
    ReuseRowIds = FALSE
    MaxAppends = 3
    MaxLog = 4
    MaxLimit = 2
SPECIFICATION Spec
INVARIANTS
    IndexCoversTable
    CleanMeansSaved
    HitsWereLive
    RowReturnedOnce
    ScanIsFull
    MultiScanShortOnlyOfDeleted
SYMMETRY RowSymmetry
