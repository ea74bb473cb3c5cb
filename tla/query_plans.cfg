CONSTANTS
    MinLabel = 0
    MaxLabel = 3
    Lut <- Distance
    EntryPoints = 2
    Built = {1, 2, 3}
    Late = {4}
    SomeLabels = {0, 1, 2, 3}
    Null <- NoLabel
    Tables <- SomeTables
    Exact <- ExactDistance
    Queries <- SomeQueries
    Outers = 3
    VectorSize = 2
    OwnRerank = 1
    Sessions = {0, 2}
    LSearch = 1
    MaxEvents = 2
SPECIFICATION QuerySpec
INVARIANTS
    AnswerIsExplained
    QuietAnswerIsExact
    JoinPairs
