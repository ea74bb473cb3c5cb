CONSTANTS
    DataSize = 3
    TableSize = 3
    LiveRows = {4, 5}
    NodesPerBlock = 2
    CodesPerPage = 3
    LoggedBuild = FALSE
    MaxBlockId = 4
    MaxSegments = 14
SPECIFICATION AiSaqSpec
INVARIANTS
    BuiltRowsKept
