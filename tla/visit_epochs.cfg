CONSTANTS
    Threads = {1, 2}
    Nodes = {1, 2, 3, 4, 5}
    Neighbors <- Links
    Entry = 1
    Queries = {2, 8}
    Dist <- LineDist
    L = 2
    Instances = {1, 2}
    Scratch <- OwnScratch
    EpochLimit = 4
SPECIFICATION FairSpec
INVARIANTS
    LocallyOptimal
PROPERTIES
    SearchesAreAlone
    SearchReturns
