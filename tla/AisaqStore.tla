----------------------------- MODULE AisaqStore -----------------------------
(***************************************************************************)
(* AiSaqBlockStore under AiSaqIndex: graph nodes and PQ codes in blocks of *)
(* DuckDB, their block ids and the row map in a state stream of its own    *)
(* store.  A block of id INVALID_BLOCK is transient: it lives in memory or *)
(* in the temporary file of the buffer pool, and not beyond a restart.  A  *)
(* block with an id is a persistent one: the pool may drop it at any time  *)
(* and loads it from the file again, and writes nothing back.              *)
(***************************************************************************)
EXTENDS SegmentStreams, FiniteSets, FiniteSetsExt

CONSTANTS TableSize,        \* rows at CREATE INDEX, of ids 1 .. TableSize
          LiveRows,         \* ids of rows inserted later
          NodesPerBlock, CodesPerPage,
          LoggedBuild,      \* may a restart find CREATE INDEX in the log alone?
          MaxBlockId,       \* bound: persistent blocks ever taken
          MaxSegments       \* bound: segments of the state store, which every
                            \* checkpoint takes more of and gives none back

ASSUME AisaqStoreAssumption ==
    /\ TableSize \in Nat \ {0} /\ \A r \in LiveRows : r \in Nat /\ r > TableSize
    /\ NodesPerBlock \in Nat \ {0} /\ CodesPerPage \in Nat \ {0} /\ LoggedBuild \in BOOLEAN

VARIABLES graph,    \* the graph blocks: id and what is in memory, by slot
          pages,    \* the PQ pages, likewise
          count,    \* graph_node_count_
          rowMap,   \* row_to_internal_: pairs of row id and internal id
          built,    \* has CREATE INDEX run?
          stateDirty, stateRoot, stateSegs,
          disk,     \* what the file holds, by block id
          stateFile \* what a restart finds: root and segments of the state store,
                    \* and whether in the log alone

state == <<stateDirty, stateRoot, stateSegs>>
storeVars == <<graph, pages, count, rowMap, built, state, disk, stateFile>>

Invalid == 0
Null == 0                   \* the place of a row id whose vector is NULL
NullHandle == <<>>          \* a shared_ptr<BlockHandle> that is nullptr
Zeroes(n) == [i \in 1 .. n |-> 0]
NewBlock(n) == [id |-> Invalid, mem |-> Zeroes(n)]

BlockOf(node) == (node \div NodesPerBlock) + 1
NodeSlot(node) == (node % NodesPerBlock) + 1
PageOf(node) == (node \div CodesPerPage) + 1
CodeSlot(node) == (node % CodesPerPage) + 1

AiSaqTypeOK ==
    /\ count \in 0 .. TableSize + Cardinality(LiveRows)
    /\ rowMap \in SUBSET ((1 .. TableSize \cup LiveRows) \X (0 .. count))
    /\ count > 0 => Len(graph) >= BlockOf(count - 1)
    /\ stateRoot \in 0 .. Len(stateSegs) /\ stateDirty \in BOOLEAN /\ built \in BOOLEAN
    /\ \A b \in Range(graph) \cup Range(pages) : b.id = Invalid \/ b.id \in DOMAIN disk

AiSaqInit ==
    /\ graph = <<>> /\ pages = <<>> /\ count = 0 /\ rowMap = {} /\ built = FALSE
    /\ stateDirty = FALSE /\ stateRoot = NoRoot /\ stateSegs = <<>>
    /\ disk = <<>> /\ stateFile = [root |-> NoRoot, segs |-> <<>>, logged |-> FALSE]

-----------------------------------------------------------------------------
(* Nodes and codes *)

EnsureGraphCapacity(blocks, node) ==
    blocks \o [i \in 1 .. BlockOf(node) - Len(blocks) |-> NewBlock(NodesPerBlock)]

\* InsertBuild sets the row id of the node; it is what a search returns.
WriteNode(blocks, node, r) == [blocks EXCEPT ![BlockOf(node)].mem[NodeSlot(node)] = r]

\* EncodePqCodes: page after page, a NULL has the zero code.
Coded(table) ==
    LET needed == (Len(table) + CodesPerPage - 1) \div CodesPerPage
        Code(row) == IF row \in DOMAIN table /\ table[row] # Null THEN table[row] ELSE 0
    IN  [p \in 1 .. needed |-> [id |-> Invalid, mem |-> [i \in 1 .. CodesPerPage |-> Code((p - 1) * CodesPerPage + i)]]]

\* FlushBuildNodes, or InsertBuild itself when paged: NULL rows keep a node.
Linked(table) ==
    LET blocks == EnsureGraphCapacity(<<>>, Len(table) - 1)
        RowAt(node) == IF node < Len(table) /\ table[node + 1] # Null THEN table[node + 1] ELSE 0
    IN  [b \in 1 .. Len(blocks) |->
           [blocks[b] EXCEPT !.mem = [i \in 1 .. NodesPerBlock |-> RowAt((b - 1) * NodesPerBlock + i - 1)]]]

CreateIndex(table) ==
    /\ ~built /\ built' = TRUE
    /\ pages' = Coded(table) /\ graph' = Linked(table)
    /\ count' = Len(table)
    /\ rowMap' = {<<table[i], i - 1>> : i \in {j \in 1 .. Len(table) : table[j] # Null}}
    /\ stateDirty' = TRUE
    /\ UNCHANGED <<stateRoot, stateSegs, disk, stateFile>>

\* Construct of one row: a graph node, no PQ code.
AiSaqInsert(r) ==
    /\ built /\ ~\E pair \in rowMap : pair[1] = r
    /\ \A b \in Range(graph) : b.mem # NullHandle
    /\ graph' = WriteNode(EnsureGraphCapacity(graph, count), count, r)
    /\ rowMap' = rowMap \cup {<<r, count>>}
    /\ count' = count + 1 /\ stateDirty' = TRUE
    /\ UNCHANGED <<pages, built, stateRoot, stateSegs, disk, stateFile>>

\* The buffer pool drops a persistent block that nobody has pinned.
Evict ==
    \/ \E b \in 1 .. Len(graph) :
         /\ graph[b].id # Invalid /\ graph[b].mem # disk[graph[b].id]
         /\ graph' = [graph EXCEPT ![b].mem = disk[graph[b].id]] /\ UNCHANGED pages
    \/ \E p \in 1 .. Len(pages) :
         /\ pages[p].id # Invalid /\ pages[p].mem # disk[pages[p].id]
         /\ pages' = [pages EXCEPT ![p].mem = disk[pages[p].id]] /\ UNCHANGED graph

EvictBlock == Evict /\ UNCHANGED <<count, rowMap, built, state, disk, stateFile>>

AiSaqCommitDrop ==          \* state_root_, the state store and the flag stay
    /\ built /\ count # 0
    /\ graph' = <<>> /\ pages' = <<>> /\ count' = 0 /\ rowMap' = {}
    /\ UNCHANGED <<built, state, disk, stateFile>>

-----------------------------------------------------------------------------
(* Checkpoint, log, restart *)

\* ConvertToPersistent: each block without an id gets a free one and is written.
NeedsId_Never(b) == FALSE
NeedsId(b) == b.id = Invalid
Transient(blocks) == {i \in 1 .. Len(blocks) : NeedsId(blocks[i])}
IdFor(blocks, i, taken) == taken + Cardinality({j \in Transient(blocks) : j <= i})
Converted(blocks, taken) ==
    [i \in 1 .. Len(blocks) |-> IF NeedsId(blocks[i]) THEN [blocks[i] EXCEPT !.id = IdFor(blocks, i, taken)]
                                                    ELSE blocks[i]]

\* The state stream: SerializeState of the block store, then the row map.
MapAsList == SetToSeq(rowMap)    \* in the order of an unordered_map: any
StateWords(blocks, pgs) ==
    LET list == MapAsList IN
    <<count, Len(blocks)>> \o [i \in 1 .. Len(blocks) |-> blocks[i].id]
    \o <<Len(pgs)>> \o [i \in 1 .. Len(pgs) |-> pgs[i].id]
    \o <<Cardinality(rowMap)>>
    \o [i \in 1 .. 2 * Cardinality(rowMap) |-> list[(i + 1) \div 2][((i + 1) % 2) + 1]]
AiSaqWriteStateStream(from, blocks, pgs) == WriteStream(from.segs, from.root, StateWords(blocks, pgs))
Here == [root |-> stateRoot, segs |-> stateSegs]

AiSaqPersistToDisk == IF stateDirty THEN AiSaqWriteStateStream(Here, graph, pages) ELSE Here

\* The stream is written anew once the blocks have ids, flag or no flag.
Rewritten(first, blocks, pgs) == AiSaqWriteStateStream(first, blocks, pgs)
SerializeToDisk ==
    /\ built
    /\ LET g == Converted(graph, Len(disk))
           taken == Len(disk) + Cardinality(Transient(graph))
           p == Converted(pages, taken)
           second == Rewritten(AiSaqPersistToDisk, g, p)
           new == [i \in 1 .. Cardinality(Transient(graph)) + Cardinality(Transient(pages)) |->
                     LET blocks == g \o p
                     IN  blocks[CHOOSE k \in 1 .. Len(blocks) : blocks[k].id = Len(disk) + i].mem]
       IN  /\ Len(disk \o new) <= MaxBlockId /\ Len(second.segs) <= MaxSegments
           /\ graph' = g /\ pages' = p /\ disk' = disk \o new
           /\ stateRoot' = second.root /\ stateSegs' = second.segs
           /\ stateFile' = [root |-> second.root, segs |-> second.segs, logged |-> FALSE]
    /\ stateDirty' = FALSE
    /\ UNCHANGED <<count, rowMap, built>>

\* CREATE INDEX commits: the log gets the state store, not the blocks.
AiSaqSerializeToWAL ==
    /\ built /\ stateFile.root = NoRoot
    /\ LET first == AiSaqPersistToDisk
       IN  /\ stateFile' = [root |-> first.root, segs |-> first.segs, logged |-> TRUE]
           /\ stateRoot' = first.root /\ stateSegs' = first.segs
    /\ stateDirty' = FALSE
    /\ UNCHANGED <<graph, pages, count, rowMap, built, disk>>

Loaded(id) == IF id = Invalid THEN NullHandle ELSE disk[id]
AiSaqRestart ==
    /\ stateFile.root # NoRoot /\ (stateFile.logged => LoggedBuild)
    /\ LET Word(i) == ReadOne(stateFile.segs, stateFile.root, i)
           Words(i, n) == ReadSome(stateFile.segs, stateFile.root, i, n)
           nGraph == Word(2)
           nPages == Word(3 + nGraph)
           nRows == Word(4 + nGraph + nPages)
           pairs == Words(4 + nGraph + nPages, 2 * nRows)
           Block(id) == [id |-> id, mem |-> Loaded(id)]
       IN  /\ count' = Word(1)
           /\ graph' = [i \in 1 .. nGraph |-> Block(Words(2, nGraph)[i])]
           /\ pages' = [i \in 1 .. nPages |-> Block(Words(3 + nGraph, nPages)[i])]
           /\ rowMap' = {<<pairs[2 * i - 1], pairs[2 * i]>> : i \in 1 .. nRows}
    /\ stateRoot' = stateFile.root /\ stateSegs' = stateFile.segs
    /\ stateDirty' = FALSE /\ built' = TRUE
    /\ UNCHANGED <<disk, stateFile>>

Tables ==                   \* row ids follow the order of the table
    {[i \in 1 .. n |-> IF i \in nulls THEN Null ELSE i] : n \in 1 .. TableSize, nulls \in SUBSET (1 .. TableSize)}
AiSaqSteps == \/ \E table \in Tables : CreateIndex(table)
              \/ \E r \in LiveRows : AiSaqInsert(r)
              \/ EvictBlock \/ AiSaqCommitDrop \/ AiSaqSerializeToWAL
AiSaqNext == AiSaqSteps \/ SerializeToDisk \/ AiSaqRestart
AiSaqSpec == AiSaqInit /\ [][AiSaqNext]_storeVars

-----------------------------------------------------------------------------
HasNode(pair) == LET b == BlockOf(pair[2]) IN
    b <= Len(graph) /\ graph[b].mem # NullHandle /\ graph[b].mem[NodeSlot(pair[2])] = pair[1]
HasCode(pair) == LET p == PageOf(pair[2]) IN
    p <= Len(pages) /\ pages[p].mem # NullHandle /\ pages[p].mem[CodeSlot(pair[2])] = pair[1]

\* Every row of CREATE INDEX that the index knows keeps its node and its code,
\* whatever is inserted, evicted, dropped, checkpointed and restarted after.
BuiltRowsKept == \A pair \in rowMap : pair[1] <= TableSize => HasNode(pair) /\ HasCode(pair)

\* "encode the PQ code then insert the graph node" (AiSaqIndex::Insert): every
\* row that can be reached has its own code where a search reads it.
CodeOfEveryRow == \A pair \in rowMap : HasCode(pair)
=============================================================================
