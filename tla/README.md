# Verification of duckdb-vector-index

TLA+ models of the `vindex` extension, TLC runs that check them on small
instances, and TLAPS proofs of what matters for every instance.  Paths are
relative to the repository root; line numbers of every definition are in
`PROJECT.json` ("map").

## The system

The extension adds vector indexes to DuckDB.  Five algorithms share one shape:

    CREATE INDEX pipeline --> facade class --> core (graph or postings) --> block store
    optimizers --> index scan / index join --> facade        quantizer <-- core

| Component | State | Operations | Hard part |
|---|---|---|---|
| Facade (`algo/*/..._index.cpp`, `common/vector_index.cpp`) | `core_`, `row_to_block_`, `tombstones_`, `is_dirty`, `rwlock`, `state_root_` | Append/Insert/Construct, Delete, Compact, InitializeScan, ExecuteMultiScan, CommitDrop, SerializeToDisk/WAL, constructor with `ReadStateStream` | deletes are tombstones, inserts may bring a row id back, scans run concurrently, checkpoints may be skipped, crash and replay |
| AiSAQ core and build (`algo/aisaq`) | node blocks (count and R slots), PQ codes, entry points, label medoids, spinlocks | InsertBuild by parallel tasks, Insert, FinalizeInlineCodes, ComputeEntryPoints, ComputeLabelMedoids, Search, (De)SerializeState | lock-free searches beside locked list updates, row ranges, memory order |
| DiskANN core (`algo/diskann`) | node blocks, codes, `entry_`, `tls_` | Insert, Search, (De)SerializeState | concurrent searches on one scratch; same Vamana steps |
| HNSW core (`algo/hnsw`) | levelled node blocks, entry point and level, visit marks | Insert, Search, (De)SerializeState | level and entry invariants; visit marks shared by searches |
| IVF core (`algo/ivf`) | centroids, postings per centroid | Train, Insert, Search, (De)SerializeState | too few samples, equal centroids |
| SPANN core (`algo/spann`) | centroids, postings with replicas | Train, Insert, Search, (De)SerializeState | replicas: a row in several postings, once in a result |
| Vamana scratch (`common/vamana.cpp`) | `visit_counter`, `visit_marks` | NextVisitEpoch, PrepareForBuild | wrap of the epoch, sharing |
| Block store (`common/index_block_store.cpp`) | node allocators, segment chains, pin cache | streams, AllocNode, PinFast, SerializeBuffers, Init, Reset | rewriting streams, scans that share the pin cache, checkpoints that go on without the lock |
| AiSAQ block store (`algo/aisaq/aisaq_block_store.cpp`) | graph pages, PQ pages | AllocGraphNodeRange, WriteAll..., ConvertToPersistent, (De)SerializeState | what a second checkpoint writes |
| Plans and options (`algo/*/..._plan.cpp`, `CreateQuantizer`) | | CREATE INDEX: checks, defaults, narrowing | a restart without the options |
| Build pipelines (`algo/*/..._build.cpp`) | collected rows, quantizer | Sink, Combine, Finalize, tasks | ranges, finish after all tasks |
| Optimizers and operators (`common/optimize_*.cpp`, `vector_index_scan.cpp`) | plan | TryOptimize, label filter folding, join batching | rows dropped, LIMIT with rerank and OFFSET |
| Quantizers (`quant/`) | trained tables | Train, Encode, EstimateDistance, CodeDistance, (De)Serialize | one distance in two forms, packed bits, tables that are derived again, training on few rows or none |
| Registry, pragmas, macros, docs, SimSIMD | | | not modelled |

The facade takes `rwlock` exclusively to write and shared to search.  DuckDB
calls Append and Delete under an index lock of its own, keeps its checkpoint
lock against writers, and replays its log through the same two calls.  Only
AiSAQ's CREATE INDEX runs several writers in one core.

What makes each part correct: the facade answers from exactly the table's rows
across any history; the graph build loses no edge and exposes no half-built
node; a search is not disturbed by its neighbours in time and does not stop
short; pruning returns Vamana's set; stores give back what was written; a
restart opens the index that was written; a query answered through an index
loses a row only for a reason the design admits.  The
hazards behind these, with their lines, are in `PROJECT.json` ("hazards").

## Modules

| Module | Models |
|---|---|
| `RobustPrune` | what the pruning function returns, as a definition: `KeptLists` |
| `AisaqBuild` | parallel CREATE INDEX: `AiSaqIndexConstructionEvent`, `InsertBuildRange`, `InsertBuild`, `BeamSearch`, `ConnectAndPrune`, `NodeSpinlock`, `FinishEvent` |
| `ProximityGraph` | abstract: nodes linked and lists updated one at a time |
| `AisaqBuildAtomic` | refinement of `ProximityGraph` by `AisaqBuild` |
| `BeamSearch` | the steps of the Vamana search on a graph at rest |
| `VisitEpochs` | the same search with `VamanaTLS` epochs and marks |
| `PrivateSearch` | abstract: the same search with a visited set per search |
| `DiskannCore` | `DiskAnnCore::Insert`, `Search`, `RobustPrune`, `ConnectAndPrune` |
| `HnswCore` | `HnswCore::Insert` and `Search`: levels, `GreedySearch`, `SearchLayer`, `SelectNeighborsHeuristic`, `ConnectAndPrune` |
| `KMeans` | `KMeansPlusPlus`: seeding, rounds, empty cells, too few samples |
| `PostingLists` | `IvfCore` and `SpannCore`: `AssignCentroid`, `ChooseCentroids`, `Insert`, `Search` |
| `CreateIndex` | IVF's and SPANN's CREATE INDEX pipeline and the index after it |
| `NodeLists` | lists that name a node once |
| `VectorIndex` | the facade, over a core given as constant operators |
| `SegmentStreams` | `IndexBlockStore`'s streams: chains of segments, `Writer`, `Reader` |
| `BlockStore` | `IndexBlockStore` under an index: node buffers, `PinFast`, checkpoint, log, restart |
| `AisaqStore` | `AiSaqBlockStore` under `AiSaqIndex`: graph blocks, PQ pages, `ConvertToPersistent`, the state stream |
| `Quantizers` | FLAT, PQ, ScaNN, RaBitQ: training, codes, the two forms of distance, blobs |
| `IndexOptions` | what the five plans, the constructors and `CreateQuantizer` accept, and make of the options |
| `Reopen` | the five classes from CREATE INDEX to the index a restart opens: constructors, `SerializeState`, `WriteStateStream` and their readers |
| `LabelSearch` | `LabelFilter`, its extraction and folding, label medoids, entry points, `AiSaqCore::Search` |
| `QueryPlans` | the three optimizer rewrites, `VectorIndexScanExecute`, `PhysicalVectorIndexJoin::Execute`, and the operators above |
| `AisaqBuildProofs`, `VisitEpochsProofs`, `VectorIndexProofs`, `HnswProofs`, `DiskannCoreProofs`, `BlockStoreProofs`, `CreateIndexProofs`, `ReopenProofs` | theorems |
| `MC*` | instances for TLC |

How they compose: `Reopen` runs on `IndexOptions`, which runs on `Quantizers`;
`QueryPlans` on `LabelSearch`; `BlockStore` and `AisaqStore` on
`SegmentStreams`; `CreateIndex` on `PostingLists` and `KMeans`; `AisaqBuild` and
`DiskannCore` on `RobustPrune` (one as the definition of the step, the other
checked against it).  `VectorIndex` takes a core as constant operators, so that
its theorems hold for all five.

How state and steps correspond:

* `AisaqBuild`: `cnt` and `slot` are a node's neighbour count and neighbour
  words in memory, one store a step; `lock` is the spinlock with its holder;
  `srch` is `BeamSearch`'s locals.  `LockTarget` decides the whole new list
  because the lists it reads are stable under the lock; the stores follow one
  by one.  The search reads lists word by word with no lock.  With
  `AnyStoreOrder = FALSE` stores reach memory in program order (x86, and a
  compiler that keeps them); with `TRUE` plain stores may reach it in any order
  up to the next release, which is what the C++ code states.
* `VisitEpochs`: `counter` and `marks` are the scratch, `vc` the search's copy;
  `Scratch` says which instance a thread uses.  Load and store of the counter
  are two steps.  Growing the mark table is left out (a table of full size),
  and the wrap clears the table in one step.
* `DiskannCore`: one operation at a time, as the facade's lock has it for
  inserts; `cand`, `W`, `marks`, `at`, `i` are `BeamSearch`'s locals; `todo` and
  `kept` are the candidates that are left in `RobustPrune` and its output.
  `std::sort` puts equal distances in any order, so any nearest comes first.
* `HnswCore`: node ids count up as internal ids do; `links[n][l]` is the list
  of layer `l`, which exists in memory only for `l <= level[n]`.  `RandomLevel`
  is a choice of any level (with m = 1 the code casts an infinity, so nothing
  else could be said).  `cand`, `W`, `marks`, `at`, `i` are `SearchLayer`'s
  locals; the marks are a set, as epochs are the subject of `VisitEpochs`.
* `VectorIndex`: `mem` is the object, `disk` the checkpointed copy, `pending`
  a call between setting `is_dirty` and getting the lock.  The line numbers are
  those of `HnswIndex`; the other four classes differ in the core they call.
  `table`, `wal` and `replay` are DuckDB's, external.  One row per call.  A scan's
  `owed` only observes: the live rows its candidates leave it to return, which are
  all live ones if the core gave as many candidates as asked for, else those among
  the candidates (`Owed`).  The instance's core lets a search reach any non-empty
  part of its entries, since a graph's overflowed lists may cut nodes off.
* `CreateIndex`: `local` and `collection` are the sinks' `ColumnDataCollection`s,
  a row standing for a chunk; `pos` is the shared scan state; a task's `chunk` is
  what it has scanned and not inserted.  `Construct` runs under `rwlock`, so it is
  one step.  Vectors have one dimension and codes are exact (the flat quantizer);
  an instance takes multiples of six so that means are integers.  `Keep` is what
  a heap of the best leaves, with every choice among equals that
  `std::partial_sort` and `std::priority_queue` have; the random draws of the
  seeding are choices among the samples with a positive weight.  A seed is fixed
  in the program; the model allows all.
* `SegmentStreams`: a segment is its next pointer and `DataSize` words, a word
  standing for a field.  `WriteStream` gives the whole chain a writer leaves,
  `Read` what a reader finds.  Segments are never given back, as in the code.
* `BlockStore`: a buffer counts how often it was loaded, and a raw address is the
  load it came from.  `scan` steps through `PinFast`: the test of the cache
  (`Look`), then the read of the cache (`Hit`), or the allocator's load (`Fetch`)
  and a step later the keeping of its address (`Keep`), and the end of the use.
  Inserts, drops and `PersistToDisk` need the lock exclusively and so wait for
  scans; all the rest of a checkpoint and of a log runs without it (`phase`), and a
  scan may be at any step beside it, since nothing in the extension keeps it out.
  A hit whose vector was moved under it (not `settled`) reads any address.
  `crossed` and `overtaken` only observe: a scan has kept an address that a checkpoint
  took back after the scan had fetched it; the scans beside which a checkpoint has
  written the buffers out, or which begin between that and the clearing of the cache.
* `AisaqStore`: a block has an id (0 while it is transient) and its content in
  memory; `disk` holds what was written under an id.  `EvictBlock` is the buffer
  pool dropping a persistent block, whose content then is the file's.
* `Reopen`: `index` is the bound index with all its fields, `file` the stream a
  checkpoint or the log wrote and the table of that moment, `built` the index as
  it was written.  A stream is a record; what a magic, a dimension or a code
  size refuses is a status.  For IVF and SPANN the rows the centroids were trained
  on stand for them.  A restart is given the options or none.  Where training does
  not survive (`TrainSurvives`: ScaNN on no rows) `Create` leaves `Crashed`, from
  which `Recover` opens the database again, without the index.
* `Quantizers`: vectors of integers, distances as fractions, so that equalities
  are exact; the trained codebook is any choice the seeding can make, cosine is
  restricted to vectors on an axis, the rotation of RaBitQ is a constant operator
  that keeps inner products.
* `QueryPlans`: `view` is the table as the query's transaction sees it and `core`
  with `tombstones` the index, which has no versions; `query` holds the plan, the
  hits and how far the scan is.  A query is a record of what the optimizers
  inspect (shape, order, function, arguments, limit, offset, predicates); the
  property's `Answer` is what the operators above the scan leave of its rows.

Definitions named `X_Something` beside a definition `X` are variants with a
plausible fault (a dropped guard, a missing reset).  No behaviour of the
specifications uses them: they are there to show that each property can fail.

## Runs

| Run | Shows | Bounds, and why they are enough |
|---|---|---|
| `aisaq_build` | with stores in program order: no half-built node, private forward stores, sound lists (no node twice, none isolated), edges lost only to a re-prune, refinement of `ProximityGraph`, the build ends with every row inserted once | 5 rows, 3 tasks with ranges of 1, 1 and 2 rows, R = L = 2: lists overflow and are re-pruned while two other tasks read and append |
| `visit_epochs` | own scratch: local optimality, refinement of `PrivateSearch`, termination | 2 threads, 2 queries, a pruned graph of 5 nodes, width 2, epoch limit 4: the counter wraps while old marks of other queries stand |
| `visit_epochs_shared` | violated: two searches on one scratch skip nodes | the same |
| `diskann_core` | simple lists, the pruning loop returns what `KeptLists` allows, a small index is searched exactly | 5 inserts of 3 points of a line, R = 2, L below R, k 1 and 3, L_search 0 and 1: equal rows and ties, lists that overflow and are pruned again, searches after any number of inserts |
| `hnsw_core` | block bounds, top entry point, simple lists, exact small indexes, local optimality, termination | 4 nodes, 3 points of a line, 2 levels, degrees 1 and 2, widths 2 and 3: lists overflow on both layers, rows are equal or tie, levels rise by insert order; a level drawn is at most 1 |
| `vector_index` | coverage, clean flag, live hits, single hits, full scans, bounded shortage of a multi-scan, over a core that leaves any part of its entries out of reach | 3 rows, 2 vectors, 4 logged calls, limit 2, 1 reader: two deletes beside a live row, checkpoint before, between and after, a crash anywhere.  Rows are symmetric; row ids do not come back |
| `create_index` | no row lost or stored twice by the pipeline; insert and search agree on cells; copies count once; a search of every list is exact | 4 rows made at once or later, 2 vectors or NULL, 3 cells, 2 replicas, 2 threads (symmetric), 3 rounds of k-means: fewer vectors than cells, so centroids coincide, cells go empty and distances tie; with no row there is no sample |
| `block_store` | rows and stream agree in memory and on disk until a scan has kept an address across a checkpoint; a pinned address is valid unless a checkpoint overtakes its scan | 3 rows, 2 to a buffer, 2 words to a segment, 2 scans, 2 loads of a buffer: two buffers, streams of one to three segments rewritten longer and shorter, two scans at each step of a checkpoint and a log.  Scans are symmetric |
| `aisaq_store` | every row of CREATE INDEX keeps its node and its code | tables of 1 to 3 rows with NULLs anywhere, 2 later rows, 2 nodes to a block, 3 codes to a page, 4 persistent blocks, 14 segments: a live insert into a block that is already persistent, evictions, repeated checkpoints, restarts, a drop |
| `aisaq_live_insert` | violated: a live row has no code | the same |
| `reopen` | what was written opens, with the same settings; codes are read by the quantizer that wrote them; the distances of the query and the code path agree | the five classes, 8 quantizer options, 3 metrics, 12 mixes of parameters at and past their bounds, 2 vectors of 4 components, 2 rows, bytes of 4 bits: codes straddle bytes, defaults are narrowed, training sees 0 (which ScaNN does not survive), 1 and 2 rows, restarts with and without options |
| `query_plans` | an index answer leaves a row out only for a stated reason; a quiet one is exact; the join pairs rows rightly | 3 rows and a later one in 4 tables of labels and codes, 4 labels at the ends of their range, queries of all shapes and just outside, 2 changes at any moment, vectors of 2 rows, 3 outer rows: a scan and a join take several batches |

Deadlock is checked in every run but `create_index`, whose index rests when the
row ids of the instance are used up; a finished build stutters (`Finished`).

`MaxAppends`, `MaxLog` and `MaxLimit` bound the facade, `MaxLoads`, `MaxBlockId`
and `MaxSegments` the stores, `MaxRows` and `MaxEvents` the last two runs;
`EpochLimit` stands for 2^32, `MinLabel` and `MaxLabel` for the ends of int64,
`ByteBits` for 8; searches, R, L and row counts are finite constants.

Fairness: each build task (a DuckDB task runs until it returns, and the
event starts once the leader's insert is done) and each thread that has begun
a search is weakly fair, and an HNSW operation that has begun runs on; nothing
fair is asked of the facade, the stores or the queries.  A spinning task
repeats its load, so weak fairness of the task suffices: the holder of a lock
is never the spinner.

## Proofs

Every theorem holds for all values of the constants, from the assumptions the
modules name (`BuildAssumption`, `PruneAssumption`, `GraphAssumption`,
`ScratchAssumption`, `FacadeAssumption`, `HnswAssumption`, `DiskannAssumption`,
`StoreAssumption`, `DataSizeAssumption`, `KMeansAssumption`, `PostingAssumption`,
`CreateAssumption`, `ByteAssumption`, `PowersOfTwo`, `ReopenAssumption`, `AxisVectors`,
`WholeEta`) and from what a theorem's own ASSUME states.  `PowersOfTwo` is a fact
the provers do not know of `^`, stated as far as two bytes reach.  An invariant is
proved by a stronger inductive one; what that one adds is what follows.

AiSAQ's parallel build (`AisaqBuildProofs`)
* `TypeCorrect`: `TypeOK` is made inductive by `Lists` (every list that is being
  built has at most R members, fields still to be stored lie within it).
* `LocksExclude` adds `Mutex`: each lock names its holder, who is at that target.
* `HalfBuiltNodesHidden` (stores in program order): the inductive invariant says that nothing another task can reach (a slot below its
  count, a search's marks, a selected list, a list being stored) names a node
  whose own list is unfinished.
* `EdgesLostToReprune`, `ListsAreSound` (stores in program order): `StoreInv` says
  that what a task has stored is in memory, since nobody else stores there until
  it is done, and that an append raises the count only after its slot; `WorkInv`
  that a task has inserted exactly the rows of its range it has passed, so that
  nobody inserts a row twice.  A list that can be followed is then always a whole
  list or a whole list with one edge more.
* `BuildImplementsGraph`: the same, stated as refinement of `ProximityGraph`.
  `SelectNeighbors` maps to `Link`, `LockTarget` to `LinkBack`, the leader's first
  node to `Link` of the entry, and every other step (loads, stores one word at a
  time, unlocks, the next row) leaves the abstract graph as it is; the abstract
  list of a node that is being written is the list the writer has decided.

Vamana scratch (`VisitEpochsProofs`)
* `ScratchTypeCorrect`, and `OwnScratchIsPrivate`: with no shared scratch the
  epoch marks implement private visited sets.  The inductive invariant: no mark
  exceeds the instance's counter, and a searching thread's epoch is its
  instance's counter; a fresh epoch is then above all marks, so `Seen` starts
  empty, and after a wrap all marks are 0 and the epoch 1.
* `OwnScratchSearchesFully`: with no shared scratch a search that ends has
  expanded every candidate it kept.  The run `visit_epochs_shared` shows what
  happens without.

The facade (`VectorIndexProofs`)
* `IndexFollowsTable` and `SkippedCheckpointLosesNothing`, for every core that
  satisfies `CoreContract` (inserting adds an entry and keeps the others), with
  row ids that come back or not: a row's state is decided by the last call about
  it; the checkpointed copy with the log, and memory with the calls still to
  replay, both lead to the table.
* `DeletedRowsStayHidden`, `RowsComeOnce` (`~ReuseRowIds`, `SearchContract`: a
  search returns rows the core holds, none twice, as long as every row was
  inserted once): `OnceInv` says that the calls still to come add no row the index,
  in memory or on disk, has, and each row once; `ScanInv` that what a scan has found
  is live or has a tombstone, which then no step lifts.
* `ScansAreFull`, `MultiScansLoseOnlyDeleted` (from the same two assumptions, and none
  on how much a search finds): of as many candidates as the limit and the tombstones
  together, no two the same, the filter drops at most the tombstones; of fewer, it
  drops none that is live.  What a search does not reach it does not owe (`owed`);
  how much a graph reaches is the cores' matter (`SmallIndexIsExact`,
  `LocallyOptimal`).  `Account` keeps the books of a multi-scan, whose further
  losses are rows deleted since its search.
* `ListCoresFit`: a core that keeps a list of entries and answers with any of them,
  no more than asked for and none twice, as the instance `MCVectorIndex` does, meets
  the contracts.  Row ids that come back break what is claimed of scans (see below),
  which is why these theorems exclude `ReuseRowIds`.

DiskANN (`DiskannCoreProofs`)
* `ListsStaySimple`: the inductive invariant `DInv` says that lists are injective,
  within R, and name inserted nodes, the new one only while it is being linked
  (`Known`); that what `RobustPrune` has kept and what it still may keep are
  disjoint; and that the lists of the selected nodes still to be linked do not
  name the new node (`LinkHolds`), which is why appending it keeps them simple.
  Distances play no part, so the theorem holds for every quantizer.
* `LoopIsTheDefinition`: `LoopInv` says that what the loop has kept is nearest
  first, that no kept node removes a later one or one still to be looked at, and
  that what is gone was removed by a kept node at least as near.
* `SmallIndexAnswersExactly`: `Joined` says that while no list can have overflowed
  (`Small`) a set of nodes that no edge leaves is empty or all of them; the links go
  both ways, so the new node joins it.  `SearchInv` says that what a search has met
  is marked, and kept unless it was passed over; a search with room for all rows
  that ends therefore holds a set no edge leaves.

HNSW (`HnswProofs`)
* `HnswTypeCorrect`, `ListsStayInBlocks`, `EntryStaysOnTop`: the inductive
  invariant `HInv` says that edges of a layer join allocated nodes that reach it,
  that the entry point is of the highest level, and that what an operation holds
  (its current node, candidates, results, selection) reaches the layer it is at.
  The clamp of the first linked layer and the entry point's level carry it.
* `HnswListsStaySimple`: `LInv` adds to `HInv` that no list names the new node on
  the layers still ahead of the insert (`Ahead`, `NewIsUnmet`), so a search on
  the way never selects the node itself, and that the lists of the selected
  nodes still to be linked do not name it (`LinksToCome`).
* `SearchesEndLocallyOptimal`: `SearchInv`, as for DiskANN, on the layer searched.
* `SmallIndexAnswersExactly`: `Joined`, as for DiskANN, on the base layer.

The block store and its streams (`BlockStoreProofs`)
* `RoundTrip`: a stream written over a chain of any length is read back as written.
  `Read` is recursive; `ReaderExists` shows by induction on the words to read that
  its defining function exists, `PieceRead` that each segment gives its part, and
  the parts join.
* `StoreTypeCorrect`, `StoreGivesBackWhatItTook`: the inductive invariant `SInv` says
  that buffers leave no gap (`Fits`), that an address in the cache is the one its
  buffer is at (`CacheIsFresh`), that a clean stream holds the rows (`StreamHolds`),
  that what a restart would find is such a state (`FileHolds`), and that a scan
  under way is at a buffer there is.  What it says of addresses and nodes it says
  while no scan has kept an address across a checkpoint (`crossed`), of the stream
  always; who scans when is not restricted.
* `PinsOutlastLogs`, for any scans beside any step: `PinsHold` says that a scan no
  checkpoint has overtaken is under way only while the cache is not waiting to be
  cleared, and that what it has fetched or pinned is where its buffer is.  A log does
  not disturb it.  A scan that is overtaken, or hits a vector another moves, is
  outside the claim because the claim fails for it (see below).
* `BuiltRowsStay`, for AiSAQ: the inductive invariant `KInv` says that a row of
  CREATE INDEX is in its slot in memory and, if its block has an id, on disk
  (`Keeps`, `Agrees`), so that an eviction loses nothing; and that the state stream of
  the last checkpoint spells a count, ids and a row map (`Spells`) of which, with the
  blocks read from disk, the same holds (`Reopens`).  A node's slot is written once
  (`BlocksGrown`: the next node is in no slot before it).  At a checkpoint the blocks
  without an id get the ids after the last one by their rank, which `Ranks` and
  `IdsApart` show to be distinct, so that what `DiskExtended` finds under an id is the
  block it was given to; `RoundTrip` and `StateSpelled` give the reader the words.
  The row map may be written in any order.  The theorem assumes `~LoggedBuild`: a
  restart that has only the log finds ids of blocks that were never written (see
  below).  Inserted rows are not claimed; they have no code (`aisaq_live_insert`).

CREATE INDEX (`CreateIndexProofs`)
* `NoRowIsLost`, `SpannKeepsTheIvfCell`: the inductive invariant `CInv` says, while
  threads sink, that a row read is in one place, one thread's collection or the
  merged one (`Delivered`, `OnePlace`), and that nothing is combined before all is
  read; while tasks build, that the rows stored are exactly those of the chunks
  taken that no task is at (`Done`); and of a stored row that it lies once in each
  of the cells that `CellsFor` gave it.  `CellsForFacts` is about the algorithms:
  the cell IVF's scan assigns, the first of the nearest, is never dropped by
  SPANN's partial sort, whatever order it leaves (`KeepFacts`), and never falls to
  the cutoff; `TrainingTyped` says that training ends with a centroid for every
  cell, whatever was sampled.
* `OwnVectorIsFound`, `NoRowReturnedTwice`, `FullProbeMissesNothing` are about what a
  search makes of that: `AInv` adds to `CInv` that an entry holds its row's vector
  (`StoredTrue`).  A search compares a copy of each row of the lists it probes, and
  the heap keeps the nearest: the row's own cell is among those probed for its own
  vector, a copy met again is skipped, and with all lists probed every row is met.

Options and restart (`ReopenProofs`)
* `WrittenIsReopened`, `CodesKeepTheirQuantizer`, for any options, vectors, dimension
  and rotation, the bounds of the options as the code has them: the inductive
  invariant `RInv` says that an open index is `Good` (its codes are those that its
  quantizer gives the table's vectors, its rows and tombstones the table's); that
  the file is what `built` writes, with the catalog's options in AiSAQ's stream
  only; that what is open uses the file's quantizer and the table has only grown
  since; and that as long as a restart has had the options, or the class its own,
  the parameters are those the options give (`OptionsAreKept`).
  Of an index that is there `QuantizerOf` says that its training survived: ScaNN on no
  rows leaves none, and these theorems have nothing to say of it (see below).
* `TrainedSettled`: a trained quantizer is what its blob gives back, the tables that
  are not in the blob being computed again.  `CoreRead`, `ParamsReadBack`: each
  class's constructor makes of its own state the core that wrote it, since its
  clamps change nothing the second time; `RerankReadBack` needs the plan's least
  value for it.  Without options only a flat blob opens, except in AiSAQ, whose
  stream has them (`ReopenAny`).
* `BitsReadBack`: what is packed is what is unpacked, for codes of any number and any
  width up to a byte.  A byte is a sum of parts: what lies below a code's bits is
  less than its place (`Under`, by induction over the codes), what lies above is a
  multiple of the place after it (`AfterInByte`), and a code that straddles has its
  high part alone at the bottom of the next byte.  The sums of the library are
  choices of a function; `AddsExist`, `AddsOnce` show that there is one and
  `SumWithout` that the order does not matter.
* `DistancesOfCodesAgree`, for any rotation that takes vectors of integers to such (the
  theorem's hypothesis: the model's numbers are integers).  `RInv` has the open
  quantizer trained on rows, by options that were accepted, from which follow its
  shape (`PqShape`, `RabitqShape`: slots that divide the dimension, typed codebooks,
  the table of that codebook) and that encoding gives numbers of centroids
  (`NearestIs`, `PqCode`).  FLAT under cosine uses that a vector lies on an axis
  (`AxisVectors`), ScaNN that eta is whole (`WholeEta`), both so that the model's
  numbers are integers; RaBitQ's bound (`LevelIs`) needs the clamp at the upper end
  only, and the level below the lowest is never reached.

Queries (`VectorIndexProofs`, second half)
* `AnswerExplained`, `QuietAnswersExact`, `EveryOuterRowPaired`: an answer speaks of what
  the search returned when the scan was opened, so none of the three is inductive.
  `QueryInv` says of each stage of a query what is true of the hits taken: every row
  of the view that is indexed under its label and passes the predicates is a hit or
  is crowded out by as many that are no farther (`Covered`); what the scan has found
  is what it has fetched and sees (`ScanOf`); a scan that was cut has a hit that is
  not visible (`ScanEnd`); and a join's matches of an outer row are one run of the
  output, numbered and nearest first (`Matched`).  Of the table it says what lets a
  search find what the index holds (`WellBuilt`).  A commit of others changes the
  index under an open query only in the direction the properties allow
  (`OtherStage`): an insert is of a row outside the view, a delete takes from what
  must be found.
* Under it lie the algorithms.  `ExtractedFilter`: the folded filter lets every label
  through that the predicates do.  `StartFacts`, `BeamFacts`, `SearchAnswersQuery`: on a graph in
  which all nodes are neighbours the beam search meets every node, whatever it
  starts at, and what it drops is no nearer than what it keeps, with a filter too.
  `TombstonesLeaveRoom`: candidates over-fetched by the number of tombstones are
  enough when those are left out.  `NearestComeFirst`: the nearest rows in their order
  are the first of all rows in theirs, distance by distance; rows at the same
  distance may differ, which is why `QuietAnswerIsExact` compares distances.
* Assumed, in `PlanAssumption` and `QueryAssumption`: distances are integers, the other
  side of a join is finite, min_by looks for the smallest, a join has k of at
  least 1.  That all nodes are neighbours is the model's abstraction of the graph:
  the quality of the graph is no promise of the code, and a node the search does
  not reach would be a fourth excuse.

The provers have no induction over an operator, and tlapm no SMT backend where
RECURSIVE is declared.  What is recursive here is a recursive function, and the
proofs argue by the least number for which a claim fails (`LeastNumber`), or up to
a bound over a set (`UpTo`), and show that the function exists (`Recursion`).

Model-checked only: everything temporal with fairness (`BuildFinishes`,
`SearchReturns`, `OperationEnds`), and `ForwardStoresArePrivate`, for stores in program
order.  Every other invariant a passing run checks is a theorem.

## Where the code and its documents part, and limits the models state

Two disagreements have a run of their own (`findings` in `PROJECT.json`):
`visit_epochs_shared` and `aisaq_live_insert`.  The others, which the models
reproduce and whose properties exclude them by name:

Facade
* A row id that comes back (`ReuseRowIds = TRUE`; whether DuckDB does so depends on
  the path) loses its tombstone while the old entry stays in the core
  (`hnsw_index.cpp:577`): the row can be returned twice, and a scan can fall short
  of its limit, since the over-fetch counts row ids and the filter entries
  (`hnsw_index.cpp:397`, "is tight").  `IndexCoversTable` holds all the same.
* Compaction (`Compact` of every facade) sets the dirty flag and takes the lock,
  though `vector_index.hpp:58` and `CHANGELOG.md:195` say it reclaims tombstones.

AiSAQ build
* `AnyStoreOrder = TRUE`, the memory order the C++ source states, breaks
  `ForwardStoresArePrivate`: the forward list is published by plain stores
  (`aisaq_core.cpp:390-394`).  `TypeCorrect` and `LocksExclude` are proved for both
  orders; the other theorems of the build assume program order, which is a property
  of the machine and the compiler and not of the source.
* A search during a re-prune can read a mixture of the old list and the new
  (`aisaq_core.cpp:380`): members are nodes that were linked, so the invariants hold.

Stores
* Buffers are written out, and the pin cache cleared, without the facade's lock
  (`hnsw_index.cpp:643`, and `655-661` for the log), and scans hold nothing else.  A scan
  beside a checkpoint loses the addresses it has pinned (`overtaken`), and one
  between `PinFastSlow`'s load and its store into the cache puts a stale address there
  for the next insert to write through (`crossed`), though the header calls the cache
  safe because buffers are never unloaded (`index_block_store.hpp:116`).  Whether a
  scan can run beside a checkpoint is DuckDB's to say; nothing in the extension keeps
  it out, and the model does not assume that anything does.  `PinsStayValid` and
  `StoreGivesBack` exclude by name what is lost then; without `s \notin overtaken`,
  without `settled` or without `~crossed` TLC finds them violated.
* Two scans that meet on a cold buffer: `PinFastSlow` grows the cache's vector
  under the shared lock (`index_block_store.cpp:226`) while another reads it, and a log
  clears the vector under a scan that has tested it (`hnsw_index.cpp:661`); in the
  model that scan reads any address (not `settled`).
* `LoggedBuild = TRUE` violates `BuiltRowsKept`: the log carries the state stream
  but not the blocks it points to (`aisaq_index.cpp:1205`).
* A rewritten stream keeps its old segments allocated; `MaxSegments` bounds the
  checkpoints an instance can take for that reason.

Options and restart
* CREATE INDEX with ScaNN on a table without rows (or with vectors all NULL) crashes:
  every class trains on no samples, and the Lloyd step seeds its empty cells with a
  `memcpy` from the null `data()` of an empty vector (`scann_quantizer.cpp:223`).  The
  model's `Create` takes that step and `Recover` follows it; that no index is there
  then is all it has to say.  The comment at `kmeans.cpp:78-79` expects the caller to
  put everything in cell 0.
* Of the five classes only AiSAQ stores its options.  Without them HNSW, IVF and SPANN
  reopen a flat index with the metric l2sq whatever it was built with;
  `ReopensAsWritten` asks for the options, `CodesAreRead` does not.
* DiskANN's and AiSAQ's facades keep the constructor's parameters and not the
  stream's, their cores the stream's.
* The key `m` means HNSW's degree and PQ's slots at once; `beam_width` is narrowed to
  16 bits after its check.
* PQ's code distance under ip is 0 for equal centroids instead of minus their
  square, a shortcut the comment at `pq_quantizer.cpp:172` argues for;
  `DistancesAgree` excludes shared centroids there.

Queries
* The candidate limit ignores the OFFSET (`optimize_scan.cpp:270`).
* The join asks for k without reranking (`README.md:266-268` says there is no such
  shortcut), numbers rows in the index's order, ignores filters on the inner table,
  and `Fetch` shifts its pairs when a hit is invisible (`JoinPairs` asks that all
  are visible).  With k = 0, which the matcher lets through (`optimize_join.cpp:387`),
  it would divide by zero (line 125); `QueryAssumption` leaves that out.
* A batch of candidates none of which is visible ends the scan (`cut`); rows of the
  transaction itself are never found through the index; an update of a label, and
  the missing label of a live insert, leave the index's label behind the table's.
* Rows with a NULL label are not in the index; the label -2^63 is the marker of
  having none; only the ORDER BY rewrite passes a label filter on.
* The comment at `spann_core.cpp:125` says that a vector at distance 0 of its
  centroid is stored once; with coinciding centroids the inclusive cutoff stores
  it in both, which the model allows and no property forbids.

## Not modelled

Floating-point rounding, SIMD kernels and the speed-ups that change no result; the
walk over DuckDB's plan trees, bindings and projections; catalog and pragma
registration; the version 1 streams of HNSW and AiSAQ, which the code reads
and no longer writes; the choice between AiSAQ's build strategies and its memory
estimate; the width of the product that spreads entry points
(`aisaq_core.cpp:638`, wraps when points times rows pass 2^32); metadata,
memory and statistics reports; scripts, documentation and benchmarks.

What would come next: one instance that runs a facade on the block store instead of
each beside the other, and `QueryPlans` on the graphs `AisaqBuild` leaves instead of
one in which all are neighbours.
