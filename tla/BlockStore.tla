----------------------------- MODULE BlockStore -----------------------------
(***************************************************************************)
(* IndexBlockStore under an index of graph nodes (the lines of the index   *)
(* are HnswIndex's): node buffers, the cache of their addresses behind     *)
(* PinFast, the state stream, checkpoint, log and restart.  A buffer of    *)
(* DuckDB's FixedSizeAllocator is loaded on demand, and writing it out     *)
(* destroys its handle: a pointer into it is good for one load.            *)
(***************************************************************************)
EXTENDS SegmentStreams, FiniteSets, FiniteSetsExt

CONSTANTS Rows, Scans,
          SlotsPerBuffer,           \* nodes in a buffer
          MaxLoads                  \* bound: times a buffer is loaded

ASSUME StoreAssumption == SlotsPerBuffer \in Nat \ {0} /\ MaxLoads \in Nat

VARIABLES rows,     \* row_to_block_: the row of each node, nodes in the order of their ids
          dirty, root, segs,
          buffers,  \* [loads, loaded, data, saved] of each buffer of nodes
          cache,    \* pin_cache_ of the nodes' tag: the load whose address is kept, 0 for nullptr
          scan,     \* a scan: what it is about to do, the buffer, the pointer it
                    \* took, whether the vector is still where it saw it
          phase,    \* how far a checkpoint or a log is
          file,     \* what a restart finds: root, segments, buffers
          crossed,  \* auxiliary: has a scan put into the cache an address that a
                    \* checkpoint had taken back since the scan fetched it?
          overtaken \* auxiliary: the scans beside which a checkpoint has written the
                    \* buffers out, or has and is about to clear the cache

vars == <<rows, dirty, root, segs, buffers, cache, scan, phase, file, crossed, overtaken>>

BufferOf(node) == ((node - 1) \div SlotsPerBuffer) + 1
SlotOf(node) == ((node - 1) % SlotsPerBuffer) + 1
NoNodes == [slot \in 1 .. SlotsPerBuffer |-> 0]
Fresh == [loads |-> 1, loaded |-> TRUE, data |-> NoNodes, saved |-> NoNodes]
Idle == [at |-> "idle", buffer |-> 0, pointer |-> 0, settled |-> TRUE]
NoFile == [root |-> NoRoot, segs |-> <<>>, buffers |-> <<>>]

TypeOK ==
    /\ rows \in Seq(Rows) /\ dirty \in BOOLEAN /\ root \in 0 .. Len(segs)
    /\ buffers \in Seq([loads : 0 .. MaxLoads, loaded : BOOLEAN,
                        data : [1 .. SlotsPerBuffer -> Rows \cup {0}],
                        saved : [1 .. SlotsPerBuffer -> Rows \cup {0}]])
    /\ cache \in Seq(0 .. MaxLoads)
    /\ \A s \in Scans : scan[s].at \in {"idle", "hit", "miss", "fetched", "pinned"}
    /\ phase \in {"none", "persisted", "written"} /\ crossed \in BOOLEAN
    /\ overtaken \subseteq Scans

Init ==
    /\ rows = <<>> /\ dirty = FALSE /\ root = NoRoot /\ segs = <<>>
    /\ buffers = <<>> /\ cache = <<>>
    /\ scan = [s \in Scans |-> Idle] /\ phase = "none" /\ file = NoFile
    /\ crossed = FALSE /\ overtaken = {}

NoScan == \A s \in Scans : scan[s] = Idle     \* rwlock is free of shared holders

-----------------------------------------------------------------------------
(* Pins *)

IsHit(kept, b) == b <= Len(kept) /\ kept[b] # 0
Load(b) == IF b > Len(buffers) \/ buffers[b].loaded THEN buffers
           ELSE [buffers EXCEPT ![b] = [loads |-> @.loads + 1, loaded |-> TRUE,
                                        data |-> @.saved, saved |-> @.saved]]

IsAt(b, loads) == buffers[b].loaded /\ buffers[b].loads = loads

\* PinFastSlow, once it has the address: the vector grows to hold the buffer,
\* then the address is kept.
Grown(b) == IF b <= Len(cache) THEN cache ELSE [i \in 1 .. b |-> IF i <= Len(cache) THEN cache[i] ELSE 0]
Kept(b, loads) == [Grown(b) EXCEPT ![b] = loads]
Moved == [s \in Scans |-> IF scan[s].at = "hit" THEN [scan[s] EXCEPT !.settled = FALSE] ELSE scan[s]]
Grows(b) == IF b <= Len(cache) THEN scan ELSE Moved
InvalidatePinCache_Not == UNCHANGED <<cache, scan>>
InvalidatePinCache == cache' = <<>> /\ scan' = Moved

-----------------------------------------------------------------------------
(* Writers, under the exclusive lock *)

\* An insert allocates a node and writes it where PinFast points.
Insert(r) ==
    /\ NoScan /\ phase = "none" /\ ~\E i \in 1 .. Len(rows) : rows[i] = r
    /\ LET node == Len(rows) + 1
           b == BufferOf(node)
           grown == IF b > Len(buffers) THEN Append(buffers, Fresh) ELSE Load(b)
           pointer == IF IsHit(cache, b) THEN cache[b] ELSE grown[b].loads
       IN  /\ grown[b].loads <= MaxLoads
           /\ buffers' = IF IsHit(cache, b) /\ pointer # grown[b].loads THEN grown
                         ELSE [grown EXCEPT ![b].data[SlotOf(node)] = r]
           /\ cache' = IF IsHit(cache, b) THEN cache ELSE Kept(b, pointer)
    /\ rows' = Append(rows, r) /\ dirty' = TRUE
    /\ UNCHANGED <<root, segs, scan, phase, file, crossed, overtaken>>

CommitDrop ==
    /\ NoScan /\ phase = "none" /\ rows # <<>>
    /\ rows' = <<>> /\ root' = NoRoot /\ segs' = <<>> /\ buffers' = <<>>
    /\ InvalidatePinCache
    /\ UNCHANGED <<dirty, phase, file, crossed, overtaken>>

-----------------------------------------------------------------------------
(* Scans, under the shared lock: between two locked steps of anything else,  *)
(* and beside all that a checkpoint or a log does without the lock.          *)

Look(s, node) ==            \* PinFast's test of the cache
    /\ scan[s] = Idle
    /\ scan' = [scan EXCEPT ![s] =
                  [at |-> IF IsHit(cache, BufferOf(node)) THEN "hit" ELSE "miss",
                   buffer |-> BufferOf(node), pointer |-> 0, settled |-> TRUE]]
    /\ overtaken' = IF phase = "written" THEN overtaken \cup {s} ELSE overtaken
    /\ UNCHANGED <<rows, dirty, root, segs, buffers, cache, phase, file, crossed>>

\* A vector that another scan has moved since is read where it was: anything.
Hit(s) ==
    /\ scan[s].at = "hit"
    /\ \E pointer \in IF scan[s].settled THEN {cache[scan[s].buffer]} ELSE 0 .. MaxLoads :
          scan' = [scan EXCEPT ![s].at = "pinned", ![s].pointer = pointer]
    /\ UNCHANGED <<rows, dirty, root, segs, buffers, cache, phase, file, crossed, overtaken>>

Fetch(s) ==                 \* PinFastSlow: the allocator loads the buffer
    /\ scan[s].at = "miss"
    /\ LET b == scan[s].buffer
           loads == Load(b)[b].loads
       IN  /\ loads <= MaxLoads
           /\ buffers' = Load(b)
           /\ scan' = [scan EXCEPT ![s].at = "fetched", ![s].pointer = loads]
    /\ UNCHANGED <<rows, dirty, root, segs, cache, phase, file, crossed, overtaken>>

\* A step later the address is kept, whatever has become of the buffer; one
\* kept before a checkpoint clears the cache goes with the rest.
Keep(s) ==
    /\ scan[s].at = "fetched"
    /\ LET b == scan[s].buffer
       IN  /\ cache' = Kept(b, scan[s].pointer)
           /\ scan' = [Grows(b) EXCEPT ![s].at = "pinned"]
           /\ crossed' = (crossed \/ (phase # "written" /\ ~IsAt(b, scan[s].pointer)))
    /\ UNCHANGED <<rows, dirty, root, segs, buffers, phase, file, overtaken>>

EndScan(s) ==               \* its last read done, the lock released
    /\ scan[s].at = "pinned"
    /\ scan' = [scan EXCEPT ![s] = Idle] /\ overtaken' = overtaken \ {s}
    /\ UNCHANGED <<rows, dirty, root, segs, buffers, cache, phase, file, crossed>>

-----------------------------------------------------------------------------
(* Checkpoint, log, restart *)

Words == <<Len(rows)>> \o rows
RowsOf(f) == ReadSome(f.segs, f.root, 1, ReadOne(f.segs, f.root, 1))

WriteStateStream ==
    LET written == WriteStream(segs, root, Words)
    IN  segs' = written.segs /\ root' = written.root

PersistToDisk ==            \* under the exclusive lock
    /\ NoScan
    /\ IF dirty THEN WriteStateStream ELSE UNCHANGED <<segs, root>>
    /\ dirty' = FALSE

Persist ==
    /\ phase = "none" /\ PersistToDisk
    /\ phase' = "persisted"
    /\ UNCHANGED <<rows, buffers, cache, scan, file, crossed, overtaken>>

Saved(b) == [loads |-> b.loads, loaded |-> FALSE, data |-> NoNodes,
             saved |-> IF b.loaded THEN b.data ELSE b.saved]

OnFile == [root |-> root, segs |-> segs,
           buffers |-> [i \in 1 .. Len(buffers) |-> Saved(buffers[i])]]

\* SerializeToDisk goes on without the lock: every buffer is written and its
\* handle destroyed, ...
SerializeBuffers ==
    /\ phase = "persisted" /\ phase' = "written"
    /\ buffers' = [i \in 1 .. Len(buffers) |-> Saved(buffers[i])]
    /\ overtaken' = {s \in Scans : scan[s] # Idle}
    /\ UNCHANGED <<rows, dirty, root, segs, cache, scan, file, crossed>>

\* ... then the cache is cleared, and the blocks are flushed.
FlushPartialBlocks ==
    /\ phase = "written" /\ phase' = "none"
    /\ InvalidatePinCache /\ file' = OnFile
    /\ UNCHANGED <<rows, dirty, root, segs, buffers, crossed, overtaken>>

\* SerializeToWAL goes on without it too: copies of buffers that stay loaded.
SerializeToWAL ==
    /\ phase = "persisted" /\ phase' = "none"
    /\ InvalidatePinCache /\ file' = OnFile
    /\ UNCHANGED <<rows, dirty, root, segs, buffers, crossed, overtaken>>

\* The constructor: Init of the store, then ReadStateStream.
Restart ==
    /\ root' = file.root /\ segs' = file.segs
    /\ buffers' = [i \in 1 .. Len(file.buffers) |-> [file.buffers[i] EXCEPT !.loads = 0]]
    /\ rows' = IF file.root = NoRoot THEN <<>> ELSE RowsOf(file)
    /\ dirty' = FALSE /\ cache' = <<>>
    /\ scan' = [s \in Scans |-> Idle] /\ phase' = "none" /\ overtaken' = {}
    /\ UNCHANGED <<file, crossed>>

Steps ==
    \/ \E r \in Rows : Insert(r)
    \/ CommitDrop
    \/ \E s \in Scans : \/ \E node \in 1 .. Len(rows) : Look(s, node)
                        \/ Hit(s) \/ Fetch(s) \/ Keep(s) \/ EndScan(s)
    \/ Persist \/ SerializeBuffers \/ FlushPartialBlocks \/ SerializeToWAL
Next == Steps \/ Restart
Spec == Init /\ [][Next]_vars

-----------------------------------------------------------------------------
\* The stream and the node buffers agree in memory and on disk: a row's node
\* holds the row, through growth of the stream, rewrites of it that are
\* longer or shorter, checkpoints, the log and restarts, with scans beside
\* them - but for the nodes once a scan has kept an address across a
\* checkpoint (crossed), through which the next insert into that buffer writes.
Content(b) == IF b.loaded THEN b.data ELSE b.saved
Holds(bufs, list) == \A node \in 1 .. Len(list) :
    BufferOf(node) <= Len(bufs) /\ Content(bufs[BufferOf(node)])[SlotOf(node)] = list[node]
StoreGivesBack ==
    /\ root # NoRoot /\ ~dirty => RowsOf([segs |-> segs, root |-> root]) = rows
    /\ ~crossed => Holds(buffers, rows)
    /\ ~crossed /\ file.root # NoRoot => Holds(file.buffers, RowsOf(file))

\* What a scan has pinned is in memory at that address until the scan ends,
\* whoever scans beside it, through loads on demand, logs and the clearing of
\* the cache after checkpoints - but for a scan that a checkpoint's writing out
\* of the buffers overtakes, which nothing in the extension prevents, one that
\* reads the vector after another scan or a log has moved it, and stale
\* addresses kept.
PinsStayValid == \A s \in Scans :
    scan[s].at = "pinned" /\ scan[s].settled /\ s \notin overtaken /\ ~crossed =>
        IsAt(scan[s].buffer, scan[s].pointer)
=============================================================================
