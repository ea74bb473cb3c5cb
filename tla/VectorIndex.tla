---------------------------- MODULE VectorIndex ----------------------------
(***************************************************************************)
(* The facade every index of the extension puts in front of its core: the  *)
(* map of known row ids, the tombstones, the dirty flag, the index lock    *)
(* and the checkpointed copy (HnswIndex; the IVF, SPANN, DiskANN and AiSAQ *)
(* classes have the same methods).  The core is a parameter.               *)
(*                                                                         *)
(* Around it stands DuckDB, which keeps the table and the write-ahead log, *)
(* calls Append and Delete under its own index lock, checkpoints while no  *)
(* write is under way, and after a crash loads the checkpoint and replays  *)
(* the log through the same two methods.                                   *)
(***************************************************************************)
EXTENDS Integers, Sequences, FiniteSets

CONSTANTS
    Rows, Vecs,           \* row ids, and the vectors rows and queries have
    NoVec, Absent,        \* a NULL vector; a row id the table does not hold
    Readers,              \* threads that scan
    EmptyCore,            \* a trained core with no entry
    CoreInsert(_, _, _),  \* the core after inserting a row with a vector
    CoreSearch(_, _, _),  \* the row lists a search for k candidates may give
    CoreEntries(_),       \* the <<row, vector>> pairs it holds
    ReuseRowIds,          \* TRUE: the id of a deleted row may come back
    MaxAppends, MaxLog,   \* bounds: Append calls, and calls since a checkpoint
    MaxLimit              \* bound: a scan's limit

ASSUME FacadeAssumption ==
    /\ NoVec \notin Vecs /\ Absent \notin Vecs \cup {NoVec}
    /\ ReuseRowIds \in BOOLEAN
    /\ MaxAppends \in Nat /\ MaxLog \in Nat /\ MaxLimit \in Nat \ {0}

VARIABLES
    mem,      \* the index in memory: core, row_to_block_'s keys, tombstones_
    dirty,    \* is_dirty
    disk,     \* the index as the last checkpoint wrote it
    pending,  \* the write that has set the flag and waits for the lock
    scan,     \* per reader: candidates, hits, limit; and, for the
              \*   properties, the rows that were live when the search held
              \*   the lock, and those among them it owes
    table,    \* DuckDB's table
    used,     \* row ids ever given to a row
    appends,  \* Append calls so far
    wal,      \* calls since the last checkpoint
    replay    \* calls still to be replayed after a crash

vars == <<mem, dirty, disk, pending, scan, table, used, appends, wal, replay>>

Calls == [kind : {"append"}, row : Rows, vec : Vecs \cup {NoVec}]
           \cup [kind : {"delete"}, row : Rows]
NoCall == [kind |-> "none"]
EmptyIndex == [core |-> EmptyCore, known |-> {}, tombstones |-> {}]
Idle == [at |-> "idle", cands |-> <<>>, hits |-> <<>>, limit |-> 0,
         live |-> {}, owed |-> {}]

Init ==
    /\ mem = EmptyIndex /\ disk = EmptyIndex
    /\ dirty = FALSE
    /\ pending = NoCall
    /\ scan = [t \in Readers |-> Idle]
    /\ table = [r \in Rows |-> Absent]
    /\ used = {} /\ appends = 0
    /\ wal = <<>> /\ replay = <<>>

-----------------------------------------------------------------------------
(* Writing.                                                                *)

(* Construct, under the exclusive lock: a NULL is skipped, a tombstone of  *)
(* the row is lifted, and the core gets a new entry.                       *)
Constructed(ix, r, v) ==
    IF v = NoVec THEN ix
    ELSE [core |-> CoreInsert(ix.core, r, v), known |-> ix.known \cup {r},
          tombstones |-> ix.tombstones \ {r}]

(* Delete: the core keeps the entry, a known row gets a tombstone.         *)
Deleted(ix, r) ==
    [ix EXCEPT !.tombstones = @ \cup ({r} \cap ix.known)]

Applied(ix, c) ==
    IF c.kind = "append" THEN Constructed(ix, c.row, c.vec)
    ELSE Deleted(ix, c.row)

(* The calls DuckDB may make on the table as it stands.                    *)
Callable(c) ==
    \/ /\ c.kind = "append" /\ appends < MaxAppends
       /\ table[c.row] = Absent /\ (ReuseRowIds \/ c.row \notin used)
    \/ c.kind = "delete" /\ table[c.row] # Absent

(* Append or Delete is called: the flag is set before the lock is taken.   *)
Flagged(d) == TRUE

CallWrite ==
    /\ pending = NoCall /\ replay = <<>> /\ Len(wal) < MaxLog
    /\ \E c \in Calls :
         /\ Callable(c)
         /\ pending' = c
         /\ appends' = appends + (IF c.kind = "append" THEN 1 ELSE 0)
         /\ used' = used \cup {c.row}
    /\ dirty' = Flagged(dirty)
    /\ UNCHANGED <<mem, disk, scan, table, wal, replay>>

(* The lock is free and the call does its work; the row it is for is       *)
(* committed to the table and to the log.                                  *)
DoWrite ==
    /\ pending # NoCall
    /\ mem' = Applied(mem, pending)
    /\ table' = [table EXCEPT ![pending.row] =
                   IF pending.kind = "append" THEN pending.vec ELSE Absent]
    /\ wal' = Append(wal, pending)
    /\ pending' = NoCall
    /\ UNCHANGED <<dirty, disk, scan, used, appends, replay>>

(* Compact sets the flag, takes the lock and does nothing else.            *)
Compact ==
    /\ replay = <<>>
    /\ dirty' = TRUE
    /\ UNCHANGED <<mem, disk, pending, scan, table, used, appends, wal, replay>>

-----------------------------------------------------------------------------
(* Persistence.                                                            *)

(* PersistToDisk: nothing is written unless something changed.             *)
Persisted == IF dirty THEN mem ELSE disk

(* DuckDB's checkpoint lock waits for writes under way.                    *)
NoWriteUnderWay_Ignored == TRUE
NoWriteUnderWay == pending = NoCall

(* SerializeToDisk in a checkpoint, after which the log is empty.          *)
Checkpoint ==
    /\ replay = <<>> /\ NoWriteUnderWay
    /\ disk' = Persisted
    /\ dirty' = FALSE
    /\ wal' = <<>>
    /\ UNCHANGED <<mem, pending, scan, table, used, appends, replay>>

(* A crash, and ReadStateStream when the database is opened again.         *)
Loaded_StillInMemory(d) == mem
Loaded_WithoutTombstones(d) == [d EXCEPT !.tombstones = {}]
Loaded(d) == d

Restart ==
    /\ mem' = Loaded(disk)
    /\ dirty' = FALSE
    /\ pending' = NoCall
    /\ scan' = [t \in Readers |-> Idle]
    /\ replay' = wal
    /\ UNCHANGED <<disk, table, used, appends, wal>>

Replay ==
    /\ replay # <<>>
    /\ mem' = Applied(mem, Head(replay))
    /\ dirty' = Flagged(dirty)
    /\ replay' = Tail(replay)
    /\ UNCHANGED <<disk, pending, scan, table, used, appends, wal>>

-----------------------------------------------------------------------------
(* Scanning.                                                               *)

LiveRows == {r \in Rows : table[r] \in Vecs}

Oversample_LimitOnly(limit) == limit
Oversample(limit) == limit + Cardinality(mem.tombstones)

Tombstoned_Never(r) == FALSE
Tombstoned(r) == r \in mem.tombstones

(* The first `limit` candidates without a tombstone, in their order.       *)
Hits(cands, limit) ==
    LET live == {i \in 1..Len(cands) : ~Tombstoned(cands[i])}
        Rank(i) == Cardinality({j \in live : j <= i})
        found == Cardinality(live)
    IN  [h \in 1 .. (IF found <= limit THEN found ELSE limit) |->
           cands[CHOOSE i \in live : Rank(i) = h]]

(* The live rows a scan can be held to: all of them, or, if the core came  *)
(* back with fewer candidates than it was asked for (a graph search need   *)
(* not reach every node), the ones among the candidates.                   *)
Owed(cands, limit) ==
    IF Len(cands) >= Oversample(limit) THEN LiveRows
    ELSE LiveRows \cap {cands[i] : i \in 1..Len(cands)}

(* InitializeScan searches and filters under the shared lock.              *)
InitializeScan(t) ==
    /\ scan[t].at = "idle" /\ replay = <<>>
    /\ \E q \in Vecs, limit \in 1..MaxLimit :
       \E cands \in CoreSearch(mem.core, q, Oversample(limit)) :
         scan' = [scan EXCEPT ![t] =
                    [at |-> "scanned", cands |-> cands, limit |-> limit,
                     hits |-> Hits(cands, limit),
                     live |-> LiveRows, owed |-> Owed(cands, limit)]]
    /\ UNCHANGED <<mem, dirty, disk, pending, table, used, appends, wal, replay>>

(* ExecuteMultiScan searches under the shared lock, ...                    *)
ExecuteMultiScan(t) ==
    /\ scan[t].at = "idle" /\ replay = <<>>
    /\ \E q \in Vecs, limit \in 1..MaxLimit :
       \E cands \in CoreSearch(mem.core, q, Oversample(limit)) :
         scan' = [scan EXCEPT ![t] =
                    [at |-> "filter", cands |-> cands, limit |-> limit,
                     hits |-> <<>>,
                     live |-> LiveRows, owed |-> Owed(cands, limit)]]
    /\ UNCHANGED <<mem, dirty, disk, pending, table, used, appends, wal, replay>>

(* ... but looks the candidates up in tombstones_ when it has released it. *)
FilterOne(t) ==
    LET s == scan[t] IN
    /\ s.at = "filter"
    /\ \/ /\ s.cands = <<>> \/ Len(s.hits) >= s.limit
          /\ scan' = [scan EXCEPT ![t].at = "filtered"]
       \/ /\ s.cands # <<>> /\ Len(s.hits) < s.limit
          /\ scan' = [scan EXCEPT
                        ![t].cands = Tail(@),
                        ![t].hits = IF Tombstoned(Head(s.cands)) THEN @
                                    ELSE Append(@, Head(s.cands))]
    /\ UNCHANGED <<mem, dirty, disk, pending, table, used, appends, wal, replay>>

EndScan(t) ==
    /\ scan[t].at \in {"scanned", "filtered"}
    /\ scan' = [scan EXCEPT ![t] = Idle]
    /\ UNCHANGED <<mem, dirty, disk, pending, table, used, appends, wal, replay>>

Next ==
    \/ CallWrite \/ DoWrite \/ Compact \/ Checkpoint \/ Restart \/ Replay
    \/ \E t \in Readers : \/ InitializeScan(t) \/ ExecuteMultiScan(t)
                          \/ FilterOne(t) \/ EndScan(t)

Spec == Init /\ [][Next]_vars

-----------------------------------------------------------------------------
(* Properties.                                                             *)

Indexes == [core : {mem.core, disk.core}, known : SUBSET Rows,
            tombstones : SUBSET Rows]

TypeOK ==
    /\ mem \in Indexes /\ disk \in Indexes
    /\ mem.tombstones \subseteq mem.known
    /\ dirty \in BOOLEAN
    /\ pending \in Calls \cup {NoCall}
    /\ table \in [Rows -> Vecs \cup {NoVec, Absent}]
    /\ used \subseteq Rows /\ appends \in 0..MaxAppends
    /\ Len(wal) <= MaxLog /\ Len(replay) <= Len(wal)

(* Outside recovery the index knows exactly the rows of the table that     *)
(* have a vector, whatever sequence of writes, checkpoints (which may find *)
(* nothing to write), crashes and replays came before, and its core holds  *)
(* each under the vector the table has.                                    *)
IndexCoversTable ==
    replay = <<>> =>
        /\ mem.known \ mem.tombstones = LiveRows
        /\ \A r \in LiveRows : <<r, table[r]>> \in CoreEntries(mem.core)

(* What a clean flag promises PersistToDisk: the checkpointed copy is the  *)
(* index in memory.                                                        *)
CleanMeansSaved == ~dirty => mem = disk

(* No scan returns a row that was deleted before its search.               *)
HitsWereLive ==
    \A t \in Readers : \A i \in 1..Len(scan[t].hits) :
        scan[t].hits[i] \in scan[t].live

(* A row is returned once.                                                 *)
RowReturnedOnce ==
    \A t \in Readers : \A i, j \in 1..Len(scan[t].hits) :
        i # j => scan[t].hits[i] # scan[t].hits[j]

AtLeast(n, limit, rows) == n >= limit \/ n >= Cardinality(rows)

(* A scan returns `limit` rows, or every live row its search could give:   *)
(* over-fetching by the number of tombstones makes up for the rows the     *)
(* filter drops, whatever the core leaves out of reach.                    *)
ScanIsFull ==
    \A t \in Readers : scan[t].at = "scanned" =>
        AtLeast(Len(scan[t].hits), scan[t].limit, scan[t].owed)

(* A multi-scan, which filters without the lock, falls short of that by at *)
(* most the rows deleted since its search, for which it has no substitute. *)
MultiScanShortOnlyOfDeleted ==
    \A t \in Readers : scan[t].at = "filtered" =>
        AtLeast(Len(scan[t].hits) + Cardinality(scan[t].owed \cap mem.tombstones),
                scan[t].limit, scan[t].owed)
=============================================================================
