----------------------------- MODULE CreateIndex ----------------------------
(***************************************************************************)
(* CREATE INDEX ... USING ivf or spann and the index's life after it:      *)
(* threads sink the table's rows into collections of their own and combine *)
(* them; centroids are trained on a prefix; tasks take chunks off the      *)
(* collection and insert them under the index lock; then rows are appended *)
(* and deleted.  A chunk is a row.                                         *)
(***************************************************************************)
EXTENDS PostingLists

CONSTANTS Rows,         \* bound: row ids
          InitialRows,  \* the sets of rows an index may be made on
          Vectors, Null,
          SampleCap,    \* sample_cap of TrainCentroids
          Threads

ASSUME CreateAssumption ==
    /\ Rows \subseteq Nat /\ IsFiniteSet(Rows) /\ InitialRows \subseteq SUBSET Rows
    /\ Vectors \subseteq Nat /\ Null \notin Vectors
    /\ SampleCap \in Nat \ {0} /\ Threads # {}

VARIABLES
    kind,        \* "ivf" or "spann"
    table,       \* the vector of each row; NULL for some
    rows,        \* rows the table has
    unread,      \* those the table scan has not delivered yet
    local,       \* a thread's collection
    combined,    \* threads that have combined theirs
    collection,  \* gstate.collection
    phase,       \* "sink", "construct", "ready"
    pos,         \* gstate.scan_state: chunks taken
    chunk,       \* the chunk a task has taken; 0 for none
    centroids, postings,    \* the core
    rowCell,     \* row_to_centroid_
    tombstones

build == <<unread, local, combined, collection, pos, chunk>>
index == <<postings, rowCell, tombstones>>
vars == <<kind, table, rows, build, phase, centroids, index>>

NoCell == 0
NoChunk == 0

Init ==
    /\ kind \in {"ivf", "spann"}
    /\ table \in [Rows -> Vectors \cup {Null}]
    /\ rows \in InitialRows
    /\ unread = rows /\ local = [t \in Threads |-> <<>>] /\ combined = {}
    /\ collection = <<>> /\ phase = "sink" /\ pos = 0
    /\ chunk = [t \in Threads |-> NoChunk]
    /\ centroids = [c \in Cells |-> 0]
    /\ postings = [c \in Cells |-> <<>>]
    /\ rowCell = [r \in Rows |-> NoCell] /\ tombstones = {}

-----------------------------------------------------------------------------
(* The pipeline.                                                           *)

Sink(t) ==
    /\ phase = "sink" /\ unread # {} /\ t \notin combined
    /\ LET r == Min(unread) IN
       /\ unread' = unread \ {r}
       /\ local' = [local EXCEPT ![t] = Append(@, r)]
    /\ UNCHANGED <<kind, table, rows, combined, collection, phase, pos, chunk,
                   centroids, index>>

Merged_Replace(t) == local[t]
Merged(t) == collection \o local[t]

Combine(t) ==
    /\ phase = "sink" /\ unread = {} /\ t \notin combined
    /\ combined' = combined \cup {t}
    /\ collection' = IF local[t] = <<>> THEN collection ELSE Merged(t)
    /\ local' = [local EXCEPT ![t] = <<>>]
    /\ UNCHANGED <<kind, table, rows, unread, phase, pos, chunk, centroids, index>>

(* SampleFloats: NULL counts as the zero vector.                           *)
Sample ==
    LET Value(r) == IF table[r] = Null THEN 0 ELSE table[r]
        n == Min({Len(collection), SampleCap})
    IN  [i \in 1..n |-> Value(collection[i])]

(* Finalize trains; the tasks are scheduled.                               *)
Finalize ==
    /\ phase = "sink" /\ combined = Threads
    /\ centroids' \in KMeansPlusPlus(Sample)
    /\ phase' = "construct"
    /\ UNCHANGED <<kind, table, rows, build, index>>

(* A task takes the next chunk; the parallel scan hands each out once.     *)
ScanChunk(t) ==
    /\ phase = "construct" /\ chunk[t] = NoChunk /\ pos < Len(collection)
    /\ pos' = pos + 1
    /\ chunk' = [chunk EXCEPT ![t] = pos + 1]
    /\ UNCHANGED <<kind, table, rows, unread, local, combined, collection, phase,
                   centroids, index>>

(* IvfIndex::Construct and SpannIndex::Construct under the lock.           *)
Construct(r) ==
    IF table[r] = Null THEN UNCHANGED index
    ELSE /\ \E cells \in CellsFor(kind, table[r], centroids) :
              /\ postings' = Stored(postings, cells, [row |-> r, vec |-> table[r]])
              /\ rowCell' = [rowCell EXCEPT ![r] = cells[1]]
         /\ tombstones' = tombstones \ {r}

ConstructChunk(t) ==
    /\ phase = "construct" /\ chunk[t] # NoChunk
    /\ Construct(collection[chunk[t]])
    /\ chunk' = [chunk EXCEPT ![t] = NoChunk]
    /\ UNCHANGED <<kind, table, rows, unread, local, combined, collection, phase, pos,
                   centroids>>

(* Every task has finished: the index is added to the table and the        *)
(* pipeline's state goes.                                                  *)
FinishEvent ==
    /\ phase = "construct" /\ pos = Len(collection)
    /\ \A t \in Threads : chunk[t] = NoChunk
    /\ phase' = "ready"
    /\ collection' = <<>> /\ pos' = 0 /\ combined' = {}
    /\ UNCHANGED <<kind, table, rows, unread, local, chunk, centroids, index>>

-----------------------------------------------------------------------------
(* The index in use.  Row ids go up and are deleted once.                  *)

AppendRow(r) ==
    /\ phase = "ready" /\ rows # Rows /\ r = Min(Rows \ rows)
    /\ rows' = rows \cup {r}
    /\ Construct(r)
    /\ UNCHANGED <<kind, table, build, phase, centroids>>

DeleteRow(r) ==
    /\ phase = "ready" /\ rowCell[r] # NoCell /\ r \notin tombstones
    /\ tombstones' = tombstones \cup {r}
    /\ UNCHANGED <<kind, table, rows, build, phase, centroids, postings, rowCell>>

(* InitializeScan asks the core for more, as many as there are tombstones. *)
Oversample_LimitOnly(limit) == limit
Oversample(limit) == limit + Cardinality(tombstones)

Next ==
    \/ \E t \in Threads : Sink(t) \/ Combine(t) \/ ScanChunk(t) \/ ConstructChunk(t)
    \/ Finalize \/ FinishEvent
    \/ \E r \in Rows : AppendRow(r) \/ DeleteRow(r)

Spec == Init /\ [][Next]_vars

-----------------------------------------------------------------------------
(* Properties.                                                             *)

Entry == [row : Rows, vec : Vectors]
MaxVector == Max(Vectors \cup {0})

TypeOK ==
    /\ kind \in {"ivf", "spann"} /\ table \in [Rows -> Vectors \cup {Null}]
    /\ rows \subseteq Rows /\ unread \subseteq rows /\ combined \subseteq Threads
    /\ local \in [Threads -> Seq(Rows)] /\ collection \in Seq(Rows)
    /\ phase \in {"sink", "construct", "ready"} /\ pos \in 0..Len(collection)
    /\ chunk \in [Threads -> 0..Len(collection)]
    /\ centroids \in [Cells -> 0..MaxVector]
    /\ postings \in [Cells -> Seq(Entry)]
    /\ rowCell \in [Rows -> Cells \cup {NoCell}] /\ tombstones \subseteq Rows

CellsOf(r) == {c \in Cells : \E e \in ToSet(postings[c]) : e.row = r}

(* In the finished index every row of the table with a vector has been     *)
(* stored, once in each of its cells and in no more cells than its kind    *)
(* allows, whichever thread read it and whichever task took its chunk.     *)
EveryRowStored ==
    phase = "ready" =>
        \A r \in rows :
          IF table[r] = Null THEN CellsOf(r) = {} /\ rowCell[r] = NoCell
          ELSE /\ rowCell[r] \in CellsOf(r)
               /\ Cardinality(CellsOf(r)) <= IF kind = "ivf" THEN 1 ELSE ReplicaCount
               /\ \A c \in CellsOf(r) :
                    Cardinality({i \in 1..Len(postings[c]) : postings[c][i].row = r}) = 1

(* The rows a scan may return.                                             *)
Live == {r \in Rows : rowCell[r] # NoCell} \ tombstones

(* SPANN stores a vector in the cell IVF would choose, however ties fall.  *)
IvfCellKept ==
    \A r \in Live : AssignCentroid(table[r], centroids) \in CellsOf(r)

NumEntries == Len(FlattenSeq(postings))

(* A search for a stored vector, of as few as NProbe lists, meets the row: *)
(* insert and search agree on the nearest cell, also among equals, which   *)
(* few or repeated samples make.                                           *)
OwnVectorFindsRow ==
    phase = "ready" =>
        \A r \in Live :
          \A C \in CoreSearch(kind, postings, centroids, table[r], NumEntries, NProbe) :
            \E i \in DOMAIN C : C[i].row = r

(* Copies of a row in several lists count once.                            *)
RowReturnedOnce ==
    phase = "ready" =>
        \A q \in Vectors :
          \A C \in CoreSearch(kind, postings, centroids, q, NumEntries, NList) :
            \A i, j \in DOMAIN C : i # j => C[i].row # C[j].row

(* A scan that probes every list returns the nearest rows there are: the   *)
(* over-fetch makes up for deleted rows and dropped copies take no place.  *)
FullProbeIsExact ==
    phase = "ready" =>
        \A q \in Vectors, limit \in 1..Cardinality(Rows) :
          \A C \in CoreSearch(kind, postings, centroids, q, Oversample(limit), NList) :
            LET found == {C[i].row : i \in DOMAIN C} \ tombstones IN
            /\ found \subseteq Live
            /\ Cardinality(found) >= Min({limit, Cardinality(Live)})
            /\ \A r \in Live \ found :
                 Cardinality({f \in found : L2sq(q, table[f]) <= L2sq(q, table[r])}) >= limit
=============================================================================
