---------------------------- MODULE PostingLists ----------------------------
(***************************************************************************)
(* The cores of IVF and SPANN: which lists a vector is stored in and what  *)
(* a search of some of the lists may return.  SPANN stores a vector in     *)
(* several lists and drops the copies of a row when it searches.           *)
(*                                                                         *)
(* postings[c] is the list of cell c: the row ids and codes in the order   *)
(* they came.                                                              *)
(***************************************************************************)
EXTENDS KMeans, SequencesExt

CONSTANTS NProbe,                     \* params_.nprobe
          ReplicaCount,               \* params_.replica_count
          ClosureNum, ClosureDen      \* params_.closure_factor, as a fraction

ASSUME PostingAssumption ==
    /\ NProbe \in 1..NList /\ ReplicaCount \in 1..NList
    /\ ClosureDen \in Nat \ {0} /\ ClosureNum \in Nat /\ ClosureNum >= ClosureDen

-----------------------------------------------------------------------------
(* Keeping the best: std::partial_sort, and the heap of a search, take in  *)
(* one after another, and when full drop a worst one for one that beats it *)
(* strictly.                                                               *)

Beats_OrTies(d, k, S) == \E s \in S : d[k] <= d[s]
Beats(d, k, S) == \E s \in S : d[k] < d[s]

Worst(d, S) == {s \in S : \A t \in S : d[t] <= d[s]}

(* The sets of indices that may be kept of d.                              *)
Keep(d, cap) ==
    LET kept[k \in 0..Len(d)] ==
          IF k = 0 THEN {{}}
          ELSE UNION {IF Cardinality(S) < cap THEN {S \cup {k}}
                      ELSE IF Beats(d, k, S)
                           THEN {(S \ {w}) \cup {k} : w \in Worst(d, S)}
                           ELSE {S}
                        : S \in kept[k - 1]}
    IN  kept[Len(d)]

(* Orders std::sort may leave S in.                                        *)
Ascending(d, S) ==
    {q \in SetToSeqs(S) : \A i, j \in 1..Len(q) : i < j => d[q[i]] <= d[q[j]]}

CellDistances(v, centroids) == [c \in Cells |-> L2sq(v, centroids[c])]

-----------------------------------------------------------------------------
(* Insert.                                                                 *)

AssignCentroid(v, centroids) == NearestCell(v, centroids)

WithinCutoff_Strict(d, best) == d * ClosureDen < ClosureNum * best
WithinCutoff(d, best) == d * ClosureDen <= ClosureNum * best

(* The cells SPANN stores a vector in: of the nearest, in order, all up to *)
(* the first that is beyond the cutoff.                                    *)
ChooseCentroids(v, centroids) ==
    LET d == CellDistances(v, centroids)
        Breaks(q, n) == /\ \A i \in 2..n : WithinCutoff(d[q[i]], d[q[1]])
                        /\ n < Len(q) => ~WithinCutoff(d[q[n + 1]], d[q[1]])
        Closure(q) == {SubSeq(q, 1, n) : n \in {m \in 1..Len(q) : Breaks(q, m)}}
    IN  UNION {Closure(q) : q \in UNION {Ascending(d, S) : S \in Keep(d, ReplicaCount)}}

(* The cells a vector may go to, in order.                                 *)
CellsFor(kind, v, centroids) ==
    IF kind = "ivf" THEN {<<AssignCentroid(v, centroids)>>}
    ELSE ChooseCentroids(v, centroids)

Stored(postings, cells, entry) ==
    [c \in Cells |-> IF Contains(cells, c) THEN Append(postings[c], entry)
                     ELSE postings[c]]

-----------------------------------------------------------------------------
(* Search.                                                                 *)

(* The lists probed for a query, in order.                                 *)
Probes(q, centroids, nprobe) ==
    LET d == CellDistances(q, centroids) IN
    UNION {Ascending(d, S) : S \in Keep(d, nprobe)}

Entries(postings, cells) == FlattenSeq([i \in 1..Len(cells) |-> postings[cells[i]]])

(* The entries that SPANN's seen set lets pass: the first of each row.     *)
FirstOfRow_Any(e, i) == TRUE
FirstOfRow(e, i) == \A j \in 1 .. i - 1 : e[j].row # e[i].row

Offered(kind, e) ==
    IF kind = "ivf" THEN e
    ELSE LET first == {i \in 1..Len(e) : FirstOfRow(e, i)}
             At(h) == CHOOSE i \in first : Cardinality({j \in first : j <= i}) = h
         IN  [h \in 1..Cardinality(first) |-> e[At(h)]]

(* The candidates a search may return: functions from places to entries.   *)
CoreSearch(kind, postings, centroids, q, limit, nprobe) ==
    UNION {LET e == Offered(kind, Entries(postings, cells))
               d == [i \in 1..Len(e) |-> L2sq(q, e[i].vec)]
           IN  {[i \in S |-> e[i]] : S \in Keep(d, limit)}
             : cells \in Probes(q, centroids, nprobe)}
=============================================================================
