----------------------------- MODULE QueryPlans -----------------------------
(***************************************************************************)
(* A query on a table with a vector index, from the optimizer's rewrite to *)
(* its answer: ORDER BY distance LIMIT k, min_by(column, distance, k) and  *)
(* the lateral join of k neighbours.  The rewrite fixes how many           *)
(* candidates the index gives and the label filter; the scan asks the      *)
(* index once, then fetches its candidates a vector of rows at a time; the *)
(* operator above keeps the exact top k.                                   *)
(*                                                                         *)
(* The query's transaction has its own view of the table, and changes of   *)
(* its own the index does not know.  Other transactions commit meanwhile,  *)
(* to an index that has no versions.                                       *)
(***************************************************************************)
EXTENDS LabelSearch

CONSTANTS
    Built, Late,         \* row ids: there at CREATE INDEX, and later
    SomeLabels, Null,    \* labels of rows, and that of a row without one
    Tables,              \* the labels and the codes the rows may have
    Exact(_, _),         \* the distance of a row to the constant, by function
    Queries, Outers,     \* the queries, and the rows on a join's other side
    VectorSize,          \* STANDARD_VECTOR_SIZE
    OwnRerank, Sessions, \* WITH (rerank), values of vindex_rerank_multiple
    LSearch,             \* params_.L
    MaxEvents            \* bound: changes to the table

ASSUME PlanAssumption ==
    /\ Built \cap Late = {} /\ Built \cup Late \subseteq Nat /\ IsFiniteSet(Built)
    /\ SomeLabels \subseteq MinLabel..MaxLabel /\ Null \notin SomeLabels
    /\ VectorSize \in Nat \ {0} /\ LSearch \in Nat /\ Outers \in Nat
    /\ OwnRerank \in Nat /\ Sessions \subseteq Nat
    /\ \A t \in Tables : /\ t.label \in [Built \cup Late -> SomeLabels \cup {Null}]
                          /\ t.code \in [Built \cup Late -> Nat]
                          /\ \A o \in 0..Outers, r \in Built \cup Late : Lut(o, t.code[r]) \in Int

ASSUME QueryAssumption ==
    \A q \in Queries :
        /\ q.k \in Nat /\ q.offset \in Nat
        /\ \A r \in Built \cup Late : Exact(q.fn, r) \in Int
        /\ q.shape = "minby" => q.ascending
        /\ q.shape = "join" => q.k # 0         \* it is divided by
        /\ q.where \in Seq(ToSet(q.where))
        /\ \A p \in ToSet(q.where) :
              \/ p.op = "in"
              \/ p.op \in {"=", ">", ">=", "<", "<="} /\ p.v \in Int

VARIABLES
    label,       \* the table: row -> label, as the query's transaction sees it
    code,        \* row -> code
    view,        \* the rows that transaction sees
    labelled,    \* was the index made WITH (label_column = ...)?
    core, tombstones,   \* the index
    query,       \* the query under way
    events       \* changes so far
queryVars == <<label, code, view, labelled, core, tombstones, query, events>>

RowIds == Built \cup Late
NoQuery == [at |-> "idle"]

(* The graph of a few nodes: all are neighbours.                           *)
Linked(n) == [i \in 1..n |-> InOrder((0 .. n - 1) \ {i - 1})]

(* CREATE INDEX ... USING AISAQ: no row with a NULL in the vector or in    *)
(* the label column, and MinLabel stands for no label.                     *)
BuiltCore(withLabels, lab, codes) ==
    LET rows == InOrder({r \in Built : withLabels => lab[r] # Null})
        n == Len(rows)
        known == {i \in 0 .. n - 1 : withLabels /\ lab[rows[i + 1]] # MinLabel}
        core0 == [rows |-> rows, codes |-> [i \in 1..n |-> codes[rows[i]]], nbrs |-> Linked(n),
                  label |-> [i \in known |-> lab[rows[i + 1]]], entries |-> ComputeEntryPoints(n)]
    IN  [rows |-> core0.rows, codes |-> core0.codes, nbrs |-> core0.nbrs, label |-> core0.label,
         entries |-> core0.entries, medoids |-> ComputeLabelMedoids(core0)]

QueryInit ==
    /\ \E t \in Tables : label = t.label /\ code = t.code
    /\ labelled \in BOOLEAN
    /\ view = Built
    /\ core = BuiltCore(labelled, label, code) /\ tombstones = {}
    /\ query = NoQuery /\ events = 0

-----------------------------------------------------------------------------
(* The table: DuckDB's transactions.                                       *)

Change == events < MaxEvents /\ events' = events + 1 /\ UNCHANGED <<code, labelled, query>>
InIndex(r) == r \in ToSet(core.rows) /\ r \notin tombstones
NotStarted == query.at \in {"idle", "planned"}

(* Statements of the query's own transaction: rows it inserts stay in      *)
(* local storage, rows it deletes in the index, and an update of the label *)
(* column does not concern an index on the vector column.                  *)
OwnInsert(r) ==
    /\ NotStarted /\ r \in Late \ view /\ ~InIndex(r) /\ Change
    /\ view' = view \cup {r}
    /\ UNCHANGED <<label, core, tombstones>>
OwnDelete(r) ==
    /\ NotStarted /\ r \in view /\ Change
    /\ view' = view \ {r}
    /\ UNCHANGED <<label, core, tombstones>>
OwnUpdate(r, l) ==
    /\ NotStarted /\ r \in view /\ l # label[r] /\ Change
    /\ label' = [label EXCEPT ![r] = l]
    /\ UNCHANGED <<view, core, tombstones>>

(* Commits of others: Append, without a label, and Delete.                 *)
OtherInsert(r) ==
    /\ r \in Late \ view /\ r \notin ToSet(core.rows) /\ Change
    /\ core' = [core EXCEPT !.rows = Append(@, r), !.codes = Append(@, code[r]),
                            !.nbrs = Linked(Len(core.rows) + 1)]
    /\ UNCHANGED <<label, view, tombstones>>
OtherDelete(r) ==
    /\ InIndex(r) /\ Change
    /\ tombstones' = tombstones \cup {r}
    /\ UNCHANGED <<label, view, core>>

-----------------------------------------------------------------------------
(* The rewrite.                                                            *)

(* BuildDistanceMatcher: the functions of the index's metric, l2sq.        *)
DistanceFunctionNames == {"array_distance", "<->"}
TryMatchDistanceFunction(q) == q.fn \in DistanceFunctionNames
(* The constant and the indexed column, in either order.                   *)
ConstantAndColumn(q) == {q.args[1], q.args[2]} = {"constant", "column"}

Ascending_Either(q) == TRUE
Ascending(q) == q.orders = 1 /\ q.ascending
MatchesTopN(q) ==
    /\ q.shape = "topn" /\ Ascending(q) /\ ~q.dynamic
    /\ TryMatchDistanceFunction(q) /\ ConstantAndColumn(q)
MatchesMinBy(q) ==
    /\ q.shape = "minby" /\ ~q.dynamic
    /\ TryMatchDistanceFunction(q) /\ ConstantAndColumn(q)
    /\ q.k \in 1 .. VectorSize - 1
MatchesJoin(q) ==
    /\ q.shape = "join" /\ Ascending(q) /\ TryMatchDistanceFunction(q)
    /\ {q.args[1], q.args[2]} = {"outer column", "column"}
    /\ q.k \in 0 .. VectorSize - 1

GetRerankMultiple(session) ==
    IF session > 0 THEN session ELSE IF OwnRerank = 0 THEN 1 ELSE OwnRerank
CandLimit(q, session) == q.k * GetRerankMultiple(session)    \* whatever the OFFSET

(* Only the TopN rewrite passes a label filter on.                         *)
Plan(q, session) ==
    /\ query.at = "idle"
    /\ query' = IF MatchesJoin(q)
                THEN [at |-> "planned", plan |-> "join", q |-> q, limit |-> q.k, filter |-> NoFilter]
                ELSE IF MatchesTopN(q) \/ MatchesMinBy(q)
                THEN [at |-> "planned", plan |-> "index", q |-> q, limit |-> CandLimit(q, session),
                      filter |-> IF q.shape = "topn" THEN TryExtractLabelFilter(labelled, q.where)
                                 ELSE NoFilter]
                ELSE [at |-> "planned", plan |-> "table", q |-> q]
    /\ UNCHANGED <<label, code, view, labelled, core, tombstones, events>>

-----------------------------------------------------------------------------
(* Execution.                                                              *)

(* The index's hits: over-fetched by the tombstones, then without them.    *)
FirstOf(list, limit) == SubSeq(list, 1, Lesser(limit, Len(list)))
IndexHits(lut, limit, filter) ==
    LET cands == Search(core, lut, limit + Cardinality(tombstones), LSearch, 0, filter)
    IN  FirstOf(Filtered(cands, RowIds \ tombstones), limit)

(* VectorIndexScanInitGlobal; a sequential scan reads the view.            *)
Open ==
    /\ query.at = "planned"
    /\ \/ /\ query.plan = "index"
          /\ query' = [at |-> "open", plan |-> "index", q |-> query.q,
                       limit |-> query.limit, filter |-> query.filter,
                       hits |-> IndexHits(0, query.limit, query.filter),
                       pos |-> 0, found |-> {}, cut |-> FALSE]
       \/ /\ query.plan = "join"
          /\ query' = [at |-> "join", plan |-> "join", q |-> query.q, limit |-> query.limit,
                       input |-> 0, out |-> <<>>, dropped |-> FALSE]
       \/ /\ query.plan = "table"
          /\ query' = [at |-> "done", plan |-> "table", q |-> query.q, found |-> view]
    /\ UNCHANGED <<label, code, view, labelled, core, tombstones, events>>

(* DataTable::Fetch leaves out the rows the transaction does not see.      *)
Fetch(rows) == Filtered(rows, view)

(* VectorIndexScanExecute; DuckDB takes an empty chunk for the end.        *)
Execute ==
    /\ query.at = "open"
    /\ LET batch == SubSeq(query.hits, query.pos + 1, Lesser(query.pos + VectorSize, Len(query.hits)))
           rows == ToSet(Fetch(batch))
       IN  query' = IF rows = {}
                    THEN [query EXCEPT !.at = "done", !.cut = query.pos + Len(batch) < Len(query.hits)]
                    ELSE [query EXCEPT !.pos = @ + Len(batch), !.found = @ \cup rows]
    /\ UNCHANGED <<label, code, view, labelled, core, tombstones, events>>

(* PhysicalVectorIndexJoin::Execute: as many rows of the other side as     *)
(* leave room for k matches each, their hits in one list of row ids.       *)
ResetMultiScan_Kept(out) == [i \in 1..Len(out) |-> out[i][1]]
ResetMultiScan(out) == <<>>
Numbered(hits, o) == [i \in 1..Len(hits) |-> <<hits[i], o, i>>]
JoinExecute ==
    /\ query.at = "join"
    /\ LET count == Lesser(Outers - query.input, VectorSize \div query.limit)
           Of(b) == IndexHits(query.input + b, query.limit, NoFilter)
           matches == FlattenSeq([b \in 1..count |-> Numbered(Of(b), query.input + b)])
           ids == ResetMultiScan(query.out) \o [i \in 1..Len(matches) |-> matches[i][1]]
           fetched == Fetch(SubSeq(ids, 1, Len(matches)))
           chunk == [i \in 1..Len(matches) |->       \* the rest of the chunk is not set
                        <<IF i <= Len(fetched) THEN fetched[i] ELSE Null, matches[i][2], matches[i][3]>>]
       IN  query' = [query EXCEPT !.at = IF query.input + count = Outers THEN "joined" ELSE "join",
                                  !.input = @ + count, !.out = @ \o chunk,
                                  !.dropped = @ \/ Len(fetched) < Len(matches)]
    /\ UNCHANGED <<label, code, view, labelled, core, tombstones, events>>

(* The answer is given; the transaction may ask again.                     *)
EndQuery ==
    /\ query.at \in {"done", "joined"} /\ query' = NoQuery
    /\ UNCHANGED <<label, code, view, labelled, core, tombstones, events>>

QueryNext ==
    \/ \E r \in RowIds : OwnInsert(r) \/ OwnDelete(r) \/ OtherInsert(r) \/ OtherDelete(r)
    \/ \E r \in RowIds, l \in SomeLabels : OwnUpdate(r, l)
    \/ \E q \in Queries, s \in Sessions : Plan(q, s)
    \/ Open \/ Execute \/ JoinExecute \/ EndQuery
QuerySpec == QueryInit /\ [][QueryNext]_queryVars

-----------------------------------------------------------------------------
(* The answer, which the operators above the scan make of what it found:   *)
(* the filters, pulled up from the scan, then the top k after the offset.  *)

Passes(r, p) ==
    LET v == IF p.col = "label" THEN label[r] ELSE r
    IN  v # Null /\ CASE p.op = "=" -> v = p.v
                      [] p.op = ">" -> v > p.v
                      [] p.op = ">=" -> v >= p.v
                      [] p.op = "<" -> v < p.v
                      [] p.op = "<=" -> v <= p.v
                      [] p.op = "in" -> v \in p.v
PulledUp(q, r) == \A i \in 1..Len(q.where) : Passes(r, q.where[i])

Ordered(q, rows) ==
    Sorted(rows, [r \in rows |-> IF q.ascending THEN Exact(q.fn, r) ELSE -Exact(q.fn, r)])
TopN(q, rows) ==
    LET sorted == Ordered(q, rows)
    IN  SubSeq(sorted, q.offset + 1, Lesser(q.offset + q.k, Len(sorted)))
Kept(q, found) == {r \in found : PulledUp(q, r)}
Answer == TopN(query.q, Kept(query.q, query.found))

(* The answer by the definition of the query.                              *)
Wanted(q) == {r \in view : \A i \in 1..Len(q.where) : Passes(r, q.where[i])}

(* Why an index scan may leave out a row that is wanted: the index does    *)
(* not have it, or has it under a label it had at CREATE INDEX or, from a  *)
(* live insert, under none; candidates as many as the limit are closer by  *)
(* their codes; or an invisible batch of candidates ended the scan.        *)
IndexLabel(r) == {core.label[n] : n \in {n \in DOMAIN core.label : RowOf(core, n) = r}}
Excused(r) ==
    \/ ~InIndex(r)
    \/ Active(query.filter) /\ IndexLabel(r) # {label[r]}
    \/ /\ Len(query.hits) = query.limit
       /\ \A i \in DOMAIN query.hits : Lut(0, code[query.hits[i]]) <= Lut(0, code[r])
    \/ query.cut

\* A query that is answered through the index, whichever rewrite matched and
\* whatever was committed while it ran, answers with rows that satisfy it, and
\* leaves out a row the table's scan would consider only for one of the reasons
\* above: no other shape, order, predicate, function or label bound loses one.
AnswerIsExplained ==
    query.at = "done" =>
        LET kept == Kept(query.q, query.found)
        IN  /\ kept \subseteq Wanted(query.q)
            /\ query.plan = "index" => \A r \in Wanted(query.q) \ kept : Excused(r)
            /\ query.plan = "table" => Answer = TopN(query.q, Wanted(query.q))

\* With nothing else going on - every row of the view indexed, codes in the order
\* of the distances, no filter and no offset - the answer's distances, first to
\* last, are those of the exact answer (rows at the same distance are alike).
QuietAnswerIsExact ==
    /\ query.at = "done" /\ events = 0 /\ query.q.offset = 0
    /\ view \subseteq ToSet(core.rows)
    /\ \A r, s \in view :
          Exact(query.q.fn, r) < Exact(query.q.fn, s) => Lut(0, code[r]) < Lut(0, code[s])
    /\ query.q.where = <<>> \/ query.plan = "table"
    => LET exact == TopN(query.q, Wanted(query.q))
       IN  /\ Len(Answer) = Len(exact)
           /\ \A i \in 1..Len(exact) : Exact(query.q.fn, Answer[i]) = Exact(query.q.fn, exact[i])

\* The join pairs every row of the other side with its own nearest rows by their
\* codes, nearest first and numbered from 1, however its input is cut in batches -
\* as long as the transaction sees every hit: Fetch leaves out those it does
\* not, and the chunk's other columns do not move up.
JoinPairs ==
    query.at = "joined" /\ ~query.dropped =>
        \A o \in 1..Outers :
            LET mine == Filtered(query.out, {t \in ToSet(query.out) : t[2] = o})
            IN  /\ Len(mine) <= query.q.k
                /\ Len(mine) >= Lesser(query.q.k, Cardinality({r \in view : InIndex(r)}))
                /\ \A i \in 1..Len(mine) : mine[i][1] \in view /\ mine[i][3] = i
                /\ \A r \in view, i \in 1..Len(mine) :
                      InIndex(r) /\ (\A j \in 1..i : mine[j][1] # r) =>
                          Lut(o, code[mine[i][1]]) <= Lut(o, code[r])
=============================================================================
