---------------------------- MODULE LabelSearch ----------------------------
(***************************************************************************)
(* Label-filtered search in AiSAQ: the label filter the optimizer makes of *)
(* a WHERE clause, the maps from labels to nodes a build leaves, the entry *)
(* points, and the beam search that starts at them (AiSaqCore::Search).    *)
(* A code is a number and a query a table of distances to codes, Lut.      *)
(***************************************************************************)
EXTENDS Integers, Sequences, FiniteSets, FiniteSetsExt, SequencesExt

CONSTANTS
    MinLabel, MaxLabel,   \* INT64_MIN and INT64_MAX
    Lut(_, _),            \* the distance of a query to a code
    EntryPoints           \* params_.n_entry_points

ASSUME LabelAssumption ==
    MinLabel \in Int /\ MaxLabel \in Int /\ MinLabel < MaxLabel /\ EntryPoints \in Nat \ {0}

Lesser(a, b) == IF a <= b THEN a ELSE b
Greater(a, b) == IF a >= b THEN a ELSE b

(* std::sort of the members of a set by a number each has; the order of    *)
(* members with equal numbers is some order.                               *)
Sorted(S, key) ==
    CHOOSE s \in SetToSeqs(S) : \A i, j \in 1..Len(s) : i < j => key[s[i]] <= key[s[j]]
InOrder(S) == Sorted(S, [n \in S |-> n])

(* A loop that passes over all but some members of a list.                 *)
Filtered(list, wanted) ==
    LET at == InOrder({i \in 1..Len(list) : list[i] \in wanted})
    IN  [j \in 1..Len(at) |-> list[at[j]]]

-----------------------------------------------------------------------------
(* LabelFilter.                                                            *)

NoFilter == [kind |-> "none"]
Equals(v) == [kind |-> "equals", value |-> v]
Between(lo, hi) == [kind |-> "range", lo |-> lo, hi |-> hi]
Active(f) == f.kind # "none"
Matches(f, v) ==
    CASE f.kind = "none" -> TRUE
      [] f.kind = "equals" -> v = f.value
      [] f.kind = "range" -> v \in f.lo .. f.hi

(* One comparison with a constant; any other predicate is no filter.       *)
ConstantFilterToLabel_Strict(p) ==
    CASE p.op = "=" -> Equals(p.v)
      [] p.op \in {">", ">="} -> Between(IF p.v = MaxLabel THEN MaxLabel ELSE p.v + 1, MaxLabel)
      [] p.op \in {"<", "<="} -> Between(MinLabel, IF p.v = MinLabel THEN MinLabel ELSE p.v - 1)
      [] OTHER -> NoFilter
ConstantFilterToLabel(p) ==
    CASE p.op = "=" -> Equals(p.v)
      [] p.op = ">" -> Between(IF p.v = MaxLabel THEN MaxLabel ELSE p.v + 1, MaxLabel)
      [] p.op = ">=" -> Between(p.v, MaxLabel)
      [] p.op = "<" -> Between(MinLabel, IF p.v = MinLabel THEN MinLabel ELSE p.v - 1)
      [] p.op = "<=" -> Between(MinLabel, p.v)
      [] OTHER -> NoFilter

(* The intersection; the first equality stands for all if it satisfies     *)
(* them, and what nothing can satisfy is no filter at all.                 *)
FoldLabelFilters(partials) ==
    LET n == Len(partials)
        equal == {i \in 1..n : partials[i].kind = "equals"}
        first == partials[Min(equal)]
        lo == Max({MinLabel} \cup {partials[i].lo : i \in (1..n) \ equal})
        hi == Min({MaxLabel} \cup {partials[i].hi : i \in (1..n) \ equal})
    IN  IF n = 1 THEN partials[1]
        ELSE IF equal # {}
             THEN IF \A i \in (1..n) \ {Min(equal)} : Matches(partials[i], first.value) THEN first ELSE NoFilter
             ELSE IF lo > hi THEN NoFilter ELSE Between(lo, hi)

(* CollectLabelPartials and TryExtractLabelFilter: the predicates a WHERE  *)
(* clause has on the label column.                                         *)
TryExtractLabelFilter(labelled, where) ==
    LET usable == Filtered(where, {p \in ToSet(where) :
                                     p.col = "label" /\ Active(ConstantFilterToLabel(p))})
        partials == [i \in 1..Len(usable) |-> ConstantFilterToLabel(usable[i])]
    IN  IF labelled /\ partials # <<>> THEN FoldLabelFilters(partials) ELSE NoFilter

-----------------------------------------------------------------------------
(* What a build leaves: nodes are 0 .. size - 1, each with its row, code   *)
(* and neighbours; a node whose label is MinLabel has none.                *)

Nodes(core) == 0 .. Len(core.rows) - 1
RowOf(core, n) == core.rows[n + 1]
CodeOf(core, n) == core.codes[n + 1]
Labels(core) == {core.label[n] : n \in DOMAIN core.label}
Members(core, l) == {n \in DOMAIN core.label : core.label[n] = l}

(* ComputeEntryPoints: evenly spaced nodes.                                *)
ComputeEntryPoints(size) ==
    LET want == Lesser(EntryPoints, size)
    IN  [i \in 1..want |-> ((i - 1) * size) \div want]

(* ComputeLabelMedoids: the member whose code is the closest to the mean.  *)
Total(list) ==
    LET upTo[i \in 0..Len(list)] == IF i = 0 THEN 0 ELSE upTo[i - 1] + list[i]
    IN  upTo[Len(list)]
ComputeLabelMedoids(core) ==
    [l \in Labels(core) |->
        LET mine == Members(core, l)
            nodes == InOrder(mine)
            sum == Total([i \in 1..Len(nodes) |-> CodeOf(core, nodes[i])])
            Off(n) == Cardinality(mine) * CodeOf(core, n) - sum
        IN  CHOOSE n \in mine : \A other \in mine : Off(n) * Off(n) <= Off(other) * Off(other)]

CountLabelsInRange(core, lo, hi) == Cardinality(Labels(core) \cap lo..hi)
GetMedoidsInRange(core, lo, hi, count) ==
    LET found == {l \in Labels(core) \cap lo..hi : l \in DOMAIN core.medoids}
        sorted == InOrder(found)
    IN  [i \in 1 .. Lesser(count, Len(sorted)) |-> core.medoids[sorted[i]]]

-----------------------------------------------------------------------------
(* BeamSearch.                                                             *)

DistanceToCode(core, q, n) == Lut(q, CodeOf(core, n))
Farthest(core, q, S) == CHOOSE n \in S : \A m \in S : DistanceToCode(core, q, n) >= DistanceToCode(core, q, m)
Nearest(core, q, S) == CHOOSE n \in S : \A m \in S : DistanceToCode(core, q, n) <= DistanceToCode(core, q, m)
Pushed(core, q, w, n, L) ==
    IF Cardinality(w) < L THEN w \cup {n} ELSE (w \cup {n}) \ {Farthest(core, q, w \cup {n})}

PickEntryPoint(core, q) ==
    IF core.entries = <<>> THEN 0 ELSE Nearest(core, q, {core.entries[i] : i \in DOMAIN core.entries})

Seed(core, q, L, b, n) ==
    IF n \in b.seen THEN b
    ELSE [seen |-> b.seen \cup {n}, io |-> b.io + 1,
          frontier |-> b.frontier \cup {n}, w |-> Pushed(core, q, b.w, n, L)]
Seeded(core, q, eps, L) ==
    LET after[i \in 0..Len(eps)] ==
          IF i = 0 THEN [seen |-> {}, io |-> 0, frontier |-> {}, w |-> {}]
          ELSE Seed(core, q, L, after[i - 1], eps[i])
    IN  after[Len(eps)]

(* A label that fails the filter hides a neighbour; no label hides none.   *)
Hidden(core, filter, n) == n \in DOMAIN core.label /\ ~Matches(filter, core.label[n])
Visit(core, q, L, io, filter, b, n) ==
    LET marked == [b EXCEPT !.seen = @ \cup {n}]
    IN  IF n \in b.seen THEN b
        ELSE IF Hidden(core, filter, n) \/ (io > 0 /\ b.io >= io) THEN marked
        ELSE IF Cardinality(b.w) >= L /\ DistanceToCode(core, q, n) >=
                                         DistanceToCode(core, q, Farthest(core, q, b.w))
        THEN [marked EXCEPT !.io = @ + 1]
        ELSE [marked EXCEPT !.io = @ + 1, !.frontier = @ \cup {n}, !.w = Pushed(core, q, @, n, L)]

VisitAll(core, q, L, io, filter, b, list) ==
    LET after[i \in 0..Len(list)] ==
          IF i = 0 THEN b ELSE Visit(core, q, L, io, filter, after[i - 1], list[i])
    IN  after[Len(list)]
Expand(core, q, L, io, filter, b) ==
    LET best == Nearest(core, q, b.frontier)
    IN  IF \/ b.frontier = {}
           \/ /\ Cardinality(b.w) >= L
              /\ DistanceToCode(core, q, best) > DistanceToCode(core, q, Farthest(core, q, b.w))
        THEN b
        ELSE VisitAll(core, q, L, io, filter, [b EXCEPT !.frontier = @ \ {best}],
                      core.nbrs[best + 1])

(* A node enters the frontier once, so the loop has ended after as many    *)
(* rounds as there are nodes; a round after its end changes nothing.       *)
Beam(core, q, L, io, filter, b) ==
    LET after[round \in 0..Len(core.rows)] ==
          IF round = 0 THEN b ELSE Expand(core, q, L, io, filter, after[round - 1])
    IN  after[Len(core.rows)].w

BeamSearch(core, q, L, io, forced, filter) ==
    LET eps == IF forced # <<>> THEN forced ELSE <<PickEntryPoint(core, q)>>
    IN  Beam(core, q, L, io, filter, Seeded(core, q, eps, L))

(* Search: the nodes to start at, by the kind of the filter.               *)
StartsAt(core, f) ==
    IF f.kind = "equals" THEN <<core.medoids[f.value]>>
    ELSE IF f.kind = "range" /\ CountLabelsInRange(core, f.lo, f.hi) \in 1..EntryPoints
    THEN GetMedoidsInRange(core, f.lo, f.hi, EntryPoints)
    ELSE <<>>

ByDistance(core, q, S) == Sorted(S, [n \in S |-> DistanceToCode(core, q, n)])
TopRows(core, k, nodes) == [i \in 1 .. Lesser(k, Len(nodes)) |-> RowOf(core, nodes[i])]

Search(core, q, k, L, io, f) ==
    IF Nodes(core) = {} \/ k = 0 \/ (f.kind = "equals" /\ f.value \notin DOMAIN core.medoids)
    THEN <<>>
    ELSE TopRows(core, k, ByDistance(core, q,
                BeamSearch(core, q, Greater(L, k), io, StartsAt(core, f), f)))
=============================================================================
