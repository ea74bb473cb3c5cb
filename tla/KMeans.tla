------------------------------- MODULE KMeans -------------------------------
(***************************************************************************)
(* KMeansPlusPlus on vectors of one dimension: seeding, Lloyd's rounds,    *)
(* and the empty cells filled again.  Vectors are integers; a caller picks *)
(* them so that the means are integers too.                                *)
(***************************************************************************)
EXTENDS Integers, Sequences, FiniteSets, FiniteSetsExt

CONSTANTS NList,        \* params_.nlist
          KMeansIters   \* params_.kmeans_iters

ASSUME KMeansAssumption == NList \in Nat \ {0} /\ KMeansIters \in Nat

Cells == 1..NList

L2sq(v, w) == (v - w) * (v - w)

(* The nearest centroid, the first of equals.                              *)
NearestCell(v, centroids) ==
    CHOOSE c \in Cells :
        /\ \A e \in Cells : L2sq(v, centroids[c]) <= L2sq(v, centroids[e])
        /\ \A e \in 1 .. c - 1 : L2sq(v, centroids[c]) < L2sq(v, centroids[e])

(* KMeansPlusPlusSeed: the samples that may be drawn after the seeds so    *)
(* far.  The weight is the distance to the nearest seed; a draw of 0 takes *)
(* the first sample and rounding may leave the last.                       *)
Drawn(data, seeds) ==
    LET Weight(i) == Min({L2sq(data[i], seeds[c]) : c \in 1..Len(seeds)})
        n == Len(data)
    IN  IF seeds = <<>> \/ \A i \in 1..n : Weight(i) = 0 THEN 1..n
        ELSE {i \in 1..n : Weight(i) > 0} \cup {1, n}

Seedings(data) ==
    LET s[k \in 0..NList] ==
          IF k = 0 THEN {<<>>}
          ELSE UNION {{Append(p, data[i]) : i \in Drawn(data, p)} : p \in s[k - 1]}
    IN  s[NList]

(* Fewer samples than cells are repeated.                                  *)
Seeds(data) ==
    IF Len(data) < NList
    THEN {[c \in Cells |-> data[((c - 1) % Len(data)) + 1]]}
    ELSE Seedings(data)

Mean(data, S) ==
    LET sum[i \in 0..Len(data)] ==
          IF i = 0 THEN 0 ELSE sum[i - 1] + IF i \in S THEN data[i] ELSE 0
    IN  sum[Len(data)] \div Cardinality(S)

(* The first of the samples farthest from their centroids.                 *)
Farthest(data, assign, centroids) ==
    LET D(i) == L2sq(data[i], centroids[assign[i]])
    IN  CHOOSE i \in 1..Len(data) :
            /\ \A j \in 1..Len(data) : D(j) <= D(i)
            /\ \A j \in 1 .. i - 1 : D(j) < D(i)

(* Cell after cell becomes the mean of its samples; an empty one takes the *)
(* farthest sample, by the centroids as they stand by then.                *)
Recomputed(data, assign, centroids) ==
    LET r[c \in 0..NList] ==
          IF c = 0 THEN centroids
          ELSE LET mine == {i \in 1..Len(data) : assign[i] = c} IN
               [r[c - 1] EXCEPT ![c] =
                  IF mine # {} THEN Mean(data, mine)
                  ELSE data[Farthest(data, assign, r[c - 1])]]
    IN  r[NList]

(* Rounds of assigning and recomputing, until less than 1% change cells.   *)
Lloyd(data, seeds) ==
    LET n == Len(data)
        round[k \in 0..KMeansIters] ==
          IF k = 0
          THEN [centroids |-> seeds, assign |-> [i \in 1..n |-> 1], done |-> FALSE]
          ELSE LET last    == round[k - 1]
                   assign  == [i \in 1..n |-> NearestCell(data[i], last.centroids)]
                   changed == {i \in 1..n : assign[i] # last.assign[i]}
               IN IF last.done THEN last
                  ELSE [centroids |-> Recomputed(data, assign, last.centroids),
                        assign    |-> assign,
                        done      |-> k > 1 /\ Cardinality(changed) * 100 < n]
    IN  round[KMeansIters].centroids

(* The centroids training may end with; with no samples they are zero.     *)
KMeansPlusPlus(data) ==
    IF data = <<>> THEN {[c \in Cells |-> 0]}
    ELSE {Lloyd(data, s) : s \in Seeds(data)}
=============================================================================
