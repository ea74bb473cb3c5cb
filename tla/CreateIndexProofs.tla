-------------------------- MODULE CreateIndexProofs -------------------------
(***************************************************************************)
(* Theorems about CreateIndex, for every table, number of threads and      *)
(* tasks, lists, rounds and samples: no row is lost on its way into the    *)
(* index or stored twice, SPANN stores a vector in the cell IVF would, a   *)
(* search for a stored vector meets it, no answer has a row twice, and a   *)
(* scan of every list returns the nearest rows there are.                  *)
(***************************************************************************)
EXTENDS CreateIndex, FiniteSetTheorems, WellFoundedInduction, TLAPS

-----------------------------------------------------------------------------
(* Functions defined by recursion.                                         *)

LEMMA LeastNumber ==
    ASSUME NEW T \in SUBSET Nat, T # {}
    PROVE  \E n \in T : \A m \in T : n <= m
<1> DEFINE Less == {p \in Nat \X Nat : p[1] < p[2]}
<1>1. Less = OpToRel(<, Nat) BY DEF OpToRel
<1>2. IsWellFoundedOn(Less, Nat) BY <1>1, NatLessThanWellFounded
<1> HIDE DEF Less
<1>3. PICK n \in T : \A m \in T : <<m, n>> \notin Less BY <1>2, WFMin
<1>4. \A m \in T : ~(m < n) BY <1>3 DEF Less
<1> QED BY <1>4

(* Induction up to n, over a set.                                          *)
LEMMA UpTo ==
    ASSUME NEW n \in Nat, NEW G, 0 \in G,
           \A k \in 1 .. n : k - 1 \in G => k \in G
    PROVE  \A k \in 0 .. n : k \in G
<1> DEFINE T == {k \in 0 .. n : k \notin G}
<1>1. SUFFICES ASSUME T # {} PROVE FALSE OBVIOUS
<1>2. PICK k \in T : \A m \in T : k <= m
  <2>1. T \in SUBSET Nat OBVIOUS
  <2> HIDE DEF T
  <2> QED BY <1>1, <2>1, LeastNumber
<1>3. k \in 1 .. n /\ k \notin G OBVIOUS
<1>4. k - 1 \in 0 .. n /\ ~(k <= k - 1) BY <1>3
<1>5. k - 1 \in G BY <1>2, <1>4
<1> QED BY <1>3, <1>5

(* A function on 0 .. n whose value at k comes from its value at k - 1.    *)
Recurs(f, n, base, Step) ==
    f = [k \in 0 .. n |-> IF k = 0 THEN base ELSE Step[k][f[k - 1]]]

LEMMA Recursion ==
    ASSUME NEW n \in Nat, NEW D, NEW base \in D, NEW Step \in [1 .. n -> [D -> D]]
    PROVE  \E f \in [0 .. n -> D] : Recurs(f, n, base, Step)
<1> DEFINE IsPart(g, m) == /\ g \in [0 .. m -> D] /\ g[0] = base
                           /\ \A k \in 1 .. m : g[k] = Step[k][g[k - 1]]
           G == {m \in 0 .. n : \E g : IsPart(g, m)}
<1>1. 0 \in G
  <2> DEFINE g == [k \in 0 .. 0 |-> base]
  <2>1. IsPart(g, 0) OBVIOUS
  <2> HIDE DEF g, IsPart
  <2> QED BY <2>1
<1>2. ASSUME NEW m \in 1 .. n, m - 1 \in G PROVE m \in G
  <2>1. PICK g : IsPart(g, m - 1) BY <1>2
  <2>2. /\ g \in [0 .. m - 1 -> D] /\ g[0] = base
        /\ \A k \in 1 .. m - 1 : g[k] = Step[k][g[k - 1]]
    BY <2>1
  <2> DEFINE last == Step[m][g[m - 1]]
             h == [k \in 0 .. m |-> IF k = m THEN last ELSE g[k]]
  <2>3. last \in D
    <3>1. m - 1 \in 0 .. m - 1 OBVIOUS
    <3>2. g[m - 1] \in D BY <2>2, <3>1
    <3>3. Step[m] \in [D -> D] OBVIOUS
    <3> QED BY <3>2, <3>3
  <2> HIDE DEF last
  <2>4. \A k \in 0 .. m - 1 : h[k] = g[k] OBVIOUS
  <2>5. h[m] = last OBVIOUS
  <2>6. h \in [0 .. m -> D]
    <3>1. \A k \in 0 .. m : k = m \/ k \in 0 .. m - 1 OBVIOUS
    <3>2. \A k \in 0 .. m : (IF k = m THEN last ELSE g[k]) \in D BY <2>2, <2>3, <3>1
    <3> QED BY <3>2
  <2> HIDE DEF h
  <2>7. h[0] = base
    <3>1. 0 \in 0 .. m - 1 OBVIOUS
    <3> QED BY <2>2, <2>4, <3>1
  <2>8. ASSUME NEW k \in 1 .. m PROVE h[k] = Step[k][h[k - 1]]
    <3>1. k - 1 \in 0 .. m - 1 OBVIOUS
    <3>2. h[k - 1] = g[k - 1] BY <2>4, <3>1
    <3>3. CASE k = m BY <2>5, <3>2, <3>3 DEF last
    <3>4. CASE k # m
      <4>1. k \in 0 .. m - 1 /\ k \in 1 .. m - 1 BY <3>4
      <4> QED BY <2>2, <2>4, <3>2, <4>1
    <3> QED BY <3>3, <3>4
  <2>9. IsPart(h, m) BY <2>6, <2>7, <2>8
  <2> HIDE DEF IsPart
  <2>10. m \in 0 .. n OBVIOUS
  <2> QED BY <2>9, <2>10
<1> HIDE DEF G
<1>3. n \in G
  <2>1. \A k \in 0 .. n : k \in G BY <1>1, <1>2, UpTo
  <2> QED BY <2>1
<1>4. PICK f : IsPart(f, n) BY <1>3 DEF G
<1>5. /\ f \in [0 .. n -> D] /\ f[0] = base
      /\ \A k \in 1 .. n : f[k] = Step[k][f[k - 1]]
  BY <1>4
<1> DEFINE g == [k \in 0 .. n |-> IF k = 0 THEN base ELSE Step[k][f[k - 1]]]
<1>6. \A k \in 0 .. n : g[k] = f[k]
  <2> TAKE k \in 0 .. n
  <2>1. CASE k = 0 BY <1>5, <2>1
  <2>2. CASE k # 0
    <3>1. k \in 1 .. n BY <2>2
    <3> QED BY <1>5, <2>2, <3>1
  <2> QED BY <2>1, <2>2
<1>7. f = g
  <2>1. f = [k \in 0 .. n |-> f[k]] /\ g = [k \in 0 .. n |-> g[k]] BY <1>5
  <2> HIDE DEF g
  <2> QED BY <1>6, <2>1
<1> QED BY <1>5, <1>7 DEF Recurs

(* The first of the least values.                                          *)
LEMMA FirstLeast ==
    ASSUME NEW n \in Nat \ {0}, NEW f \in [1 .. n -> Int]
    PROVE  \E c \in 1 .. n : /\ \A e \in 1 .. n : f[c] <= f[e]
                             /\ \A e \in 1 .. c - 1 : f[c] < f[e]
<1> DEFINE First(c, m) == /\ c \in 1 .. m
                          /\ \A e \in 1 .. m : f[c] <= f[e]
                          /\ \A e \in 1 .. c - 1 : f[c] < f[e]
           G == {m \in 0 .. n : m = 0 \/ \E c : First(c, m)}
<1>1. 0 \in G OBVIOUS
<1>2. ASSUME NEW m \in 1 .. n, m - 1 \in G PROVE m \in G
  <2>1. CASE m = 1
    <3>1. First(1, m) BY <2>1
    <3> HIDE DEF First
    <3> QED BY <3>1
  <2>2. CASE m # 1
    <3>1. PICK c : First(c, m - 1) BY <1>2, <2>2
    <3>2. /\ c \in 1 .. m - 1 /\ \A e \in 1 .. m - 1 : f[c] <= f[e]
          /\ \A e \in 1 .. c - 1 : f[c] < f[e]
      BY <3>1
    <3>3. \A e \in 1 .. m : e = m \/ e \in 1 .. m - 1 OBVIOUS
    <3>4. c \in 1 .. m /\ c \in 1 .. n /\ m \in 1 .. n BY <3>2
    <3>5. f[m] \in Int /\ f[c] \in Int BY <3>4
    <3>6. \A e \in 1 .. m - 1 : f[e] \in Int
      <4>1. \A e \in 1 .. m - 1 : e \in 1 .. n OBVIOUS
      <4> QED BY <4>1
    <3>7. CASE f[m] < f[c]
      <4>1. First(m, m) BY <3>2, <3>3, <3>5, <3>6, <3>7
      <4> HIDE DEF First
      <4> QED BY <4>1
    <3>8. CASE ~(f[m] < f[c])
      <4>1. First(c, m) BY <3>2, <3>3, <3>4, <3>5, <3>8
      <4> HIDE DEF First
      <4> QED BY <4>1
    <3> QED BY <3>7, <3>8
  <2> QED BY <2>1, <2>2
<1> HIDE DEF G
<1>3. n \in G
  <2>1. \A k \in 0 .. n : k \in G BY <1>1, <1>2, UpTo
  <2> QED BY <2>1
<1>4. PICK c : First(c, n) BY <1>3 DEF G
<1> QED BY <1>4

-----------------------------------------------------------------------------
(* Training ends with integers.                                            *)

LEMMA Square == ASSUME NEW v \in Int, NEW w \in Int PROVE L2sq(v, w) \in Nat
<1> DEFINE x == v - w
<1>1. x \in Int OBVIOUS
<1> HIDE DEF x
<1>2. CASE x >= 0 
  <2>1. x * x >= 0 BY <1>1, <1>2
  <2>2. x * x \in Int BY <1>1
  <2> QED BY <2>1, <2>2 DEF L2sq, x
<1>3. CASE x < 0
  <2> DEFINE y == -x
  <2>1. y \in Nat /\ x = -y BY <1>1, <1>3
  <2> HIDE DEF y
  <2>2. x * x = y * y /\ y * y >= 0 /\ y * y \in Int BY <2>1
  <2> QED BY <2>2 DEF L2sq, x
<1> QED BY <1>1, <1>2, <1>3

(* What a cell is for a vector: the nearest, the first of equals.          *)
IsNearestCell(c, v, centers) ==
    /\ c \in Cells
    /\ \A e \in Cells : L2sq(v, centers[c]) <= L2sq(v, centers[e])
    /\ \A e \in 1 .. c - 1 : L2sq(v, centers[c]) < L2sq(v, centers[e])

LEMMA NearestCellFacts ==
    ASSUME NEW v \in Int, NEW centers \in [Cells -> Int]
    PROVE  IsNearestCell(NearestCell(v, centers), v, centers)
<1> DEFINE f == [c \in 1 .. NList |-> L2sq(v, centers[c])]
<1>1. \A c \in 1 .. NList : L2sq(v, centers[c]) \in Int
  <2> TAKE c \in 1 .. NList
  <2>1. centers[c] \in Int BY DEF Cells
  <2>2. L2sq(v, centers[c]) \in Nat BY <2>1, Square
  <2> QED BY <2>2
<1>2. f \in [1 .. NList -> Int] BY <1>1
<1>3. \A c \in 1 .. NList : f[c] = L2sq(v, centers[c]) OBVIOUS
<1> HIDE DEF f
<1>4. NList \in Nat \ {0} BY KMeansAssumption
<1>5. PICK c \in 1 .. NList : /\ \A e \in 1 .. NList : f[c] <= f[e]
                              /\ \A e \in 1 .. c - 1 : f[c] < f[e]
  BY <1>2, <1>4, FirstLeast
<1>6. \A e \in 1 .. c - 1 : e \in 1 .. NList BY <1>4
<1>7. IsNearestCell(c, v, centers) BY <1>3, <1>5, <1>6 DEF IsNearestCell, Cells
<1>8. \E d \in Cells :
        /\ \A e \in Cells : L2sq(v, centers[d]) <= L2sq(v, centers[e])
        /\ \A e \in 1 .. d - 1 : L2sq(v, centers[d]) < L2sq(v, centers[e])
  BY <1>7 DEF IsNearestCell
<1> QED BY <1>8 DEF NearestCell, IsNearestCell

LEMMA MeanTyped ==
    ASSUME NEW data \in Seq(Int), NEW S \in SUBSET (1 .. Len(data)), S # {}
    PROVE  Mean(data, S) \in Int
<1> DEFINE n == Len(data)
           Body(k, x) == x + IF k \in S THEN data[k] ELSE 0
           Step == [k \in 1 .. n |-> [x \in Int |-> Body(k, x)]]
           sum == CHOOSE f : f = [k \in 0 .. n |-> IF k = 0 THEN 0 ELSE Body(k, f[k - 1])]
<1>0. n \in Nat OBVIOUS
<1>1. \A k \in 1 .. n, x \in Int : Body(k, x) \in Int
  <2>1. \A k \in 1 .. n : data[k] \in Int OBVIOUS
  <2> QED BY <2>1
<1> HIDE DEF n, Body
<1>2. Step \in [1 .. n -> [Int -> Int]] BY <1>1
<1>3. \A k \in 1 .. n, x \in Int : Step[k][x] = Body(k, x) OBVIOUS
<1> HIDE DEF Step
<1>4. PICK f \in [0 .. n -> Int] : Recurs(f, n, 0, Step)
  <2>1. 0 \in Int OBVIOUS
  <2> QED BY <1>0, <1>2, <2>1, Recursion
<1>5. f = [k \in 0 .. n |-> IF k = 0 THEN 0 ELSE Body(k, f[k - 1])]
  <2>1. \A k \in 0 .. n : (IF k = 0 THEN 0 ELSE Step[k][f[k - 1]])
                            = (IF k = 0 THEN 0 ELSE Body(k, f[k - 1]))
    <3> TAKE k \in 0 .. n
    <3>1. CASE k # 0
      <4>1. k \in 1 .. n /\ k - 1 \in 0 .. n BY <1>0, <3>1
      <4>2. f[k - 1] \in Int BY <1>4, <4>1
      <4> QED BY <1>3, <3>1, <4>1, <4>2
    <3> QED BY <3>1
  <2>2. [k \in 0 .. n |-> IF k = 0 THEN 0 ELSE Step[k][f[k - 1]]]
          = [k \in 0 .. n |-> IF k = 0 THEN 0 ELSE Body(k, f[k - 1])]
    BY <2>1
  <2> QED BY <1>4, <2>2 DEF Recurs
<1>6. sum = [k \in 0 .. n |-> IF k = 0 THEN 0 ELSE Body(k, sum[k - 1])] BY <1>5
<1>7. Mean(data, S) = sum[n] \div Cardinality(S) BY DEF Mean, sum, Body, n
<1> HIDE DEF sum
<1>8. sum[n] \in Int
  <2> DEFINE G == {k \in 0 .. n : sum[k] \in Int}
  <2>1. 0 \in G
    <3>1. 0 \in 0 .. n /\ sum[0] = 0 BY <1>0, <1>6
    <3> QED BY <3>1
  <2>2. ASSUME NEW k \in 1 .. n, k - 1 \in G PROVE k \in G
    <3>1. k \in 0 .. n /\ k # 0 BY <1>0
    <3>2. sum[k] = Body(k, sum[k - 1]) BY <1>6, <3>1
    <3>3. sum[k - 1] \in Int BY <2>2
    <3> QED BY <1>1, <3>1, <3>2, <3>3
  <2> HIDE DEF G
  <2>3. \A k \in 0 .. n : k \in G BY <1>0, <2>1, <2>2, UpTo
  <2>4. n \in 0 .. n BY <1>0
  <2> QED BY <2>3, <2>4 DEF G
<1>9. Cardinality(S) \in Nat \ {0}
  <2>1. IsFiniteSet(1 .. n)
    <3>1. 1 \in Int /\ n \in Int BY <1>0
    <3> QED BY <3>1, FS_Interval
  <2>2. IsFiniteSet(S)
    <3>1. S \in SUBSET (1 .. n) BY DEF n
    <3> QED BY <2>1, <3>1, FS_Subset
  <2> QED BY <2>2, FS_CardinalityType, FS_EmptySet
<1>10. sum[n] \div Cardinality(S) \in Int
  <2> DEFINE c == Cardinality(S)
             d == sum[n]
  <2>1. c \in Nat \ {0} /\ d \in Int BY <1>8, <1>9
  <2> HIDE DEF c, d
  <2>2. d \div c \in Int BY <2>1
  <2> QED BY <2>2 DEF c, d
<1> QED BY <1>7, <1>10

LEMMA FarthestTyped ==
    ASSUME NEW data \in Seq(Int), data # <<>>, NEW assign \in [1 .. Len(data) -> Cells],
           NEW centers \in [Cells -> Int]
    PROVE  Farthest(data, assign, centers) \in 1 .. Len(data)
<1> DEFINE n == Len(data)
           D(i) == L2sq(data[i], centers[assign[i]])
           f == [i \in 1 .. n |-> -D(i)]
<1>1. n \in Nat \ {0} OBVIOUS
<1>2. \A i \in 1 .. n : D(i) \in Int
  <2> TAKE i \in 1 .. n
  <2>1. data[i] \in Int /\ assign[i] \in Cells OBVIOUS
  <2>2. centers[assign[i]] \in Int BY <2>1
  <2>3. L2sq(data[i], centers[assign[i]]) \in Nat BY <2>1, <2>2, Square
  <2> QED BY <2>3
<1> HIDE DEF n, D
<1>3. f \in [1 .. n -> Int] /\ \A i \in 1 .. n : f[i] = -D(i) BY <1>2
<1> HIDE DEF f
<1>4. PICK c \in 1 .. n : /\ \A e \in 1 .. n : f[c] <= f[e]
                          /\ \A e \in 1 .. c - 1 : f[c] < f[e]
  BY <1>1, <1>3, FirstLeast
<1>5. \A j \in 1 .. c - 1 : j \in 1 .. n BY <1>1
<1>6. \A j \in 1 .. n : D(j) <= D(c)
  <2> TAKE j \in 1 .. n
  <2>1. f[c] <= f[j] /\ f[c] = -D(c) /\ f[j] = -D(j) BY <1>3, <1>4
  <2>2. D(c) \in Int /\ D(j) \in Int BY <1>2
  <2> QED BY <2>1, <2>2
<1>7. \A j \in 1 .. c - 1 : D(j) < D(c)
  <2> TAKE j \in 1 .. c - 1
  <2>1. f[c] < f[j] /\ f[c] = -D(c) /\ f[j] = -D(j) BY <1>3, <1>4, <1>5
  <2>2. D(c) \in Int /\ D(j) \in Int BY <1>2, <1>5
  <2> QED BY <2>1, <2>2
<1>8. \E i \in 1 .. n : /\ \A j \in 1 .. n : D(j) <= D(i)
                        /\ \A j \in 1 .. i - 1 : D(j) < D(i)
  BY <1>6, <1>7
<1>9. Farthest(data, assign, centers)
        = CHOOSE i \in 1 .. n : /\ \A j \in 1 .. n : D(j) <= D(i)
                                /\ \A j \in 1 .. i - 1 : D(j) < D(i)
  BY DEF Farthest, D, n
<1> QED BY <1>8, <1>9 DEF n

LEMMA RecomputedTyped ==
    ASSUME NEW data \in Seq(Int), data # <<>>, NEW assign \in [1 .. Len(data) -> Cells],
           NEW centers \in [Cells -> Int]
    PROVE  Recomputed(data, assign, centers) \in [Cells -> Int]
<1> DEFINE D == [Cells -> Int]
           Mine(c) == {i \in 1 .. Len(data) : assign[i] = c}
           Body(c, x) == [x EXCEPT ![c] = IF Mine(c) # {} THEN Mean(data, Mine(c))
                                          ELSE data[Farthest(data, assign, x)]]
           Step == [c \in 1 .. NList |-> [x \in D |-> Body(c, x)]]
           r == CHOOSE f : f = [c \in 0 .. NList |->
                                  IF c = 0 THEN centers ELSE Body(c, f[c - 1])]
<1>0. NList \in Nat BY KMeansAssumption
<1>1. ASSUME NEW c \in 1 .. NList, NEW x \in D PROVE Body(c, x) \in D
  <2>1. Mine(c) # {} => Mean(data, Mine(c)) \in Int
    <3>1. Mine(c) \in SUBSET (1 .. Len(data)) OBVIOUS
    <3> HIDE DEF Mine
    <3> QED BY <3>1, MeanTyped
  <2>2. data[Farthest(data, assign, x)] \in Int
    <3>1. Farthest(data, assign, x) \in 1 .. Len(data) BY FarthestTyped
    <3> QED BY <3>1
  <2> QED BY <2>1, <2>2 DEF Cells
<1> HIDE DEF D, Body
<1>2. Step \in [1 .. NList -> [D -> D]] BY <1>1
<1>3. \A c \in 1 .. NList, x \in D : Step[c][x] = Body(c, x) OBVIOUS
<1> HIDE DEF Step
<1>4. centers \in D BY DEF D
<1>5. PICK f \in [0 .. NList -> D] : Recurs(f, NList, centers, Step)
  BY <1>0, <1>2, <1>4, Recursion
<1>6. f = [c \in 0 .. NList |-> IF c = 0 THEN centers ELSE Body(c, f[c - 1])]
  <2>1. \A c \in 0 .. NList : (IF c = 0 THEN centers ELSE Step[c][f[c - 1]])
                                = (IF c = 0 THEN centers ELSE Body(c, f[c - 1]))
    <3> TAKE c \in 0 .. NList
    <3>1. CASE c # 0
      <4>1. c \in 1 .. NList /\ c - 1 \in 0 .. NList BY <1>0, <3>1
      <4>2. f[c - 1] \in D BY <1>5, <4>1
      <4> QED BY <1>3, <3>1, <4>1, <4>2
    <3> QED BY <3>1
  <2>2. [c \in 0 .. NList |-> IF c = 0 THEN centers ELSE Step[c][f[c - 1]]]
          = [c \in 0 .. NList |-> IF c = 0 THEN centers ELSE Body(c, f[c - 1])]
    BY <2>1
  <2> QED BY <1>5, <2>2 DEF Recurs
<1>7. r = [c \in 0 .. NList |-> IF c = 0 THEN centers ELSE Body(c, r[c - 1])] BY <1>6
<1>8. Recomputed(data, assign, centers) = r[NList] BY DEF Recomputed, r, Body, Mine
<1> HIDE DEF r
<1>9. r[NList] \in D
  <2> DEFINE G == {c \in 0 .. NList : r[c] \in D}
  <2>1. 0 \in G
    <3>1. 0 \in 0 .. NList /\ r[0] = centers BY <1>0, <1>7
    <3> QED BY <1>4, <3>1
  <2>2. ASSUME NEW c \in 1 .. NList, c - 1 \in G PROVE c \in G
    <3>1. c \in 0 .. NList /\ c # 0 BY <1>0
    <3>2. r[c] = Body(c, r[c - 1]) BY <1>7, <3>1
    <3>3. r[c - 1] \in D BY <2>2
    <3> QED BY <1>1, <3>1, <3>2, <3>3
  <2> HIDE DEF G
  <2>3. \A c \in 0 .. NList : c \in G BY <1>0, <2>1, <2>2, UpTo
  <2>4. NList \in 0 .. NList BY <1>0
  <2> QED BY <2>3, <2>4 DEF G
<1> QED BY <1>8, <1>9 DEF D

LEMMA LloydTyped ==
    ASSUME NEW data \in Seq(Int), data # <<>>, NEW seeds \in [Cells -> Int]
    PROVE  Lloyd(data, seeds) \in [Cells -> Int]
<1> DEFINE n == Len(data)
           m == KMeansIters
           D == [centroids : [Cells -> Int], assign : [1 .. n -> Cells], done : BOOLEAN]
           base == [centroids |-> seeds, assign |-> [i \in 1 .. n |-> 1], done |-> FALSE]
           Assign(x) == [i \in 1 .. n |-> NearestCell(data[i], x.centroids)]
           Done(k, x) == k > 1 /\ Cardinality({i \in 1 .. n : Assign(x)[i] # x.assign[i]}) * 100 < n
           Body(k, x) == IF x.done THEN x
                         ELSE [centroids |-> Recomputed(data, Assign(x), x.centroids),
                               assign |-> Assign(x), done |-> Done(k, x)]
           Step == [k \in 1 .. m |-> [x \in D |-> Body(k, x)]]
           round == CHOOSE f : f = [k \in 0 .. m |-> IF k = 0 THEN base ELSE Body(k, f[k - 1])]
<1>0. m \in Nat BY KMeansAssumption
<1>1. ASSUME NEW k \in 1 .. m, NEW x \in D PROVE Body(k, x) \in D
  <2>1. CASE x.done BY <2>1
  <2>2. CASE ~x.done
    <3>1. x.centroids \in [Cells -> Int] OBVIOUS
    <3>2. \A i \in 1 .. n : NearestCell(data[i], x.centroids) \in Cells
      <4> TAKE i \in 1 .. n
      <4>1. data[i] \in Int OBVIOUS
      <4> QED BY <3>1, <4>1, NearestCellFacts DEF IsNearestCell
    <3>3. Assign(x) \in [1 .. Len(data) -> Cells] BY <3>2
    <3> HIDE DEF Assign
    <3>4. Recomputed(data, Assign(x), x.centroids) \in [Cells -> Int]
      BY <3>1, <3>3, RecomputedTyped
    <3>5. Done(k, x) \in BOOLEAN OBVIOUS
    <3> HIDE DEF Done
    <3> QED BY <2>2, <3>3, <3>4, <3>5
  <2> QED BY <2>1, <2>2
<1>2. base \in D
  <2>1. 1 \in Cells BY KMeansAssumption DEF Cells
  <2> QED BY <2>1
<1> HIDE DEF D, Body, base
<1>3. Step \in [1 .. m -> [D -> D]] BY <1>1
<1>4. \A k \in 1 .. m, x \in D : Step[k][x] = Body(k, x) OBVIOUS
<1> HIDE DEF Step, m
<1>5. PICK f \in [0 .. m -> D] : Recurs(f, m, base, Step)
  BY <1>0, <1>2, <1>3, Recursion
<1>6. f = [k \in 0 .. m |-> IF k = 0 THEN base ELSE Body(k, f[k - 1])]
  <2>1. \A k \in 0 .. m : (IF k = 0 THEN base ELSE Step[k][f[k - 1]])
                            = (IF k = 0 THEN base ELSE Body(k, f[k - 1]))
    <3> TAKE k \in 0 .. m
    <3>1. CASE k # 0
      <4>1. k \in 1 .. m /\ k - 1 \in 0 .. m BY <1>0, <3>1
      <4>2. f[k - 1] \in D BY <1>5, <4>1
      <4> QED BY <1>4, <3>1, <4>1, <4>2
    <3> QED BY <3>1
  <2>2. [k \in 0 .. m |-> IF k = 0 THEN base ELSE Step[k][f[k - 1]]]
          = [k \in 0 .. m |-> IF k = 0 THEN base ELSE Body(k, f[k - 1])]
    BY <2>1
  <2> QED BY <1>5, <2>2 DEF Recurs
<1>7. round = [k \in 0 .. m |-> IF k = 0 THEN base ELSE Body(k, round[k - 1])] BY <1>6
<1>8. Lloyd(data, seeds) = round[m].centroids
  BY DEF Lloyd, round, Body, Done, Assign, base, m
<1> HIDE DEF round
<1>9. round[m] \in D
  <2> DEFINE G == {k \in 0 .. m : round[k] \in D}
  <2>1. 0 \in G
    <3>1. 0 \in 0 .. m /\ round[0] = base BY <1>0, <1>7
    <3> QED BY <1>2, <3>1
  <2>2. ASSUME NEW k \in 1 .. m, k - 1 \in G PROVE k \in G
    <3>1. k \in 0 .. m /\ k # 0 BY <1>0
    <3>2. round[k] = Body(k, round[k - 1]) BY <1>7, <3>1
    <3>3. round[k - 1] \in D BY <2>2
    <3> QED BY <1>1, <3>1, <3>2, <3>3
  <2> HIDE DEF G
  <2>3. \A k \in 0 .. m : k \in G BY <1>0, <2>1, <2>2, UpTo
  <2>4. m \in 0 .. m BY <1>0
  <2> QED BY <2>3, <2>4 DEF G
<1>10. round[m].centroids \in [Cells -> Int] BY <1>9 DEF D
<1> QED BY <1>8, <1>10

LEMMA SeedingsTyped ==
    ASSUME NEW data \in Seq(Int), data # <<>>, NEW p \in Seedings(data)
    PROVE  p \in [Cells -> Int]
<1> DEFINE D == SUBSET Seq(Int)
           Body(k, X) == UNION {{Append(q, data[i]) : i \in Drawn(data, q)} : q \in X}
           Step == [k \in 1 .. NList |-> [X \in D |-> Body(k, X)]]
           s == CHOOSE f : f = [k \in 0 .. NList |-> IF k = 0 THEN {<<>>} ELSE Body(k, f[k - 1])]
<1>0. NList \in Nat BY KMeansAssumption
<1>1. ASSUME NEW q, NEW i \in Drawn(data, q) PROVE data[i] \in Int
  <2>1. Len(data) \in Nat \ {0} OBVIOUS
  <2>2. Drawn(data, q) \subseteq 1 .. Len(data)
    <3>1. 1 \in 1 .. Len(data) /\ Len(data) \in 1 .. Len(data) BY <2>1
    <3> QED BY <3>1 DEF Drawn
  <2>3. i \in 1 .. Len(data) BY <2>2
  <2> QED BY <2>3
<1>2. ASSUME NEW k \in 1 .. NList, NEW X \in D, NEW q \in Body(k, X)
      PROVE  \E o \in X : q \in Seq(Int) /\ Len(q) = Len(o) + 1
  <2>1. PICK o \in X : \E i \in Drawn(data, o) : q = Append(o, data[i]) OBVIOUS
  <2>2. PICK i \in Drawn(data, o) : q = Append(o, data[i]) BY <2>1
  <2>3. o \in Seq(Int) /\ data[i] \in Int BY <1>1
  <2> QED BY <2>2, <2>3
<1>3. ASSUME NEW k \in 1 .. NList, NEW X \in D PROVE Body(k, X) \in D BY <1>2
<1>10. \A f : f = [k \in 0 .. NList |-> IF k = 0 THEN {<<>>} ELSE Body(k, f[k - 1])]
               => \A k \in 1 .. NList : f[k] = Body(k, f[k - 1])
  <2> SUFFICES ASSUME NEW f, f = [k \in 0 .. NList |-> IF k = 0 THEN {<<>>} ELSE Body(k, f[k - 1])],
                      NEW k \in 1 .. NList
               PROVE  f[k] = Body(k, f[k - 1])
    OBVIOUS
  <2> HIDE DEF Body
  <2>1. k \in 0 .. NList /\ k # 0 BY <1>0
  <2> QED BY <2>1
<1> HIDE DEF D, Body
<1>4. Step \in [1 .. NList -> [D -> D]] BY <1>3
<1>5. \A k \in 1 .. NList, X \in D : Step[k][X] = Body(k, X) OBVIOUS
<1> HIDE DEF Step
<1>6. {<<>>} \in D
  <2>1. <<>> \in Seq(Int) OBVIOUS
  <2> QED BY <2>1 DEF D
<1>7. PICK f \in [0 .. NList -> D] : Recurs(f, NList, {<<>>}, Step)
  BY <1>0, <1>4, <1>6, Recursion
<1>8. f = [k \in 0 .. NList |-> IF k = 0 THEN {<<>>} ELSE Body(k, f[k - 1])]
  <2>1. \A k \in 0 .. NList : (IF k = 0 THEN {<<>>} ELSE Step[k][f[k - 1]])
                                = (IF k = 0 THEN {<<>>} ELSE Body(k, f[k - 1]))
    <3> TAKE k \in 0 .. NList
    <3>1. CASE k # 0
      <4>1. k \in 1 .. NList /\ k - 1 \in 0 .. NList BY <1>0, <3>1
      <4>2. f[k - 1] \in D BY <1>7, <4>1
      <4> QED BY <1>5, <3>1, <4>1, <4>2
    <3> QED BY <3>1
  <2>2. [k \in 0 .. NList |-> IF k = 0 THEN {<<>>} ELSE Step[k][f[k - 1]]]
          = [k \in 0 .. NList |-> IF k = 0 THEN {<<>>} ELSE Body(k, f[k - 1])]
    BY <2>1
  <2> QED BY <1>7, <2>2 DEF Recurs
<1>9. s = [k \in 0 .. NList |-> IF k = 0 THEN {<<>>} ELSE Body(k, s[k - 1])] BY <1>8
<1>11. Seedings(data) = s[NList] BY DEF Seedings, s, Body
<1>12. s[0] = {<<>>} /\ \A k \in 1 .. NList : s[k] = Body(k, s[k - 1])
  <2>1. s[0] = {<<>>}
    <3>1. 0 \in 0 .. NList BY <1>0
    <3> HIDE DEF s
    <3> QED BY <1>9, <3>1
  <2> QED BY <1>9, <1>10, <2>1
<1> HIDE DEF s
<1>13. \A q \in s[NList] : q \in Seq(Int) /\ Len(q) = NList
  <2> DEFINE G == {k \in 0 .. NList : \A q \in s[k] : q \in Seq(Int) /\ Len(q) = k}
  <2>1. 0 \in G
    <3>1. 0 \in 0 .. NList BY <1>0
    <3>2. <<>> \in Seq(Int) /\ Len(<<>>) = 0 OBVIOUS
    <3> QED BY <1>12, <3>1, <3>2
  <2>2. ASSUME NEW k \in 1 .. NList, k - 1 \in G PROVE k \in G
    <3>1. k \in 0 .. NList BY <1>0
    <3>2. \A o \in s[k - 1] : o \in Seq(Int) /\ Len(o) = k - 1 BY <2>2
    <3>3. s[k - 1] \in D BY <3>2 DEF D
    <3>4. ASSUME NEW q \in s[k] PROVE q \in Seq(Int) /\ Len(q) = k
      <4>1. q \in Body(k, s[k - 1]) BY <1>12
      <4>2. PICK o \in s[k - 1] : q \in Seq(Int) /\ Len(q) = Len(o) + 1
        BY <1>2, <3>3, <4>1
      <4> QED BY <3>2, <4>2
    <3> QED BY <3>1, <3>4
  <2> HIDE DEF G
  <2>3. \A k \in 0 .. NList : k \in G BY <1>0, <2>1, <2>2, UpTo
  <2>4. NList \in 0 .. NList BY <1>0
  <2> QED BY <2>3, <2>4 DEF G
<1>14. p \in Seq(Int) /\ Len(p) = NList BY <1>11, <1>13
<1> QED BY <1>14 DEF Cells

LEMMA TrainingTyped ==
    ASSUME NEW data \in Seq(Int), NEW centers \in KMeansPlusPlus(data)
    PROVE  centers \in [Cells -> Int]
<1>1. CASE data = <<>> BY <1>1 DEF KMeansPlusPlus
<1>2. CASE data # <<>>
  <2>1. PICK s \in Seeds(data) : centers = Lloyd(data, s) BY <1>2 DEF KMeansPlusPlus
  <2>2. s \in [Cells -> Int]
    <3>1. CASE Len(data) < NList
      <4>1. s = [c \in Cells |-> data[((c - 1) % Len(data)) + 1]] BY <2>1, <3>1 DEF Seeds
      <4>2. \A c \in Cells : data[((c - 1) % Len(data)) + 1] \in Int
        <5> TAKE c \in Cells
        <5> DEFINE m == Len(data)
        <5>1. m \in Nat \ {0} /\ c - 1 \in Nat BY <1>2, KMeansAssumption DEF Cells
        <5>2. (c - 1) % m \in 0 .. m - 1
          <6> HIDE DEF m
          <6> QED BY <5>1
        <5>3. ((c - 1) % m) + 1 \in 1 .. m BY <5>1, <5>2
        <5> QED BY <5>3
      <4> QED BY <4>1, <4>2
    <3>2. CASE ~(Len(data) < NList)
      BY <1>2, <2>1, <3>2, SeedingsTyped DEF Seeds
    <3> QED BY <3>1, <3>2
  <2> QED BY <1>2, <2>1, <2>2, LloydTyped
<1> QED BY <1>1, <1>2

-----------------------------------------------------------------------------
(* The cells of a vector.                                                  *)

(* What may be kept of the first k when T was kept of those before.        *)
Grown(d, cap, k, T) ==
    IF Cardinality(T) < cap THEN {T \cup {k}}
    ELSE IF Beats(d, k, T) THEN {(T \ {w}) \cup {k} : w \in Worst(d, T)}
         ELSE {T}

(* What holds of nothing and is kept by each step holds of what is kept.   *)
LEMMA KeepInduction ==
    ASSUME NEW d, NEW n \in Nat, Len(d) = n, NEW cap,
           NEW P \in [0 .. n -> SUBSET SUBSET (1 .. n)], {} \in P[0],
           \A k \in 1 .. n : \A T \in P[k - 1] : \A U \in Grown(d, cap, k, T) : U \in P[k]
    PROVE  \A S \in Keep(d, cap) : S \in P[n]
<1> DEFINE D == SUBSET SUBSET (1 .. n)
           Body(k, X) == UNION {Grown(d, cap, k, T) : T \in X}
           Step == [k \in 1 .. n |-> [X \in D |-> Body(k, X)]]
           kept == CHOOSE f : f = [k \in 0 .. n |-> IF k = 0 THEN {{}} ELSE Body(k, f[k - 1])]
<1>1. ASSUME NEW k \in 1 .. n, NEW X \in D PROVE Body(k, X) \in D
  <2>1. ASSUME NEW T \in X, NEW U \in Grown(d, cap, k, T) PROVE U \subseteq 1 .. n
    <3>1. T \subseteq 1 .. n OBVIOUS
    <3> QED BY <3>1, <2>1 DEF Grown
  <2>2. \A U \in Body(k, X) : U \subseteq 1 .. n BY <2>1
  <2> HIDE DEF Body
  <2> QED BY <2>2
<1>2. \A k \in 1 .. n, X \in D : \A U \in Body(k, X) : \E T \in X : U \in Grown(d, cap, k, T)
  OBVIOUS
<1>3. \A f : f = [k \in 0 .. n |-> IF k = 0 THEN {{}} ELSE Body(k, f[k - 1])]
               => \A k \in 1 .. n : f[k] = Body(k, f[k - 1])
  <2> SUFFICES ASSUME NEW f, f = [k \in 0 .. n |-> IF k = 0 THEN {{}} ELSE Body(k, f[k - 1])],
                      NEW k \in 1 .. n
               PROVE  f[k] = Body(k, f[k - 1])
    OBVIOUS
  <2> HIDE DEF Body
  <2>1. k \in 0 .. n /\ k # 0 OBVIOUS
  <2> QED BY <2>1
<1> HIDE DEF D, Body
<1>4. Step \in [1 .. n -> [D -> D]] BY <1>1
<1>5. \A k \in 1 .. n, X \in D : Step[k][X] = Body(k, X) OBVIOUS
<1> HIDE DEF Step
<1>6. {{}} \in D BY DEF D
<1>7. PICK f \in [0 .. n -> D] : Recurs(f, n, {{}}, Step)
  BY <1>4, <1>6, Recursion
<1>8. f = [k \in 0 .. n |-> IF k = 0 THEN {{}} ELSE Body(k, f[k - 1])]
  <2>1. \A k \in 0 .. n : (IF k = 0 THEN {{}} ELSE Step[k][f[k - 1]])
                            = (IF k = 0 THEN {{}} ELSE Body(k, f[k - 1]))
    <3> TAKE k \in 0 .. n
    <3>1. CASE k # 0
      <4>1. k \in 1 .. n /\ k - 1 \in 0 .. n BY <3>1
      <4>2. f[k - 1] \in D BY <1>7, <4>1
      <4> QED BY <1>5, <3>1, <4>1, <4>2
    <3> QED BY <3>1
  <2>2. [k \in 0 .. n |-> IF k = 0 THEN {{}} ELSE Step[k][f[k - 1]]]
          = [k \in 0 .. n |-> IF k = 0 THEN {{}} ELSE Body(k, f[k - 1])]
    BY <2>1
  <2> QED BY <1>7, <2>2 DEF Recurs
<1>9. kept = [k \in 0 .. n |-> IF k = 0 THEN {{}} ELSE Body(k, kept[k - 1])] BY <1>8
<1>10. Keep(d, cap) = kept[n] BY DEF Keep, kept, Body, Grown
<1>11. kept[0] = {{}} /\ \A k \in 1 .. n : kept[k] = Body(k, kept[k - 1])
  <2>1. kept[0] = {{}}
    <3>1. 0 \in 0 .. n OBVIOUS
    <3> HIDE DEF kept
    <3> QED BY <1>9, <3>1
  <2> QED BY <1>9, <1>3, <2>1
<1> HIDE DEF kept
<1>12. kept[n] \subseteq P[n]
  <2> DEFINE G == {k \in 0 .. n : kept[k] \subseteq P[k]}
  <2>1. 0 \in G
    <3>1. 0 \in 0 .. n OBVIOUS
    <3> QED BY <1>11, <3>1
  <2>2. ASSUME NEW k \in 1 .. n, k - 1 \in G PROVE k \in G
    <3>1. kept[k - 1] \subseteq P[k - 1] /\ k - 1 \in 0 .. n BY <2>2
    <3>2. kept[k - 1] \in D
      <4>1. P[k - 1] \subseteq SUBSET (1 .. n) BY <3>1
      <4> QED BY <3>1, <4>1 DEF D
    <3>3. ASSUME NEW U \in kept[k] PROVE U \in P[k]
      <4>1. U \in Body(k, kept[k - 1]) BY <1>11
      <4>2. PICK T \in kept[k - 1] : U \in Grown(d, cap, k, T) BY <1>2, <3>2, <4>1
      <4> QED BY <3>1, <4>2
    <3> QED BY <3>3
  <2> HIDE DEF G
  <2>3. \A k \in 0 .. n : k \in G BY <2>1, <2>2, UpTo
  <2>4. n \in 0 .. n OBVIOUS
  <2>5. n \in G BY <2>3, <2>4
  <2> QED BY <2>5 DEF G
<1> QED BY <1>10, <1>12

(* Of all that may be kept the first of the least is never dropped.        *)
LEMMA KeepFacts ==
    ASSUME NEW d, NEW n \in Nat, Len(d) = n, \A e \in 1 .. n : d[e] \in Int,
           NEW cap \in Nat \ {0}, NEW b \in 1 .. n,
           \A e \in 1 .. n : d[b] <= d[e], \A e \in 1 .. b - 1 : d[b] < d[e],
           NEW S \in Keep(d, cap)
    PROVE  /\ S \subseteq 1 .. n /\ IsFiniteSet(S) /\ Cardinality(S) <= cap
           /\ b \in S
<1> DEFINE Sound(k, T) == /\ T \subseteq 1 .. k /\ Cardinality(T) <= cap
                          /\ b <= k => b \in T
           P == [k \in 0 .. n |-> {T \in SUBSET (1 .. n) : Sound(k, T)}]
<1>1. ASSUME NEW k \in 1 .. n, NEW T, Sound(k - 1, T), NEW U \in Grown(d, cap, k, T)
      PROVE  Sound(k, U)
  <2>1. T \subseteq 1 .. k /\ k \notin T /\ IsFiniteSet(T) /\ Cardinality(T) \in Nat
    <3>1. T \subseteq 1 .. k - 1 BY <1>1
    <3>2. IsFiniteSet(1 .. k - 1)
      <4>1. 1 \in Int /\ k - 1 \in Int OBVIOUS
      <4> QED BY <4>1, FS_Interval
    <3>3. IsFiniteSet(T) BY <3>1, <3>2, FS_Subset
    <3> QED BY <3>1, <3>3, FS_CardinalityType
  <2>2. Cardinality(T) <= cap BY <1>1
  <2>3. ASSUME b <= k, b # k PROVE b \in T
    <3>1. b <= k - 1 BY <2>3
    <3> QED BY <1>1, <3>1
  <2>4. \A t \in T : t \in 1 .. n /\ d[t] \in Int /\ d[b] <= d[t] /\ (b = k => d[b] < d[t])
    <3> TAKE t \in T
    <3>1. t \in 1 .. k - 1 BY <1>1
    <3>2. t \in 1 .. n BY <3>1
    <3> QED BY <3>1, <3>2
  <2>5. d[b] \in Int /\ d[k] \in Int /\ d[b] <= d[k] OBVIOUS
  <2>6. CASE Cardinality(T) < cap
    <3>1. U = T \cup {k} BY <1>1, <2>6 DEF Grown
    <3>2. Cardinality(U) = Cardinality(T) + 1 BY <2>1, <3>1, FS_AddElement
    <3>3. Cardinality(U) <= cap BY <2>1, <2>6, <3>2
    <3>4. b <= k => b \in U BY <2>3, <3>1
    <3>5. U \subseteq 1 .. k BY <2>1, <3>1
    <3> QED BY <3>3, <3>4, <3>5
  <2>7. CASE ~(Cardinality(T) < cap) /\ Beats(d, k, T)
    <3>1. PICK w \in Worst(d, T) : U = (T \ {w}) \cup {k}
      <4>1. U \in {(T \ {w}) \cup {k} : w \in Worst(d, T)} BY <1>1, <2>7 DEF Grown
      <4> QED BY <4>1
    <3>2. w \in T /\ \A t \in T : d[t] <= d[w] BY DEF Worst
    <3>3. PICK s \in T : d[k] < d[s] BY <2>7 DEF Beats
    <3>4. w # b
      <4>1. d[s] <= d[w] /\ d[s] \in Int /\ d[w] \in Int BY <2>4, <3>2
      <4> QED BY <2>5, <3>3, <4>1
    <3>5. Cardinality(U) = Cardinality(T)
      <4>1. IsFiniteSet(T \ {w}) /\ Cardinality(T \ {w}) = Cardinality(T) - 1
        BY <2>1, <3>2, FS_RemoveElement
      <4>2. k \notin T \ {w} BY <2>1
      <4>3. Cardinality((T \ {w}) \cup {k}) = Cardinality(T \ {w}) + 1
        BY <4>1, <4>2, FS_AddElement
      <4> QED BY <2>1, <3>1, <4>1, <4>3
    <3>6. b <= k => b \in U BY <2>3, <3>1, <3>4
    <3>7. U \subseteq 1 .. k
      <4>1. \A x \in U : x \in T \/ x = k BY <3>1
      <4>2. k \in 1 .. k OBVIOUS
      <4> QED BY <2>1, <4>1, <4>2
    <3> QED BY <2>2, <3>5, <3>6, <3>7
  <2>8. CASE ~(Cardinality(T) < cap) /\ ~Beats(d, k, T)
    <3>1. U = T BY <1>1, <2>8 DEF Grown
    <3>2. b # k
      <4>1. SUFFICES ASSUME b = k PROVE FALSE OBVIOUS
      <4>2. T # {}
        <5>1. Cardinality(T) # 0 BY <2>1, <2>8
        <5> QED BY <5>1, FS_EmptySet
      <4>3. PICK t \in T : TRUE BY <4>2
      <4>4. d[k] < d[t] BY <2>4, <4>1
      <4> QED BY <2>8, <4>4 DEF Beats
    <3>3. b <= k => b \in U BY <2>3, <3>1, <3>2
    <3> QED BY <2>1, <2>2, <3>1, <3>3
  <2> QED BY <2>6, <2>7, <2>8
<1> HIDE DEF Sound
<1>2. {} \in P[0]
  <2>1. Cardinality({}) = 0 BY FS_EmptySet
  <2>2. ~(b <= 0) /\ 0 <= cap OBVIOUS
  <2>3. Sound(0, {}) BY <2>1, <2>2 DEF Sound
  <2>4. 0 \in 0 .. n OBVIOUS
  <2> QED BY <2>3, <2>4
<1>3. ASSUME NEW k \in 1 .. n, NEW T \in P[k - 1], NEW U \in Grown(d, cap, k, T)
      PROVE  U \in P[k]
  <2>1. k - 1 \in 0 .. n /\ k \in 0 .. n OBVIOUS
  <2>2. Sound(k - 1, T) BY <2>1
  <2>3. Sound(k, U) BY <1>1, <2>2
  <2>4. U \subseteq 1 .. k /\ 1 .. k \subseteq 1 .. n BY <2>3 DEF Sound
  <2> QED BY <2>1, <2>3, <2>4
<1>4. P \in [0 .. n -> SUBSET SUBSET (1 .. n)] OBVIOUS
<1>5. P[n] = {T \in SUBSET (1 .. n) : Sound(n, T)}
  <2>1. n \in 0 .. n OBVIOUS
  <2> QED BY <2>1
<1> HIDE DEF P
<1>6. S \in P[n] BY <1>2, <1>3, <1>4, KeepInduction
<1>7. S \subseteq 1 .. n /\ Cardinality(S) <= cap /\ b \in S BY <1>5, <1>6 DEF Sound
<1>8. IsFiniteSet(S)
  <2>1. 1 \in Int /\ n \in Int OBVIOUS
  <2>2. IsFiniteSet(1 .. n) BY <2>1, FS_Interval
  <2> QED BY <1>7, <2>2, FS_Subset
<1> QED BY <1>7, <1>8

LEMMA AscendingFacts ==
    ASSUME NEW d, NEW S, IsFiniteSet(S), NEW q \in Ascending(d, S)
    PROVE  /\ q \in Seq(S) /\ Len(q) = Cardinality(S)
           /\ \A s \in S : \E i \in 1 .. Len(q) : q[i] = s
           /\ \A i, j \in 1 .. Len(q) : i # j => q[i] # q[j]
           /\ \A i, j \in 1 .. Len(q) : i < j => d[q[i]] <= d[q[j]]
<1> DEFINE n == Cardinality(S)
<1>1. n \in Nat BY FS_CardinalityType
<1>2. q \in [1 .. n -> S] /\ \A i, j \in 1 .. n : i # j => q[i] # q[j]
  BY DEF Ascending, SetToSeqs
<1>3. \A i, j \in 1 .. Len(q) : i < j => d[q[i]] <= d[q[j]] BY DEF Ascending
<1>4. q \in Seq(S) /\ Len(q) = n BY <1>1, <1>2
<1>5. q \in Surjection(1 .. n, S)
  <2>1. q \in Injection(1 .. n, S) BY <1>2 DEF Injection, IsInjective
  <2>2. Cardinality(1 .. n) = n
    <3>1. 1 \in Int /\ n \in Int BY <1>1
    <3>2. Cardinality(1 .. n) = IF 1 > n THEN 0 ELSE n - 1 + 1 BY <3>1, FS_Interval
    <3> QED BY <1>1, <3>2
  <2> QED BY <2>1, <2>2, FS_Injection
<1>6. \A s \in S : \E i \in 1 .. n : q[i] = s BY <1>5 DEF Surjection
<1> QED BY <1>2, <1>3, <1>4, <1>6

(* A vector's cells: at least one, no more than its kind allows, and the   *)
(* one that IVF assigns among them.                                        *)
LEMMA CellsForFacts ==
    ASSUME NEW kd, NEW v \in Int, NEW centers \in [Cells -> Int],
           NEW cells \in CellsFor(kd, v, centers)
    PROVE  /\ cells \in Seq(Cells) /\ Len(cells) \in Nat \ {0}
           /\ Len(cells) <= IF kd = "ivf" THEN 1 ELSE ReplicaCount
           /\ \E i \in 1 .. Len(cells) : cells[i] = AssignCentroid(v, centers)
<1> DEFINE b == AssignCentroid(v, centers)
<1>1. IsNearestCell(b, v, centers) BY NearestCellFacts DEF AssignCentroid
<1>2. b \in Cells BY <1>1 DEF IsNearestCell
<1>3. CASE kd = "ivf"
  <2>1. cells = <<b>> BY <1>3 DEF CellsFor
  <2>2. \E i \in 1 .. Len(cells) : cells[i] = AssignCentroid(v, centers)
    <3>1. Len(cells) = 1 /\ cells[1] = AssignCentroid(v, centers) BY <2>1
    <3>2. 1 \in 1 .. Len(cells) BY <3>1
    <3> QED BY <3>1, <3>2
  <2>3. cells \in Seq(Cells) /\ Len(cells) = 1
    <3> HIDE DEF b
    <3> QED BY <1>2, <2>1
  <2> QED BY <1>3, <2>2, <2>3
<1>4. CASE kd # "ivf"
  <2> DEFINE d == CellDistances(v, centers)
             n == NList
  <2>1. n \in Nat \ {0} /\ Cells = 1 .. n /\ ReplicaCount \in Nat \ {0}
    BY KMeansAssumption, PostingAssumption DEF Cells
  <2>2. /\ d = [c \in 1 .. n |-> L2sq(v, centers[c])]
        /\ \A c \in 1 .. n : d[c] = L2sq(v, centers[c]) /\ d[c] \in Nat
    <3>1. \A c \in 1 .. n : L2sq(v, centers[c]) \in Nat
      <4> TAKE c \in 1 .. n
      <4>1. centers[c] \in Int BY <2>1
      <4> QED BY <4>1, Square
    <3> QED BY <2>1, <3>1 DEF CellDistances
  <2>3. Len(d) = n
    <3> HIDE DEF n
    <3> QED BY <2>1, <2>2
  <2>4. cells \in ChooseCentroids(v, centers) BY <1>4 DEF CellsFor
  <2> HIDE DEF d, b
  <2>5. PICK S, q, m : /\ S \in Keep(d, ReplicaCount) /\ q \in Ascending(d, S)
                       /\ m \in 1 .. Len(q) /\ cells = SubSeq(q, 1, m)
                       /\ m < Len(q) => ~WithinCutoff(d[q[m + 1]], d[q[1]])
    BY <2>4 DEF ChooseCentroids, d
  <2>6. /\ b \in 1 .. n /\ \A e \in 1 .. n : d[b] <= d[e]
        /\ \A e \in 1 .. b - 1 : d[b] < d[e]
    <3>1. /\ b \in 1 .. n /\ \A e \in 1 .. n : L2sq(v, centers[b]) <= L2sq(v, centers[e])
          /\ \A e \in 1 .. b - 1 : L2sq(v, centers[b]) < L2sq(v, centers[e])
      BY <1>1, <2>1 DEF IsNearestCell
    <3>2. \A e \in 1 .. b - 1 : e \in 1 .. n BY <2>1, <3>1
    <3> QED BY <2>2, <3>1, <3>2
  <2>7. /\ S \subseteq 1 .. n /\ IsFiniteSet(S) /\ Cardinality(S) <= ReplicaCount
        /\ b \in S
    <3>1. \A e \in 1 .. n : d[e] \in Int BY <2>2
    <3>2. n \in Nat BY <2>1
    <3> HIDE DEF n
    <3> QED BY <2>1, <2>3, <2>5, <2>6, <3>1, <3>2, KeepFacts
  <2>8. /\ q \in Seq(S) /\ Len(q) = Cardinality(S)
        /\ \A s \in S : \E i \in 1 .. Len(q) : q[i] = s
        /\ \A i, j \in 1 .. Len(q) : i # j => q[i] # q[j]
        /\ \A i, j \in 1 .. Len(q) : i < j => d[q[i]] <= d[q[j]]
    BY <2>5, <2>7, AscendingFacts
  <2>9. q \in Seq(Cells) /\ Len(q) \in Nat
    <3>1. S \subseteq Cells BY <2>1, <2>7
    <3>2. ASSUME NEW A, NEW B, A \subseteq B, NEW s \in Seq(A)
          PROVE  s \in Seq(B) /\ Len(s) \in Nat
      BY <3>2
    <3> QED BY <2>8, <3>1, <3>2
  <2>10. /\ cells \in Seq(Cells) /\ Len(cells) = m /\ m \in Nat \ {0} /\ m <= Len(q)
         /\ \A i \in 1 .. m : cells[i] = q[i]
    <3>1. m \in Nat \ {0} /\ m <= Len(q) /\ cells = SubSeq(q, 1, m) BY <2>5, <2>9
    <3> QED BY <2>9, <3>1
  <2>11. PICK p \in 1 .. Len(q) : q[p] = b BY <2>7, <2>8
  <2>12. p <= m
    <3>1. SUFFICES ASSUME m < p PROVE FALSE BY <2>9, <2>10
    <3>2. m + 1 \in 1 .. Len(q) /\ m + 1 <= p /\ 1 \in 1 .. Len(q) BY <2>9, <2>10, <3>1
    <3> DEFINE x == d[q[m + 1]]
               y == d[q[1]]
    <3>3. q[m + 1] \in 1 .. n /\ q[1] \in 1 .. n
      <4>1. q[m + 1] \in Cells /\ q[1] \in Cells BY <2>9, <3>2
      <4> QED BY <2>1, <4>1
    <3>4. x \in Nat /\ y \in Nat /\ d[b] \in Nat BY <2>2, <2>6, <3>3
    <3>5. d[b] <= y BY <2>6, <3>3
    <3>6. x <= d[b]
      <4>1. CASE m + 1 = p BY <2>11, <3>4, <4>1
      <4>2. CASE m + 1 < p
        <5>1. d[q[m + 1]] <= d[q[p]] BY <2>8, <3>2, <4>2
        <5> QED BY <2>11, <5>1
      <4> QED BY <3>2, <4>1, <4>2, <2>10
    <3>7. ~WithinCutoff(x, y) BY <2>5, <2>10, <3>1, <3>2
    <3> HIDE DEF x, y
    <3>8. x <= y BY <3>4, <3>5, <3>6
    <3>9. x * ClosureDen <= ClosureNum * y
      <4>1. /\ ClosureDen \in Nat /\ ClosureNum \in Nat /\ ClosureNum >= ClosureDen
        BY PostingAssumption
      <4>2. x * ClosureDen <= y * ClosureDen BY <3>4, <3>8, <4>1
      <4>3. y * ClosureDen <= y * ClosureNum BY <3>4, <4>1
      <4>4. y * ClosureNum = ClosureNum * y /\ y * ClosureDen \in Nat /\ x * ClosureDen \in Nat
            /\ ClosureNum * y \in Nat
        BY <3>4, <4>1
      <4> QED BY <4>2, <4>3, <4>4
    <3> QED BY <3>7, <3>9 DEF WithinCutoff
  <2>13. p \in 1 .. m /\ cells[p] = b BY <2>9, <2>10, <2>11, <2>12
  <2>14. m <= ReplicaCount
    <3>1. Cardinality(S) \in Nat BY <2>7, FS_CardinalityType
    <3> QED BY <2>1, <2>7, <2>8, <2>10, <3>1
  <2> QED BY <1>4, <2>10, <2>13, <2>14 DEF b
<1> QED BY <1>3, <1>4

-----------------------------------------------------------------------------
(* The invariant.                                                          *)

Types ==
    /\ kind \in {"ivf", "spann"} /\ table \in [Rows -> Vectors \cup {Null}]
    /\ rows \subseteq Rows /\ unread \subseteq rows /\ combined \subseteq Threads
    /\ local \in [Threads -> Seq(Rows)] /\ collection \in Seq(Rows)
    /\ phase \in {"sink", "construct", "ready"} /\ pos \in 0..Len(collection)
    /\ chunk \in [Threads -> Nat]
    /\ centroids \in [Cells -> Int]
    /\ postings \in [Cells -> Seq(Entry)]
    /\ rowCell \in [Rows -> Cells \cup {NoCell}] /\ tombstones \subseteq Rows

(* The places of a row in a list.                                          *)
Places(c, r) == {i \in 1..Len(postings[c]) : postings[c][i].row = r}

Absent(r) == rowCell[r] = NoCell /\ \A c \in Cells : Places(c, r) = {}

(* Once in each of the cells q, which are of the kind that CellsFor gives. *)
HeldIn(r, q) ==
    /\ q \in Seq(Cells) /\ Len(q) \in Nat \ {0}
    /\ Len(q) <= IF kind = "ivf" THEN 1 ELSE ReplicaCount
    /\ rowCell[r] = q[1]
    /\ \E i \in 1..Len(q) : q[i] = AssignCentroid(table[r], centroids)
    /\ \A c \in Cells : IF Contains(q, c) THEN \E i : Places(c, r) = {i}
                        ELSE Places(c, r) = {}
Held(r) == \E q : HeldIn(r, q)

Kept(r) == IF table[r] = Null THEN Absent(r) ELSE Held(r)

(* While threads sink, a row that was read is in one place: one thread's   *)
(* collection or the merged one.                                           *)
In(r, s) == \E i \in 1..Len(s) : s[i] = r
Simple(s) == \A i, j \in 1..Len(s) : i # j => s[i] # s[j]
Apart(s, u) == \A i \in 1..Len(s), j \in 1..Len(u) : s[i] # u[j]

Delivered ==
    /\ \A r \in rows \ unread : In(r, collection) \/ \E t \in Threads : In(r, local[t])
    /\ \A i \in 1..Len(collection) : collection[i] \in rows \ unread
    /\ \A t \in Threads : \A i \in 1..Len(local[t]) : local[t][i] \in rows \ unread

OnePlace ==
    /\ Simple(collection)
    /\ \A t \in Threads : Simple(local[t]) /\ Apart(collection, local[t])
    /\ \A t, u \in Threads : t # u => Apart(local[t], local[u])

Combining ==
    /\ \A t \in combined : local[t] = <<>>
    /\ combined # {} => unread = {}

Sinking ==
    phase = "sink" =>
      /\ Delivered /\ OnePlace /\ Combining
      /\ pos = 0 /\ \A t \in Threads : chunk[t] = NoChunk
      /\ \A r \in Rows : Absent(r)

(* While tasks build, the rows stored are those of the chunks taken that   *)
(* no task is at.                                                          *)
Done(i) == i <= pos /\ \A t \in Threads : chunk[t] # i

Constructing ==
    phase = "construct" =>
      /\ Simple(collection) /\ \A r \in rows : In(r, collection)
      /\ \A i \in 1..Len(collection) : collection[i] \in rows
      /\ \A t \in Threads : chunk[t] <= pos
      /\ \A t, u \in Threads : t # u /\ chunk[t] # NoChunk => chunk[t] # chunk[u]
      /\ \A i \in 1..Len(collection) :
           IF Done(i) THEN Kept(collection[i]) ELSE Absent(collection[i])
      /\ \A r \in Rows \ rows : Absent(r)

Ready ==
    phase = "ready" =>
      /\ \A r \in rows : Kept(r)
      /\ \A r \in Rows \ rows : Absent(r)

CInv == Types /\ Sinking /\ Constructing /\ Ready

-----------------------------------------------------------------------------
(* What Construct does to the index.                                       *)

(* Append to a list.                                                       *)
LEMMA AppendPlaces ==
    ASSUME NEW E, NEW s \in Seq(E), NEW e \in E
    PROVE  /\ Append(s, e) \in Seq(E) /\ Len(s) \in Nat
           /\ Len(Append(s, e)) = Len(s) + 1
           /\ \A i \in 1..Len(s) : Append(s, e)[i] = s[i]
           /\ Append(s, e)[Len(s) + 1] = e
OBVIOUS

LEMMA ConstructStep ==
    ASSUME Types, NEW r \in Rows, Absent(r), Construct(r),
           UNCHANGED <<kind, table, centroids>>
    PROVE  /\ postings' \in [Cells -> Seq(Entry)]
           /\ rowCell' \in [Rows -> Cells \cup {NoCell}] /\ tombstones' \subseteq Rows
           /\ Kept(r)'
           /\ \A s \in Rows \ {r} : (Absent(s) => Absent(s)') /\ (Kept(s) => Kept(s)')
<1>1. CASE table[r] = Null
  <2>1. UNCHANGED <<postings, rowCell, tombstones>> BY <1>1 DEF Construct, index
  <2>2. /\ postings' \in [Cells -> Seq(Entry)]
        /\ rowCell' \in [Rows -> Cells \cup {NoCell}] /\ tombstones' \subseteq Rows
    BY <2>1 DEF Types
  <2>3. ASSUME NEW s \in Rows
        PROVE  (Absent(s) => Absent(s)') /\ (Kept(s) => Kept(s)')
    BY ZenonT(40), <2>1 DEF Kept, Absent, Held, HeldIn, Places
  <2>4. Kept(r) BY <1>1 DEF Kept
  <2> QED BY <2>2, <2>3, <2>4
<1>2. CASE table[r] # Null
  <2> DEFINE entry == [row |-> r, vec |-> table[r]]
  <2>1. PICK cells \in CellsFor(kind, table[r], centroids) :
             /\ postings' = Stored(postings, cells, entry)
             /\ rowCell' = [rowCell EXCEPT ![r] = cells[1]]
             /\ tombstones' = tombstones \ {r}
    BY <1>2 DEF Construct
  <2>2. table[r] \in Vectors /\ table[r] \in Int
    <3>1. table[r] \in Vectors \cup {Null} BY DEF Types
    <3>2. Vectors \subseteq Nat BY CreateAssumption
    <3>3. table[r] \in Vectors BY <1>2, <3>1
    <3>4. table[r] \in Nat BY <3>2, <3>3
    <3> QED BY <3>3, <3>4
  <2>3. entry \in Entry /\ entry.row = r BY <2>2 DEF Entry
  <2>4. /\ cells \in Seq(Cells) /\ Len(cells) \in Nat \ {0}
        /\ Len(cells) <= IF kind = "ivf" THEN 1 ELSE ReplicaCount
        /\ \E i \in 1 .. Len(cells) : cells[i] = AssignCentroid(table[r], centroids)
    <3>1. centroids \in [Cells -> Int] BY DEF Types
    <3>2. cells \in CellsFor(kind, table[r], centroids) BY <2>1
    <3> QED BY <2>2, <3>1, <3>2, CellsForFacts
  <2>5. cells[1] \in Cells
    <3>1. 1 \in 1 .. Len(cells) BY <2>4
    <3> QED BY <2>4, <3>1
  <2> HIDE DEF entry
  <2>6. ASSUME NEW c \in Cells
        PROVE  postings'[c] = IF Contains(cells, c) THEN Append(postings[c], entry)
                              ELSE postings[c]
    BY <2>1 DEF Stored
  <2>7. ASSUME NEW c \in Cells
        PROVE  /\ postings[c] \in Seq(Entry)
               /\ Append(postings[c], entry) \in Seq(Entry) /\ Len(postings[c]) \in Nat
               /\ Len(Append(postings[c], entry)) = Len(postings[c]) + 1
               /\ \A i \in 1..Len(postings[c]) : Append(postings[c], entry)[i] = postings[c][i]
               /\ Append(postings[c], entry)[Len(postings[c]) + 1] = entry
    <3>1. postings[c] \in Seq(Entry) BY DEF Types
    <3> QED BY <2>3, <3>1, AppendPlaces
  <2>8. postings' \in [Cells -> Seq(Entry)]
    <3>1. postings' = [c \in Cells |-> IF Contains(cells, c) THEN Append(postings[c], entry)
                                       ELSE postings[c]]
      BY <2>1 DEF Stored
    <3> QED BY <2>7, <3>1
  <2>9. rowCell' \in [Rows -> Cells \cup {NoCell}] /\ tombstones' \subseteq Rows
    BY <2>1, <2>5 DEF Types
  <2>10. rowCell'[r] = cells[1] /\ \A s \in Rows \ {r} : rowCell'[s] = rowCell[s]
    BY <2>1 DEF Types
  <2>11. ASSUME NEW c \in Cells, NEW s \in Rows, s # r
         PROVE  Places(c, s)' = Places(c, s)
    <3>1. CASE Contains(cells, c)
      <4> DEFINE p == postings[c]
      <4>1. /\ postings'[c] = Append(p, entry) /\ Len(postings'[c]) = Len(p) + 1
            /\ Len(p) \in Nat
            /\ \A i \in 1 .. Len(p) : postings'[c][i] = p[i]
            /\ postings'[c][Len(p) + 1] = entry
        BY <2>6, <2>7, <3>1
      <4>2. \A i \in 1 .. Len(p) + 1 : i \in 1 .. Len(p) \/ i = Len(p) + 1 BY <4>1
      <4>3. \A i \in 1 .. Len(p) : i \in 1 .. Len(p) + 1 BY <4>1
      <4>4. Places(c, s) = {i \in 1 .. Len(p) : p[i].row = s} BY DEF Places
      <4>5. Places(c, s)' = {i \in 1 .. Len(p) + 1 : postings'[c][i].row = s}
        BY <4>1 DEF Places
      <4> HIDE DEF p
      <4> QED BY <2>3, <2>11, <4>1, <4>2, <4>3, <4>4, <4>5
    <3>2. CASE ~Contains(cells, c)
      BY <2>6, <3>2 DEF Places
    <3> QED BY <3>1, <3>2
  <2>12. ASSUME NEW c \in Cells
         PROVE  IF Contains(cells, c) THEN \E i : Places(c, r)' = {i}
                ELSE Places(c, r)' = {}
    <3>1. Places(c, r) = {} BY DEF Absent
    <3>2. CASE Contains(cells, c)
      <4> DEFINE p == postings[c]
      <4>1. /\ postings'[c] = Append(p, entry) /\ Len(postings'[c]) = Len(p) + 1
            /\ Len(p) \in Nat
            /\ \A i \in 1 .. Len(p) : postings'[c][i] = p[i]
            /\ postings'[c][Len(p) + 1] = entry
        BY <2>6, <2>7, <3>2
      <4>2. \A i \in 1 .. Len(p) : p[i].row # r BY <3>1 DEF Places
      <4>3. Places(c, r)' = {i \in 1 .. Len(p) + 1 : postings'[c][i].row = r}
        BY <4>1 DEF Places
      <4>4. \A i \in 1 .. Len(p) + 1 : i \in 1 .. Len(p) \/ i = Len(p) + 1 BY <4>1
      <4>5. Len(p) + 1 \in 1 .. Len(p) + 1 BY <4>1
      <4> HIDE DEF p
      <4>6. Places(c, r)' = {Len(p) + 1} BY <2>3, <4>1, <4>2, <4>3, <4>4, <4>5
      <4> QED BY <3>2, <4>6
    <3>3. CASE ~Contains(cells, c)
      BY <2>6, <3>1, <3>3 DEF Places
    <3> QED BY <3>2, <3>3
  <2>13. Held(r)'
    <3>1. HeldIn(r, cells)' BY <2>4, <2>10, <2>12 DEF HeldIn
    <3> QED BY <3>1 DEF Held
  <2>14. table'[r] # Null BY <1>2
  <2>15. ASSUME NEW s \in Rows \ {r}, Absent(s) PROVE Absent(s)'
    BY <2>10, <2>11, <2>15 DEF Absent
  <2>16. ASSUME NEW s \in Rows \ {r}, Held(s) PROVE Held(s)'
    <3>1. PICK q : HeldIn(s, q) BY <2>16 DEF Held
    <3>2. HeldIn(s, q)' BY <2>10, <2>11, <3>1 DEF HeldIn
    <3> QED BY <3>2 DEF Held
  <2>17. Kept(r)' BY <2>13, <2>14 DEF Kept
  <2>18. ASSUME NEW s \in Rows \ {r}, Kept(s) PROVE Kept(s)'
    BY <2>15, <2>16, <2>18 DEF Kept
  <2> QED BY <2>8, <2>9, <2>15, <2>17, <2>18
<1> QED BY <1>1, <1>2

-----------------------------------------------------------------------------
(* The steps of the pipeline.                                              *)

LEMMA Constants ==
    /\ Rows \subseteq Nat /\ IsFiniteSet(Rows) /\ InitialRows \subseteq SUBSET Rows
    /\ Vectors \subseteq Nat /\ Null \notin Vectors
    /\ SampleCap \in Nat \ {0} /\ Threads # {}
BY CreateAssumption

(* The least of some rows is one of them.                                  *)
LEMMA LeastRow ==
    ASSUME NEW S \in SUBSET Rows, S # {}
    PROVE  Min(S) \in S
<1>1. S \in SUBSET Nat BY Constants
<1>2. PICK n \in S : \A m \in S : n <= m BY <1>1, LeastNumber
<1> QED BY <1>2 DEF Min

LEMMA InitHolds == ASSUME Init PROVE CInv
<1>1. Types
  <2>1. centroids \in [Cells -> Int] BY DEF Init
  <2>2. <<>> \in Seq(Rows) /\ <<>> \in Seq(Entry) /\ Len(<<>>) = 0 OBVIOUS
  <2>3. rows \subseteq Rows BY Constants DEF Init
  <2>4. pos \in 0..Len(collection) BY <2>2 DEF Init
  <2> QED BY <2>1, <2>2, <2>3, <2>4 DEF Init, Types, NoChunk
<1>2. \A r \in Rows : Absent(r)
  <2> TAKE r \in Rows
  <2>1. \A c \in Cells : postings[c] = <<>> BY DEF Init
  <2>2. \A i : ~(i \in 1..Len(<<>>)) OBVIOUS
  <2>3. \A c \in Cells : Places(c, r) = {} BY <2>1, <2>2 DEF Places
  <2> QED BY <2>3 DEF Absent, Init
<1>3. Sinking
  <2>1. \A i : ~(i \in 1..Len(<<>>)) OBVIOUS
  <2>2. collection = <<>> /\ \A t \in Threads : local[t] = <<>> BY DEF Init
  <2>3. Delivered BY <2>1, <2>2 DEF Init, Delivered
  <2>4. OnePlace BY <2>1, <2>2 DEF OnePlace, Simple, Apart
  <2>5. Combining BY DEF Init, Combining
  <2> QED BY <1>2, <2>3, <2>4, <2>5 DEF Init, Sinking
<1>4. phase = "sink" BY DEF Init
<1> QED BY <1>1, <1>3, <1>4 DEF CInv, Constructing, Ready

LEMMA AbsentStays ==
    ASSUME UNCHANGED <<postings, rowCell>>, NEW r, Absent(r) PROVE Absent(r)'
BY DEF Absent, Places

LEMMA KeptStays ==
    ASSUME UNCHANGED <<kind, table, centroids, postings, rowCell>>, NEW r, Kept(r)
    PROVE  Kept(r)'
BY ZenonT(40) DEF Kept, Absent, Held, HeldIn, Places

LEMMA SinkStep == ASSUME CInv, NEW t \in Threads, Sink(t) PROVE CInv'
<1> DEFINE r == Min(unread)
<1>0. /\ phase = "sink" /\ unread # {} /\ t \notin combined
      /\ unread' = unread \ {r} /\ local' = [local EXCEPT ![t] = Append(@, r)]
      /\ UNCHANGED <<kind, table, rows, combined, collection, phase, pos, chunk,
                     centroids, postings, rowCell, tombstones>>
  BY DEF Sink, index
<1>1. Types /\ Delivered /\ OnePlace /\ Combining BY <1>0 DEF CInv, Sinking
<1>2. r \in unread /\ r \in Rows
  <2>1. unread \in SUBSET Rows BY <1>1 DEF Types
  <2> QED BY <1>0, <2>1, LeastRow
<1> HIDE DEF r
<1>3. /\ local[t] \in Seq(Rows) /\ Append(local[t], r) \in Seq(Rows)
      /\ Len(local[t]) \in Nat
      /\ Len(Append(local[t], r)) = Len(local[t]) + 1
      /\ \A i \in 1..Len(local[t]) : Append(local[t], r)[i] = local[t][i]
      /\ Append(local[t], r)[Len(local[t]) + 1] = r
  <2>1. local[t] \in Seq(Rows) BY <1>1 DEF Types
  <2> QED BY <1>2, <2>1, AppendPlaces
<1>4. /\ local'[t] = Append(local[t], r)
      /\ \A u \in Threads : u # t => local'[u] = local[u]
  BY <1>0, <1>1 DEF Types
<1> DEFINE n == Len(local[t])
<1>5. /\ n \in Nat /\ Len(local'[t]) = n + 1 /\ local'[t][n + 1] = r
      /\ \A i \in 1..n : local'[t][i] = local[t][i]
  BY <1>3, <1>4
<1>6. /\ \A i \in 1..n + 1 : i \in 1..n \/ i = n + 1
      /\ n + 1 \in 1..n + 1 /\ \A i \in 1..n : i \in 1..n + 1
  <2> HIDE DEF n
  <2> QED BY <1>5
<1>7. Types'
  <2>1. local' \in [Threads -> Seq(Rows)] BY <1>0, <1>1, <1>3 DEF Types
  <2> QED BY <1>0, <1>1, <2>1 DEF Types
<1>8. Delivered'
  <2>1. \A s \in rows \ unread : In(s, collection) \/ \E u \in Threads : In(s, local'[u])
    <3> TAKE s \in rows \ unread
    <3>1. CASE In(s, collection) BY <3>1
    <3>2. ASSUME NEW u \in Threads, In(s, local[u]) PROVE In(s, local'[u])
      <4>1. CASE u = t BY <1>5, <1>6, <3>2, <4>1 DEF In
      <4>2. CASE u # t BY <1>4, <3>2, <4>2
      <4> QED BY <4>1, <4>2
    <3> QED BY <1>1, <3>1, <3>2 DEF Delivered
  <2>2. In(r, local'[t]) BY <1>5, <1>6 DEF In
  <2>3. \A s \in rows' \ unread' : In(s, collection') \/ \E u \in Threads : In(s, local'[u])
    BY <1>0, <2>1, <2>2
  <2>4. \A i \in 1..Len(collection') : collection'[i] \in rows' \ unread'
    BY <1>0, <1>1 DEF Delivered
  <2>5. ASSUME NEW u \in Threads, NEW i \in 1..Len(local'[u])
        PROVE  local'[u][i] \in rows' \ unread'
    <3>0. r \in rows BY <1>1, <1>2 DEF Types
    <3>1. CASE u = t
      <4>1. i \in 1..n + 1 BY <1>5, <3>1
      <4>2. CASE i \in 1..n BY <1>0, <1>1, <1>5, <3>1, <4>2 DEF Delivered
      <4>3. CASE i = n + 1 BY <1>0, <1>2, <1>5, <3>0, <3>1, <4>3
      <4> QED BY <1>6, <4>1, <4>2, <4>3
    <3>2. CASE u # t BY <1>0, <1>1, <1>4, <2>5, <3>2 DEF Delivered
    <3> QED BY <3>1, <3>2
  <2> QED BY <2>3, <2>4, <2>5 DEF Delivered
<1>9. OnePlace'
  <2>1. /\ \A i \in 1..Len(collection) : collection[i] # r
        /\ \A u \in Threads : \A i \in 1..Len(local[u]) : local[u][i] # r
    BY <1>1, <1>2 DEF Delivered
  <2>2. Simple(collection') BY <1>0, <1>1 DEF OnePlace
  <2>3. Simple(local'[t])
    <3> SUFFICES ASSUME NEW i \in 1..n + 1, NEW j \in 1..n + 1, i # j
                 PROVE  local'[t][i] # local'[t][j]
      BY <1>5 DEF Simple
    <3>1. CASE i \in 1..n /\ j \in 1..n BY <1>1, <1>5, <3>1 DEF OnePlace, Simple
    <3>2. CASE i = n + 1 /\ j \in 1..n BY <1>5, <2>1, <3>2
    <3>3. CASE j = n + 1 /\ i \in 1..n BY <1>5, <2>1, <3>3
    <3> QED BY <1>6, <3>1, <3>2, <3>3
  <2>4. ASSUME NEW s, Apart(s, local[t]), \A i \in 1..Len(s) : s[i] # r
        PROVE  Apart(s, local'[t]) /\ Apart(local'[t], s)
    BY <1>5, <1>6, <2>4 DEF Apart
  <2>5. Apart(collection', local'[t]) BY <1>0, <1>1, <2>1, <2>4 DEF OnePlace
  <2>6. ASSUME NEW u \in Threads, u # t
        PROVE  /\ Simple(local'[u]) /\ Apart(collection', local'[u])
               /\ Apart(local'[u], local'[t]) /\ Apart(local'[t], local'[u])
    <3>1. local'[u] = local[u] BY <1>4, <2>6
    <3>2. Apart(local[u], local[t]) BY <1>1, <2>6 DEF OnePlace
    <3>3. Simple(local[u]) /\ Apart(collection, local[u]) BY <1>1 DEF OnePlace
    <3>4. \A i \in 1..Len(local[u]) : local[u][i] # r BY <2>1
    <3> QED BY <1>0, <2>4, <3>1, <3>2, <3>3, <3>4
  <2>7. ASSUME NEW u \in Threads, NEW w \in Threads, u # w
        PROVE  Apart(local'[u], local'[w])
    <3>1. CASE u # t /\ w # t BY <1>1, <1>4, <2>7, <3>1 DEF OnePlace
    <3>2. CASE u = t BY <2>6, <2>7, <3>2
    <3>3. CASE w = t BY <2>6, <2>7, <3>3
    <3> QED BY <3>1, <3>2, <3>3
  <2> QED BY <2>2, <2>3, <2>5, <2>6, <2>7 DEF OnePlace
<1>10. Combining' BY <1>0, <1>1, <1>4 DEF Combining
<1>11. Sinking'
  <2>1. pos' = 0 /\ \A u \in Threads : chunk'[u] = NoChunk BY <1>0 DEF CInv, Sinking
  <2>2. \A s \in Rows : Absent(s)' BY <1>0, AbsentStays DEF CInv, Sinking
  <2> QED BY <1>8, <1>9, <1>10, <2>1, <2>2 DEF Sinking
<1> QED BY <1>0, <1>7, <1>11 DEF CInv, Constructing, Ready

(* One sequence after another.                                             *)
LEMMA ConcatPlaces ==
    ASSUME NEW E, NEW s \in Seq(E), NEW u \in Seq(E)
    PROVE  /\ s \o u \in Seq(E) /\ Len(s) \in Nat /\ Len(u) \in Nat
           /\ Len(s \o u) = Len(s) + Len(u)
           /\ \A i \in 1..Len(s) : (s \o u)[i] = s[i]
           /\ \A i \in 1..Len(u) : (s \o u)[Len(s) + i] = u[i]
OBVIOUS

LEMMA ConcatIn ==
    ASSUME NEW E, NEW s \in Seq(E), NEW u \in Seq(E)
    PROVE  /\ \A r : In(r, s \o u) <=> In(r, s) \/ In(r, u)
           /\ Simple(s) /\ Simple(u) /\ Apart(s, u) => Simple(s \o u)
           /\ \A w : Apart(s, w) /\ Apart(u, w) => Apart(s \o u, w)
<1> DEFINE n == Len(s)
           m == Len(u)
           v == s \o u
<1>1. /\ n \in Nat /\ m \in Nat /\ Len(v) = n + m
      /\ \A i \in 1..n : v[i] = s[i]
      /\ \A i \in 1..m : v[n + i] = u[i]
  BY ConcatPlaces
<1>2. \A i \in 1..n + m : i \in 1..n \/ i - n \in 1..m
  <2> HIDE DEF n, m
  <2> QED BY <1>1
<1>3. (\A i \in 1..n : i \in 1..n + m) /\ (\A i \in 1..m : n + i \in 1..n + m)
  <2> HIDE DEF n, m
  <2> QED BY <1>1
<1>4. \A i \in 1..n + m : \/ v[i] = s[i] /\ i \in 1..n
                          \/ v[i] = u[i - n] /\ i - n \in 1..m
  <2> TAKE i \in 1..n + m
  <2>1. CASE i \in 1..n BY <1>1, <2>1
  <2>2. CASE i - n \in 1..m
    <3>1. n + (i - n) = i
      <4> HIDE DEF n, m
      <4> QED BY <1>1
    <3> QED BY <1>1, <2>2, <3>1
  <2> QED BY <1>2, <2>1, <2>2
<1> HIDE DEF v
<1>5. \A r : In(r, v) <=> In(r, s) \/ In(r, u)
  <2> TAKE r
  <2>1. In(r, s) => In(r, v) BY <1>1, <1>3 DEF In
  <2>2. In(r, u) => In(r, v) BY <1>1, <1>3 DEF In
  <2>3. In(r, v) => In(r, s) \/ In(r, u) BY <1>1, <1>4 DEF In
  <2> QED BY <2>1, <2>2, <2>3
<1>6. ASSUME Simple(s), Simple(u), Apart(s, u) PROVE Simple(v)
  <2> SUFFICES ASSUME NEW i \in 1..n + m, NEW j \in 1..n + m, i # j, v[i] = v[j]
               PROVE  FALSE
    BY <1>1 DEF Simple
  <2>0. i \in Int /\ j \in Int /\ n \in Int OBVIOUS
  <2>1. CASE i \in 1..n /\ v[i] = s[i]
    <3>1. CASE j \in 1..n /\ v[j] = s[j] BY <1>6, <2>1, <3>1 DEF Simple
    <3>2. CASE j - n \in 1..m /\ v[j] = u[j - n] BY <1>6, <2>1, <3>2 DEF Apart
    <3> QED BY <1>4, <3>1, <3>2
  <2>2. CASE i - n \in 1..m /\ v[i] = u[i - n]
    <3>1. CASE j \in 1..n /\ v[j] = s[j] BY <1>6, <2>2, <3>1 DEF Apart
    <3>2. CASE j - n \in 1..m /\ v[j] = u[j - n]
      <4>1. i - n # j - n BY <2>0
      <4> QED BY <1>6, <2>2, <3>2, <4>1 DEF Simple
    <3> QED BY <1>4, <3>1, <3>2
  <2> QED BY <1>4, <2>1, <2>2
<1>7. ASSUME NEW w, Apart(s, w), Apart(u, w) PROVE Apart(v, w)
  <2> SUFFICES ASSUME NEW i \in 1..n + m, NEW j \in 1..Len(w) PROVE v[i] # w[j]
    BY <1>1 DEF Apart
  <2>1. CASE v[i] = s[i] /\ i \in 1..n BY <1>7, <2>1 DEF Apart
  <2>2. CASE v[i] = u[i - n] /\ i - n \in 1..m BY <1>7, <2>2 DEF Apart
  <2> QED BY <1>4, <2>1, <2>2
<1> QED BY <1>5, <1>6, <1>7 DEF v

LEMMA CombineStep == ASSUME CInv, NEW t \in Threads, Combine(t) PROVE CInv'
<1>0. /\ phase = "sink" /\ unread = {} /\ t \notin combined
      /\ combined' = combined \cup {t}
      /\ collection' = IF local[t] = <<>> THEN collection ELSE Merged(t)
      /\ local' = [local EXCEPT ![t] = <<>>]
      /\ UNCHANGED <<kind, table, rows, unread, phase, pos, chunk, centroids,
                     postings, rowCell, tombstones>>
  BY DEF Combine, index
<1>1. Types /\ Delivered /\ OnePlace /\ Combining BY <1>0 DEF CInv, Sinking
<1>2. local[t] \in Seq(Rows) /\ collection \in Seq(Rows) BY <1>1 DEF Types
<1>3. collection' = collection \o local[t]
  <2>1. CASE local[t] = <<>>
    <3>1. collection \o <<>> = collection BY <1>2
    <3> QED BY <1>0, <2>1, <3>1
  <2> QED BY <1>0, <2>1 DEF Merged
<1>4. local'[t] = <<>> /\ \A u \in Threads : u # t => local'[u] = local[u]
  BY <1>0, <1>1 DEF Types
<1>5. collection' \in Seq(Rows) BY <1>2, <1>3, ConcatPlaces
<1>6. \A r : In(r, collection') <=> In(r, collection) \/ In(r, local[t])
  BY <1>2, <1>3, ConcatIn
<1>7. Types'
  <2>1. local' \in [Threads -> Seq(Rows)]
    <3>1. <<>> \in Seq(Rows) OBVIOUS
    <3> QED BY <1>0, <1>1, <3>1 DEF Types
  <2>2. pos' \in 0..Len(collection')
    <3>1. pos = 0 BY <1>0 DEF CInv, Sinking
    <3>2. Len(collection') \in Nat BY <1>5
    <3> QED BY <1>0, <3>1, <3>2
  <2> QED BY <1>0, <1>1, <1>5, <2>1, <2>2 DEF Types
<1>8. Delivered'
  <2>1. \A r \in rows \ unread : In(r, collection') \/ \E u \in Threads : In(r, local'[u])
    BY <1>1, <1>4, <1>6 DEF Delivered
  <2>2. ASSUME NEW i \in 1..Len(collection') PROVE collection'[i] \in rows \ unread
    <3>1. In(collection'[i], collection') BY DEF In
    <3>2. In(collection'[i], collection) \/ In(collection'[i], local[t]) BY <1>6, <3>1
    <3> QED BY <1>1, <3>2 DEF Delivered, In
  <2>3. ASSUME NEW u \in Threads, NEW i \in 1..Len(local'[u])
        PROVE  local'[u][i] \in rows \ unread
    <3>1. u # t BY <1>4, <2>3
    <3> QED BY <1>1, <1>4, <2>3, <3>1 DEF Delivered
  <2> QED BY <1>0, <2>1, <2>2, <2>3 DEF Delivered
<1>9. OnePlace'
  <2>1. Simple(collection')
    <3>1. Simple(collection) /\ Simple(local[t]) /\ Apart(collection, local[t])
      BY <1>1 DEF OnePlace
    <3> QED BY <1>2, <1>3, <3>1, ConcatIn
  <2>2. \A s : Simple(<<>>) /\ Apart(s, <<>>) /\ Apart(<<>>, s)
    <3>1. \A i : ~(i \in 1..Len(<<>>)) OBVIOUS
    <3> QED BY <3>1 DEF Simple, Apart
  <2>3. ASSUME NEW u \in Threads
        PROVE  Simple(local'[u]) /\ Apart(collection', local'[u])
    <3>1. CASE u = t BY <1>4, <2>2, <3>1
    <3>2. CASE u # t
      <4>1. Simple(local[u]) /\ Apart(collection, local[u]) /\ Apart(local[t], local[u])
        BY <1>1, <3>2 DEF OnePlace
      <4>2. Apart(collection \o local[t], local[u]) BY <1>2, <4>1, ConcatIn
      <4> QED BY <1>3, <1>4, <3>2, <4>1, <4>2
    <3> QED BY <3>1, <3>2
  <2>4. ASSUME NEW u \in Threads, NEW w \in Threads, u # w
        PROVE  Apart(local'[u], local'[w])
    <3>1. CASE u = t \/ w = t BY <1>4, <2>2, <3>1
    <3>2. CASE u # t /\ w # t BY <1>1, <1>4, <2>4, <3>2 DEF OnePlace
    <3> QED BY <3>1, <3>2
  <2> QED BY <2>1, <2>3, <2>4 DEF OnePlace
<1>10. Combining'
  <2>1. \A u \in combined' : local'[u] = <<>>
    <3> TAKE u \in combined'
    <3>1. u \in Threads BY <1>7 DEF Types
    <3> QED BY <1>0, <1>1, <1>4, <3>1 DEF Combining
  <2> QED BY <1>0, <2>1 DEF Combining
<1>11. Sinking'
  <2>1. pos' = 0 /\ \A u \in Threads : chunk'[u] = NoChunk BY <1>0 DEF CInv, Sinking
  <2>2. \A s \in Rows : Absent(s)' BY <1>0, AbsentStays DEF CInv, Sinking
  <2> QED BY <1>8, <1>9, <1>10, <2>1, <2>2 DEF Sinking
<1> QED BY <1>0, <1>7, <1>11 DEF CInv, Constructing, Ready

(* What training samples are integers.                                     *)
LEMMA SampleTyped == ASSUME Types PROVE Sample \in Seq(Int)
<1> DEFINE Value(r) == IF table[r] = Null THEN 0 ELSE table[r]
           n == Min({Len(collection), SampleCap})
<1>1. collection \in Seq(Rows) /\ Len(collection) \in Nat BY DEF Types
<1>2. n \in Nat /\ n <= Len(collection)
  <2>1. SampleCap \in Nat BY Constants
  <2>2. PICK x \in {Len(collection), SampleCap} :
            \A y \in {Len(collection), SampleCap} : x <= y
    <3>1. Len(collection) <= SampleCap \/ SampleCap <= Len(collection) BY <1>1, <2>1
    <3>2. Len(collection) <= Len(collection) /\ SampleCap <= SampleCap BY <1>1, <2>1
    <3> QED BY <3>1, <3>2
  <2>3. n \in {Len(collection), SampleCap} /\ \A y \in {Len(collection), SampleCap} : n <= y
    BY <2>2 DEF Min
  <2> QED BY <1>1, <2>1, <2>3
<1> HIDE DEF n
<1>3. ASSUME NEW i \in 1..n PROVE Value(collection[i]) \in Int
  <2>1. i \in 1..Len(collection) BY <1>1, <1>2
  <2>2. collection[i] \in Rows BY <1>1, <2>1
  <2>3. table[collection[i]] \in Vectors \cup {Null} BY <2>2 DEF Types
  <2>4. \A v \in Vectors : v \in Int
    <3>1. Vectors \subseteq Nat BY Constants
    <3>2. \A v \in Vectors : v \in Nat BY <3>1
    <3> QED BY <3>2
  <2>5. CASE table[collection[i]] = Null BY <2>5
  <2>6. CASE table[collection[i]] # Null
    <3>1. table[collection[i]] \in Vectors BY <2>3, <2>6
    <3>2. table[collection[i]] \in Int BY <2>4, <3>1
    <3> QED BY <2>6, <3>2
  <2> QED BY <2>5, <2>6
<1>4. Sample = [i \in 1..n |-> Value(collection[i])] BY DEF Sample, n
<1> HIDE DEF Value
<1> QED BY <1>2, <1>3, <1>4

LEMMA FinalizeStep == ASSUME CInv, Finalize PROVE CInv'
<1>0. /\ phase = "sink" /\ combined = Threads /\ phase' = "construct"
      /\ centroids' \in KMeansPlusPlus(Sample)
      /\ UNCHANGED <<kind, table, rows, unread, local, combined, collection, pos,
                     chunk, postings, rowCell, tombstones>>
  BY DEF Finalize, index, build
<1>1. Types /\ Delivered /\ OnePlace /\ Combining BY <1>0 DEF CInv, Sinking
<1>2. Types'
  <2>1. centroids' \in [Cells -> Int] BY <1>0, <1>1, SampleTyped, TrainingTyped
  <2> QED BY <1>0, <1>1, <2>1 DEF Types
<1>3. Constructing'
  <2>1. unread = {} /\ \A t \in Threads : local[t] = <<>>
    BY <1>0, <1>1, Constants DEF Combining
  <2>2. Simple(collection') BY <1>0, <1>1 DEF OnePlace
  <2>3. \A r \in rows' : In(r, collection')
    <3>1. \A r : ~In(r, <<>>)
      <4>1. \A i : ~(i \in 1..Len(<<>>)) OBVIOUS
      <4> QED BY <4>1 DEF In
    <3> QED BY <1>0, <1>1, <2>1, <3>1 DEF Delivered
  <2>4. \A i \in 1..Len(collection') : collection'[i] \in rows'
    BY <1>0, <1>1 DEF Delivered
  <2>5. pos' = 0 /\ \A t \in Threads : chunk'[t] = 0
    BY <1>0 DEF CInv, Sinking, NoChunk
  <2>6. \A r \in Rows : Absent(r)' BY <1>0, AbsentStays DEF CInv, Sinking
  <2>7. \A i \in 1..Len(collection') : ~Done(i)' /\ Absent(collection[i])'
    <3> TAKE i \in 1..Len(collection')
    <3>1. ~(i <= pos') BY <2>5
    <3>2. collection'[i] \in Rows BY <1>2, <2>4 DEF Types
    <3> QED BY <1>0, <2>6, <3>1, <3>2 DEF Done
  <2>8. collection' = collection BY <1>0
  <2>9. \A t \in Threads : chunk'[t] <= pos' BY <2>5
  <2>10. \A t, u \in Threads : t # u /\ chunk'[t] # NoChunk => chunk'[t] # chunk'[u]
    BY <2>5 DEF NoChunk
  <2> QED BY <2>2, <2>3, <2>4, <2>6, <2>7, <2>8, <2>9, <2>10 DEF Constructing
<1> QED BY <1>0, <1>2, <1>3 DEF CInv, Sinking, Ready

LEMMA ScanChunkStep == ASSUME CInv, NEW t \in Threads, ScanChunk(t) PROVE CInv'
<1>0. /\ phase = "construct" /\ chunk[t] = NoChunk /\ pos < Len(collection)
      /\ pos' = pos + 1 /\ chunk' = [chunk EXCEPT ![t] = pos + 1]
      /\ UNCHANGED <<kind, table, rows, unread, local, combined, collection, phase,
                     centroids, postings, rowCell, tombstones>>
  BY DEF ScanChunk, index
<1>1. Types BY DEF CInv
<1>2. pos \in Nat /\ Len(collection) \in Nat /\ pos + 1 \in 0..Len(collection)
  BY <1>0, <1>1 DEF Types
<1>3. /\ chunk'[t] = pos + 1 /\ \A u \in Threads : u # t => chunk'[u] = chunk[u]
      /\ \A u \in Threads : chunk[u] \in Nat
  BY <1>0, <1>1 DEF Types
<1>4. Types'
  <2>1. chunk' \in [Threads -> Nat] BY <1>0, <1>1, <1>2 DEF Types
  <2> QED BY <1>0, <1>1, <1>2, <2>1 DEF Types
<1>5. \A u \in Threads : chunk[u] <= pos BY <1>0 DEF CInv, Constructing
<1>6. \A u \in Threads : chunk'[u] <= pos' BY <1>0, <1>2, <1>3, <1>5
<1>7. \A u, w \in Threads : u # w /\ chunk'[u] # NoChunk => chunk'[u] # chunk'[w]
  <2>1. \A u, w \in Threads : u # w /\ chunk[u] # NoChunk => chunk[u] # chunk[w]
    BY <1>0 DEF CInv, Constructing
  <2>2. \A u \in Threads : chunk[u] # pos + 1 BY <1>2, <1>3, <1>5
  <2> QED BY <1>3, <2>1, <2>2
<1>8. \A i \in 1..Len(collection) : Done(i)' <=> Done(i)
  <2> TAKE i \in 1..Len(collection)
  <2>1. i \in Nat /\ i # 0 OBVIOUS
  <2>2. i # chunk[t] BY <1>0, <2>1 DEF NoChunk
  <2>3. CASE i <= pos
    <3>1. i <= pos + 1 /\ i # pos + 1 BY <1>2, <2>1, <2>3
    <3> QED BY <1>0, <1>3, <2>2, <2>3, <3>1 DEF Done
  <2>4. CASE i = pos + 1
    <3>1. ~(i <= pos) BY <1>2, <2>4
    <3> QED BY <1>3, <2>4, <3>1 DEF Done
  <2>5. CASE i > pos + 1
    <3>1. ~(i <= pos) /\ ~(i <= pos + 1) BY <1>2, <2>1, <2>5
    <3> QED BY <1>0, <3>1 DEF Done
  <2>6. i <= pos \/ i = pos + 1 \/ i > pos + 1 BY <1>2, <2>1
  <2> QED BY <2>3, <2>4, <2>5, <2>6
<1>9. ASSUME NEW i \in 1..Len(collection')
      PROVE  IF Done(i)' THEN Kept(collection[i])' ELSE Absent(collection[i])'
  <2>1. i \in 1..Len(collection) BY <1>0
  <2>2. IF Done(i) THEN Kept(collection[i]) ELSE Absent(collection[i])
    BY <1>0, <2>1 DEF CInv, Constructing
  <2>3. collection' = collection BY <1>0
  <2>4. PICK s : s = collection[i] OBVIOUS
  <2>5. collection'[i] = s BY <2>3, <2>4
  <2>6. (Kept(s) => Kept(s)') /\ (Absent(s) => Absent(s)')
    BY <1>0, KeptStays, AbsentStays
  <2> QED BY <1>8, <2>1, <2>2, <2>4, <2>5, <2>6
<1>10. Constructing'
  <2>1. /\ Simple(collection') /\ \A r \in rows' : In(r, collection')
        /\ \A i \in 1..Len(collection') : collection'[i] \in rows'
    BY <1>0 DEF CInv, Constructing
  <2>2. \A r \in Rows \ rows' : Absent(r)'
    BY <1>0, AbsentStays DEF CInv, Constructing
  <2> QED BY <1>6, <1>7, <1>9, <2>1, <2>2 DEF Constructing
<1> QED BY <1>0, <1>4, <1>10 DEF CInv, Sinking, Ready

LEMMA ConstructChunkStep ==
    ASSUME CInv, NEW t \in Threads, ConstructChunk(t) PROVE CInv'
<1>a. PICK n : n = chunk[t] OBVIOUS
<1>b. PICK r : r = collection[n] OBVIOUS
<1>0. /\ phase = "construct" /\ n # NoChunk /\ Construct(r)
      /\ chunk' = [chunk EXCEPT ![t] = NoChunk]
      /\ UNCHANGED <<kind, table, rows, unread, local, combined, collection, phase,
                     pos, centroids>>
  BY <1>a, <1>b DEF ConstructChunk
<1>1. Types BY DEF CInv
<1>2. /\ Simple(collection) /\ \A s \in rows : In(s, collection)
      /\ \A i \in 1..Len(collection) : collection[i] \in rows
      /\ \A u \in Threads : chunk[u] <= pos
      /\ \A u, w \in Threads : u # w /\ chunk[u] # NoChunk => chunk[u] # chunk[w]
      /\ \A i \in 1..Len(collection) :
           IF Done(i) THEN Kept(collection[i]) ELSE Absent(collection[i])
      /\ \A s \in Rows \ rows : Absent(s)
  BY <1>0 DEF CInv, Constructing
<1>3. n \in 1..Len(collection) /\ n <= pos
  <2>1. n \in Nat /\ pos \in Nat /\ Len(collection) \in Nat /\ pos <= Len(collection)
    BY <1>1, <1>a DEF Types
  <2>2. n <= pos BY <1>2, <1>a
  <2>3. n # 0 BY <1>0 DEF NoChunk
  <2> QED BY <2>1, <2>2, <2>3
<1>4. r \in rows /\ r \in Rows BY <1>1, <1>2, <1>3, <1>b DEF Types
<1>5. Absent(r)
  <2>1. ~Done(n) BY <1>a DEF Done
  <2> QED BY <1>2, <1>3, <1>b, <2>1
<1>6. /\ postings' \in [Cells -> Seq(Entry)]
      /\ rowCell' \in [Rows -> Cells \cup {NoCell}] /\ tombstones' \subseteq Rows
      /\ Kept(r)'
      /\ \A s \in Rows \ {r} : (Absent(s) => Absent(s)') /\ (Kept(s) => Kept(s)')
  BY <1>0, <1>1, <1>4, <1>5, ConstructStep
<1>7. /\ chunk'[t] = NoChunk /\ \A u \in Threads : u # t => chunk'[u] = chunk[u]
  BY <1>0, <1>1 DEF Types
<1>8. Types'
  <2>1. chunk' \in [Threads -> Nat] BY <1>0, <1>1 DEF Types, NoChunk
  <2> QED BY <1>0, <1>1, <1>6, <2>1 DEF Types
<1>9. \A u \in Threads : chunk'[u] <= pos'
  <2>1. 0 <= pos BY <1>1 DEF Types
  <2> QED BY <1>0, <1>2, <1>7, <2>1 DEF NoChunk
<1>10. \A u, w \in Threads : u # w /\ chunk'[u] # NoChunk => chunk'[u] # chunk'[w]
  <2> SUFFICES ASSUME NEW u \in Threads, NEW w \in Threads, u # w, chunk'[u] # NoChunk
               PROVE  chunk'[u] # chunk'[w]
    OBVIOUS
  <2>1. u # t BY <1>7
  <2> QED BY <1>2, <1>7, <2>1
<1>11. ASSUME NEW i \in 1..Len(collection')
       PROVE  IF Done(i)' THEN Kept(collection[i])' ELSE Absent(collection[i])'
  <2>1. i \in 1..Len(collection) /\ collection' = collection BY <1>0
  <2>2. collection[i] \in Rows BY <1>1, <2>1 DEF Types
  <2>3. CASE i = n
    <3>1. Done(i)'
      <4>1. \A u \in Threads : chunk'[u] # n
        <5> TAKE u \in Threads
        <5>1. CASE u = t BY <1>0, <1>7, <5>1
        <5>2. CASE u # t BY <1>0, <1>2, <1>7, <1>a, <5>2
        <5> QED BY <5>1, <5>2
      <4> QED BY <1>0, <1>3, <2>3, <4>1 DEF Done
    <3>2. collection'[i] = r BY <1>b, <2>1, <2>3
    <3> QED BY <1>6, <3>1, <3>2
  <2>4. CASE i # n
    <3>1. Done(i)' <=> Done(i)
      <4>1. i # NoChunk BY <2>1 DEF NoChunk
      <4>2. \A u \in Threads : chunk'[u] # i <=> chunk[u] # i
        BY <1>7, <1>a, <2>4, <4>1
      <4> QED BY <1>0, <4>2 DEF Done
    <3>2. collection[i] # r BY <1>2, <1>3, <1>b, <2>1, <2>4 DEF Simple
    <3>3. collection[i] \in Rows \ {r} BY <2>2, <3>2
    <3>4. PICK s \in Rows \ {r} : s = collection[i] BY <3>3
    <3>5. (Absent(s) => Absent(s)') /\ (Kept(s) => Kept(s)') BY <1>6
    <3>6. IF Done(i) THEN Kept(s) ELSE Absent(s) BY <1>2, <2>1, <3>4
    <3>7. collection'[i] = s BY <2>1, <3>4
    <3> QED BY <3>1, <3>5, <3>6, <3>7
  <2> QED BY <2>3, <2>4
<1>12. Constructing'
  <2>1. /\ Simple(collection') /\ \A s \in rows' : In(s, collection')
        /\ \A i \in 1..Len(collection') : collection'[i] \in rows'
    BY <1>0, <1>2
  <2>2. \A s \in Rows \ rows' : Absent(s)'
    <3> TAKE s \in Rows \ rows'
    <3>1. Absent(s) /\ s \in Rows \ {r} BY <1>0, <1>2, <1>4
    <3> QED BY <1>6, <3>1
  <2> QED BY <1>9, <1>10, <1>11, <2>1, <2>2 DEF Constructing
<1> QED BY <1>0, <1>8, <1>12 DEF CInv, Sinking, Ready

LEMMA FinishEventStep == ASSUME CInv, FinishEvent PROVE CInv'
<1>0. /\ phase = "construct" /\ pos = Len(collection)
      /\ \A t \in Threads : chunk[t] = NoChunk
      /\ phase' = "ready" /\ collection' = <<>> /\ pos' = 0 /\ combined' = {}
      /\ UNCHANGED <<kind, table, rows, unread, local, chunk, centroids,
                     postings, rowCell, tombstones>>
  BY DEF FinishEvent, index
<1>1. Types BY DEF CInv
<1>2. Types'
  <2>1. collection' \in Seq(Rows) /\ pos' \in 0..Len(collection')
    <3>1. <<>> \in Seq(Rows) /\ Len(<<>>) = 0 OBVIOUS
    <3> QED BY <1>0, <3>1
  <2> QED BY <1>0, <1>1, <2>1 DEF Types
<1>3. \A r \in rows : Kept(r)
  <2> TAKE r \in rows
  <2>1. PICK i \in 1..Len(collection) : collection[i] = r
    BY <1>0 DEF CInv, Constructing, In
  <2>2. Done(i)
    <3>1. i # NoChunk BY <2>1 DEF NoChunk
    <3>2. i <= pos BY <1>0, <2>1
    <3> QED BY <1>0, <3>1, <3>2 DEF Done
  <2> QED BY <1>0, <2>1, <2>2 DEF CInv, Constructing
<1>4. Ready'
  <2>1. \A r \in rows : Kept(r)' BY <1>0, <1>3, KeptStays
  <2>2. \A r \in Rows \ rows : Absent(r)'
    BY <1>0, AbsentStays DEF CInv, Constructing
  <2> QED BY <1>0, <2>1, <2>2 DEF Ready
<1> QED BY <1>0, <1>2, <1>4 DEF CInv, Sinking, Constructing

-----------------------------------------------------------------------------
(* The steps of the index in use.                                          *)

LEMMA AppendRowStep == ASSUME CInv, NEW r \in Rows, AppendRow(r) PROVE CInv'
<1>0. /\ phase = "ready" /\ rows # Rows /\ r = Min(Rows \ rows)
      /\ rows' = rows \cup {r} /\ Construct(r)
      /\ UNCHANGED <<kind, table, unread, local, combined, collection, pos, chunk,
                     phase, centroids>>
  BY DEF AppendRow, build
<1>1. Types BY DEF CInv
<1>2. r \in Rows \ rows
  <2>1. Rows \ rows \in SUBSET Rows /\ Rows \ rows # {} BY <1>0, <1>1 DEF Types
  <2> QED BY <1>0, <2>1, LeastRow
<1>3. Absent(r) BY <1>0, <1>2 DEF CInv, Ready
<1>4. /\ postings' \in [Cells -> Seq(Entry)]
      /\ rowCell' \in [Rows -> Cells \cup {NoCell}] /\ tombstones' \subseteq Rows
      /\ Kept(r)'
      /\ \A s \in Rows \ {r} : (Absent(s) => Absent(s)') /\ (Kept(s) => Kept(s)')
  BY <1>0, <1>1, <1>3, ConstructStep
<1>5. Types'
  <2>1. rows' \subseteq Rows /\ unread' \subseteq rows' BY <1>0, <1>1 DEF Types
  <2> QED BY <1>0, <1>1, <1>4, <2>1 DEF Types
<1>6. Ready'
  <2>1. ASSUME NEW s \in rows' PROVE Kept(s)'
    <3>1. CASE s = r BY <1>4, <3>1
    <3>2. CASE s # r
      <4>1. s \in rows /\ s \in Rows \ {r} BY <1>0, <1>1, <3>2 DEF Types
      <4>2. Kept(s) BY <1>0, <4>1 DEF CInv, Ready
      <4> QED BY <1>4, <4>1, <4>2
    <3> QED BY <3>1, <3>2
  <2>2. ASSUME NEW s \in Rows \ rows' PROVE Absent(s)'
    <3>1. s \in Rows \ rows /\ s \in Rows \ {r} BY <1>0
    <3>2. Absent(s) BY <1>0, <3>1 DEF CInv, Ready
    <3> QED BY <1>4, <3>1, <3>2
  <2> QED BY <2>1, <2>2 DEF Ready
<1> QED BY <1>0, <1>5, <1>6 DEF CInv, Sinking, Constructing

LEMMA DeleteRowStep == ASSUME CInv, NEW r \in Rows, DeleteRow(r) PROVE CInv'
<1>0. /\ phase = "ready" /\ tombstones' = tombstones \cup {r}
      /\ UNCHANGED <<kind, table, rows, unread, local, combined, collection, pos, chunk,
                     phase, centroids, postings, rowCell>>
  BY DEF DeleteRow, build
<1>1. Types' BY <1>0 DEF CInv, Types
<1>2. Ready' BY <1>0, KeptStays, AbsentStays DEF CInv, Ready
<1> QED BY <1>0, <1>1, <1>2 DEF CInv, Sinking, Constructing

LEMMA StutterStep == ASSUME CInv, UNCHANGED vars PROVE CInv'
<1>0. UNCHANGED <<kind, table, rows, unread, local, combined, collection, pos, chunk,
                  phase, centroids, postings, rowCell, tombstones>>
  BY DEF vars, build, index
<1>1. Types' BY <1>0 DEF CInv, Types
<1>2. Sinking'
  BY <1>0, AbsentStays DEF CInv, Sinking, Delivered, OnePlace, Combining
<1>3. Constructing'
  BY <1>0, KeptStays, AbsentStays DEF CInv, Constructing, Done
<1>4. Ready' BY <1>0, KeptStays, AbsentStays DEF CInv, Ready
<1> QED BY <1>1, <1>2, <1>3, <1>4 DEF CInv

LEMMA NextStep == ASSUME CInv, [Next]_vars PROVE CInv'
<1>1. CASE Next
  BY <1>1, SinkStep, CombineStep, ScanChunkStep, ConstructChunkStep, FinalizeStep,
     FinishEventStep, AppendRowStep, DeleteRowStep DEF Next
<1> QED BY <1>1, StutterStep

LEMMA InvHolds == Spec => []CInv
<1>1. Init => CInv BY InitHolds
<1>2. CInv /\ [Next]_vars => CInv' BY NextStep
<1> QED BY <1>1, <1>2, PTL DEF Spec

-----------------------------------------------------------------------------
(* What follows.                                                           *)

LEMMA CellsOfHeld ==
    ASSUME NEW r, NEW q, HeldIn(r, q)
    PROVE  \A c : c \in CellsOf(r) <=> c \in Cells /\ In(c, q)
<1> SUFFICES ASSUME NEW c \in Cells PROVE c \in CellsOf(r) <=> In(c, q)
  BY DEF CellsOf
<1>1. c \in CellsOf(r) <=> Places(c, r) # {}
  BY DEF CellsOf, Places, ToSet
<1>2. Contains(q, c) <=> In(c, q) BY DEF Contains, In
<1>3. IF Contains(q, c) THEN \E i : Places(c, r) = {i} ELSE Places(c, r) = {}
  BY DEF HeldIn
<1> QED BY <1>1, <1>2, <1>3

(* The elements of a sequence are no more than it is long.                 *)
LEMMA FewElements ==
    ASSUME NEW E, NEW q \in Seq(E)
    PROVE  LET S == {q[i] : i \in 1..Len(q)}
           IN  IsFiniteSet(S) /\ Cardinality(S) <= Len(q)
<1> DEFINE n == Len(q)
           S == {q[i] : i \in 1..n}
           f == [i \in 1..n |-> q[i]]
<1>1. n \in Nat OBVIOUS
<1>2. IsFiniteSet(1..n) /\ Cardinality(1..n) = n
  <2> HIDE DEF n
  <2>1. 1 \in Int /\ n \in Int BY <1>1
  <2>2. IsFiniteSet(1..n) /\ Cardinality(1..n) = IF 1 > n THEN 0 ELSE n - 1 + 1
    BY <2>1, FS_Interval
  <2> QED BY <1>1, <2>2
<1>3. f \in Surjection(1..n, S) BY DEF Surjection
<1> HIDE DEF f, S, n
<1>4. IsFiniteSet(S) /\ Cardinality(S) <= Cardinality(1..n) BY <1>2, <1>3, FS_Surjection
<1> QED BY <1>2, <1>4 DEF S, n

LEMMA CellsOfAbsent == ASSUME NEW r, Absent(r) PROVE CellsOf(r) = {}
BY DEF CellsOf, Absent, Places, ToSet

(* In the finished index every row of the table with a vector has been     *)
(* stored, once in each of its cells and in no more cells than its kind    *)
(* allows (ConstructIvf's and ConstructSpann's pipelines), whatever the    *)
(* order in which threads and tasks go.                                    *)
THEOREM NoRowIsLost == Spec => []EveryRowStored
<1>1. CInv => EveryRowStored
  <2> SUFFICES ASSUME CInv, phase = "ready", NEW r \in rows
               PROVE  IF table[r] = Null THEN CellsOf(r) = {} /\ rowCell[r] = NoCell
                      ELSE /\ rowCell[r] \in CellsOf(r)
                           /\ Cardinality(CellsOf(r))
                                <= IF kind = "ivf" THEN 1 ELSE ReplicaCount
                           /\ \A c \in CellsOf(r) :
                                Cardinality({i \in 1..Len(postings[c]) :
                                               postings[c][i].row = r}) = 1
    BY DEF EveryRowStored
  <2>1. Kept(r) BY DEF CInv, Ready
  <2>2. CASE table[r] = Null
    <3>1. Absent(r) BY <2>1, <2>2 DEF Kept
    <3> QED BY <2>2, <3>1, CellsOfAbsent DEF Absent
  <2>3. CASE table[r] # Null
    <3>1. PICK q : HeldIn(r, q) BY <2>1, <2>3 DEF Kept, Held
    <3>2. \A c : c \in CellsOf(r) <=> c \in Cells /\ In(c, q) BY <3>1, CellsOfHeld
    <3>3. /\ q \in Seq(Cells) /\ Len(q) \in Nat \ {0}
          /\ Len(q) <= IF kind = "ivf" THEN 1 ELSE ReplicaCount
          /\ rowCell[r] = q[1]
          /\ \A c \in Cells : IF Contains(q, c) THEN \E i : Places(c, r) = {i}
                              ELSE Places(c, r) = {}
      BY <3>1 DEF HeldIn
    <3>4. rowCell[r] \in CellsOf(r)
      <4>1. 1 \in 1..Len(q) BY <3>3
      <4>2. q[1] \in Cells BY <3>3, <4>1
      <4> QED BY <3>2, <3>3, <4>1, <4>2 DEF In
    <3>5. Cardinality(CellsOf(r)) <= Len(q)
      <4> DEFINE S == {q[i] : i \in 1..Len(q)}
      <4>1. Cardinality(S) <= Len(q) BY <3>3, FewElements
      <4>2. \A i \in 1..Len(q) : q[i] \in Cells BY <3>3
      <4>3. CellsOf(r) = S BY <3>2, <4>2 DEF In
      <4> QED BY <4>1, <4>3
    <3>6. ASSUME NEW c \in CellsOf(r)
          PROVE  Cardinality({i \in 1..Len(postings[c]) : postings[c][i].row = r}) = 1
      <4>1. c \in Cells /\ Contains(q, c) BY <3>2 DEF In, Contains
      <4>2. PICK i : Places(c, r) = {i} BY <3>3, <4>1
      <4> QED BY <4>2, FS_Singleton DEF Places
    <3>7. Cardinality(CellsOf(r)) <= IF kind = "ivf" THEN 1 ELSE ReplicaCount
      <4>1. \A i \in 1..Len(q) : q[i] \in Cells BY <3>3
      <4>2. CellsOf(r) = {q[i] : i \in 1..Len(q)} BY <3>2, <4>1 DEF In
      <4>3. IsFiniteSet(CellsOf(r)) BY <3>3, <4>2, FewElements
      <4>4. Cardinality(CellsOf(r)) \in Nat BY <4>3, FS_CardinalityType
      <4>5. CASE kind = "ivf" BY <3>3, <3>5, <4>4, <4>5
      <4>6. CASE kind # "ivf"
        <5>1. ReplicaCount \in Nat BY PostingAssumption, KMeansAssumption
        <5> QED BY <3>3, <3>5, <4>4, <4>6, <5>1
      <4> QED BY <4>5, <4>6
    <3> QED BY <2>3, <3>4, <3>6, <3>7
  <2> QED BY <2>2, <2>3
<1> QED BY <1>1, InvHolds, PTL

(* SPANN stores a vector in the cell IVF would choose, however ties fall:  *)
(* at every moment, also while the tasks build.                            *)
THEOREM SpannKeepsTheIvfCell == Spec => []IvfCellKept
<1>1. CInv => IvfCellKept
  <2> SUFFICES ASSUME CInv, NEW r \in Live
               PROVE  AssignCentroid(table[r], centroids) \in CellsOf(r)
    BY DEF IvfCellKept
  <2>1. r \in Rows /\ ~Absent(r) BY DEF Live, Absent
  <2>2. phase \in {"sink", "construct", "ready"} BY DEF CInv, Types
  <2>3. Kept(r)
    <3>1. CASE phase = "sink" BY <2>1, <3>1 DEF CInv, Sinking
    <3>2. CASE phase = "construct"
      <4>1. r \in rows BY <2>1, <3>2 DEF CInv, Constructing
      <4>2. PICK i \in 1..Len(collection) : collection[i] = r
        BY <3>2, <4>1 DEF CInv, Constructing, In
      <4> QED BY <2>1, <3>2, <4>2 DEF CInv, Constructing
    <3>3. CASE phase = "ready" BY <2>1, <3>3 DEF CInv, Ready
    <3> QED BY <2>2, <3>1, <3>2, <3>3
  <2>4. PICK q : HeldIn(r, q) BY <2>1, <2>3 DEF Kept, Held
  <2>5. PICK i \in 1..Len(q) : q[i] = AssignCentroid(table[r], centroids)
    BY <2>4 DEF HeldIn
  <2>6. q[i] \in Cells BY <2>4 DEF HeldIn
  <2> QED BY <2>4, <2>5, <2>6, CellsOfHeld DEF In
<1> QED BY <1>1, InvHolds, PTL

-----------------------------------------------------------------------------
(* As many are kept as there is room for, and none is left out for a worse *)
(* one.                                                                    *)
LEMMA KeepBest ==
    ASSUME NEW d, NEW n \in Nat, Len(d) = n, \A e \in 1 .. n : d[e] \in Int,
           NEW cap \in Nat \ {0}, NEW S \in Keep(d, cap)
    PROVE  /\ S \subseteq 1 .. n /\ IsFiniteSet(S)
           /\ Cardinality(S) = IF n <= cap THEN n ELSE cap
           /\ n <= cap => S = 1 .. n
           /\ \A s \in S, i \in (1 .. n) \ S : d[s] <= d[i]
<1> DEFINE Sound(k, T) == /\ T \subseteq 1 .. k
                          /\ Cardinality(T) = IF k <= cap THEN k ELSE cap
                          /\ \A s \in T, i \in (1 .. k) \ T : d[s] <= d[i]
           P == [k \in 0 .. n |-> {T \in SUBSET (1 .. n) : Sound(k, T)}]
<1>0. ASSUME NEW k \in Nat PROVE IsFiniteSet(1 .. k) /\ Cardinality(1 .. k) = k
  <2>1. 1 \in Int /\ k \in Int OBVIOUS
  <2>2. IsFiniteSet(1 .. k) /\ Cardinality(1 .. k) = IF 1 > k THEN 0 ELSE k - 1 + 1
    BY <2>1, FS_Interval
  <2> QED BY <2>2
<1>1. ASSUME NEW k \in 1 .. n, NEW T, Sound(k - 1, T), NEW U \in Grown(d, cap, k, T)
      PROVE  Sound(k, U)
  <2> DEFINE j == k - 1
  <2>1. j \in Nat /\ k = j + 1 /\ k \in Nat /\ cap \in Nat \ {0} OBVIOUS
  <2>2. /\ T \subseteq 1 .. j /\ Cardinality(T) = IF j <= cap THEN j ELSE cap
        /\ \A s \in T, i \in (1 .. j) \ T : d[s] <= d[i]
    BY <1>1
  <2> HIDE DEF j, Sound, P
  <2>3. /\ k \notin T /\ IsFiniteSet(T) /\ Cardinality(T) \in Nat /\ T \subseteq 1 .. k
        /\ \A i \in 1 .. k : i \in 1 .. j \/ i = k
        /\ \A i \in 1 .. k : d[i] \in Int
    <3>1. IsFiniteSet(T) BY <1>0, <2>1, <2>2, FS_Subset
    <3>2. k \notin 1 .. j /\ 1 .. j \subseteq 1 .. k BY <2>1
    <3>3. \A i \in 1 .. k : i \in 1 .. n BY <2>1
    <3> QED BY <2>1, <2>2, <3>1, <3>2, <3>3, FS_CardinalityType
  <2>4. CASE Cardinality(T) < cap
    <3>1. U = T \cup {k} BY <1>1, <2>4 DEF Grown
    <3>2. j < cap /\ Cardinality(T) = j BY <2>1, <2>2, <2>4
    <3>3. T = 1 .. j
      <4>1. Cardinality(T) = Cardinality(1 .. j) BY <1>0, <2>1, <3>2
      <4>2. IsFiniteSet(1 .. j) BY <1>0, <2>1
      <4> QED BY <2>2, <4>1, <4>2, FS_Subset
    <3>4. U = 1 .. k BY <2>1, <3>1, <3>3
    <3>5. Cardinality(U) = IF k <= cap THEN k ELSE cap
      <4>1. Cardinality(U) = k BY <1>0, <2>1, <3>4
      <4>2. k <= cap BY <2>1, <3>2
      <4> QED BY <4>1, <4>2
    <3> QED BY <3>4, <3>5 DEF Sound
  <2>5. CASE ~(Cardinality(T) < cap)
    <3>1. Cardinality(T) = cap /\ Cardinality(T) = IF k <= cap THEN k ELSE cap
      BY <2>1, <2>2, <2>5
    <3>2. CASE Beats(d, k, T)
      <4>1. PICK w \in Worst(d, T) : U = (T \ {w}) \cup {k}
        <5>1. U \in {(T \ {w}) \cup {k} : w \in Worst(d, T)} BY <1>1, <2>5, <3>2 DEF Grown
        <5> QED BY <5>1
      <4>2. w \in T /\ \A t \in T : d[t] <= d[w] BY DEF Worst
      <4>3. PICK t \in T : d[k] < d[t] BY <3>2 DEF Beats
      <4>4. Cardinality(U) = Cardinality(T)
        <5>1. IsFiniteSet(T \ {w}) /\ Cardinality(T \ {w}) = Cardinality(T) - 1
          BY <2>3, <4>2, FS_RemoveElement
        <5>2. k \notin T \ {w} BY <2>3
        <5>3. Cardinality((T \ {w}) \cup {k}) = Cardinality(T \ {w}) + 1
          BY <5>1, <5>2, FS_AddElement
        <5> QED BY <2>3, <4>1, <5>1, <5>3
      <4>5. U \subseteq 1 .. k
        <5>1. \A x \in U : x \in T \/ x = k BY <4>1
        <5>2. k \in 1 .. k OBVIOUS
        <5> QED BY <2>3, <5>1, <5>2
      <4>6. ASSUME NEW s \in U, NEW i \in (1 .. k) \ U PROVE d[s] <= d[i]
        <5>1. /\ s = k \/ s \in T
              /\ i = w \/ i \in (1 .. j) \ T
          BY <2>3, <4>1
        <5>2. /\ t \in 1 .. k /\ w \in 1 .. k /\ s \in 1 .. k /\ i \in 1 .. k
              /\ d[k] \in Int /\ d[t] \in Int /\ d[w] \in Int /\ d[s] \in Int /\ d[i] \in Int
          BY <2>3, <4>2, <4>5
        <5>3. d[t] <= d[i] BY <2>2, <4>2, <5>1
        <5>4. CASE s = k BY <4>3, <5>2, <5>3, <5>4
        <5>5. CASE s \in T BY <2>2, <4>2, <5>1, <5>5
        <5> QED BY <5>1, <5>4, <5>5
      <4> QED BY <3>1, <4>4, <4>5, <4>6 DEF Sound
    <3>3. CASE ~Beats(d, k, T)
      <4>1. U = T BY <1>1, <2>5, <3>3 DEF Grown
      <4>2. ASSUME NEW s \in T, NEW i \in (1 .. k) \ T PROVE d[s] <= d[i]
        <5>1. CASE i \in 1 .. j BY <2>2, <5>1
        <5>2. CASE i = k
          <6>1. ~(d[k] < d[s]) BY <3>3 DEF Beats
          <6>2. d[k] \in Int /\ d[s] \in Int BY <2>3, <5>2
          <6> QED BY <5>2, <6>1, <6>2
        <5> QED BY <2>3, <5>1, <5>2
      <4> QED BY <2>3, <3>1, <4>1, <4>2 DEF Sound
    <3> QED BY <3>2, <3>3
  <2> QED BY <2>4, <2>5
<1> HIDE DEF Sound
<1>2. {} \in P[0]
  <2>1. Cardinality({}) = 0 BY FS_EmptySet
  <2>2. 0 <= cap OBVIOUS
  <2>3. Sound(0, {}) BY <2>1, <2>2 DEF Sound
  <2>4. 0 \in 0 .. n OBVIOUS
  <2> QED BY <2>3, <2>4
<1>3. ASSUME NEW k \in 1 .. n, NEW T \in P[k - 1], NEW U \in Grown(d, cap, k, T)
      PROVE  U \in P[k]
  <2>1. k - 1 \in 0 .. n /\ k \in 0 .. n OBVIOUS
  <2>2. Sound(k - 1, T) BY <2>1
  <2>3. Sound(k, U) BY <1>1, <2>2
  <2>4. U \subseteq 1 .. k /\ 1 .. k \subseteq 1 .. n BY <2>3 DEF Sound
  <2> QED BY <2>1, <2>3, <2>4
<1>4. P \in [0 .. n -> SUBSET SUBSET (1 .. n)] OBVIOUS
<1>5. P[n] = {T \in SUBSET (1 .. n) : Sound(n, T)}
  <2>1. n \in 0 .. n OBVIOUS
  <2> QED BY <2>1
<1> HIDE DEF P
<1>6. S \in P[n] BY <1>2, <1>3, <1>4, KeepInduction
<1>7. /\ S \subseteq 1 .. n /\ Cardinality(S) = IF n <= cap THEN n ELSE cap
      /\ \A s \in S, i \in (1 .. n) \ S : d[s] <= d[i]
  BY <1>5, <1>6 DEF Sound
<1>8. IsFiniteSet(1 .. n) /\ Cardinality(1 .. n) = n BY <1>0
<1>9. IsFiniteSet(S) BY <1>7, <1>8, FS_Subset
<1>10. n <= cap => S = 1 .. n BY <1>7, <1>8, FS_Subset
<1> QED BY <1>7, <1>9, <1>10

-----------------------------------------------------------------------------
(* A sequence of sequences, one after another.                             *)

Slots(n, ss) == {c \in (1 .. n) \X Nat : c[2] \in 1 .. Len(ss[c[1]])}

(* The places of s are those of the first n of ss.                         *)
Laid(at, s, n, ss) ==
    /\ at \in [1 .. Len(s) -> Slots(n, ss)]
    /\ \A i \in 1 .. Len(s) : s[i] = ss[at[i][1]][at[i][2]]
    /\ \A i, j \in 1 .. Len(s) : i # j => at[i] # at[j]
    /\ \A c \in Slots(n, ss) : \E i \in 1 .. Len(s) : at[i] = c

LEMMA LaidOneMore ==
    ASSUME NEW E, NEW n \in Nat, NEW ss, NEW s \in Seq(E), NEW at, Laid(at, s, n, ss),
           ss[n + 1] \in Seq(E)
    PROVE  \E to : Laid(to, s \o ss[n + 1], n + 1, ss)
<1> DEFINE m == n + 1
           t == ss[m]
           u == s \o t
           l == Len(s)
           to == [i \in 1 .. Len(u) |-> IF i <= l THEN at[i] ELSE <<m, i - l>>]
<1>1. /\ u \in Seq(E) /\ l \in Nat /\ Len(t) \in Nat /\ Len(u) = l + Len(t)
      /\ \A i \in 1 .. l : u[i] = s[i]
      /\ \A i \in 1 .. Len(t) : u[l + i] = t[i]
  BY ConcatPlaces
<1>2. m \in Nat /\ m \notin 1 .. n /\ m \in 1 .. m /\ 1 .. n \subseteq 1 .. m OBVIOUS
<1>3. /\ at \in [1 .. l -> Slots(n, ss)]
      /\ \A i \in 1 .. l : s[i] = ss[at[i][1]][at[i][2]]
      /\ \A i, j \in 1 .. l : i # j => at[i] # at[j]
      /\ \A c \in Slots(n, ss) : \E i \in 1 .. l : at[i] = c
  BY DEF Laid
<1> HIDE DEF l
<1>4. /\ \A c \in Slots(n, ss) : c \in Slots(m, ss) /\ c[1] # m
      /\ \A p \in 1 .. Len(t) : <<m, p>> \in Slots(m, ss)
      /\ \A c \in Slots(m, ss) :
           c \in Slots(n, ss) \/ \E p \in 1 .. Len(t) : c = <<m, p>>
  <2>1. \A p \in 1 .. Len(t) : p \in Nat OBVIOUS
  <2>2. \A a \in 1 .. m : a \in 1 .. n \/ a = m OBVIOUS
  <2> QED BY <1>2, <2>1, <2>2 DEF Slots
<1> HIDE DEF m, t, u
<1>5. \A i \in 1 .. Len(u) :
        \/ i \in 1 .. l /\ to[i] = at[i] /\ u[i] = s[i]
        \/ /\ i \notin 1 .. l /\ i - l \in 1 .. Len(t) /\ to[i] = <<m, i - l>>
           /\ u[i] = t[i - l]
  <2> TAKE i \in 1 .. Len(u)
  <2>1. CASE i <= l
    <3>1. i \in 1 .. l BY <1>1, <2>1
    <3> QED BY <1>1, <2>1, <3>1
  <2>2. CASE ~(i <= l)
    <3>1. i \notin 1 .. l /\ i - l \in 1 .. Len(t) /\ i = l + (i - l) BY <1>1, <2>2
    <3>2. u[i] = t[i - l] BY <1>1, <3>1
    <3> QED BY <2>2, <3>1, <3>2
  <2> QED BY <2>1, <2>2
<1>6. /\ \A i \in 1 .. l : i \in 1 .. Len(u) /\ to[i] = at[i]
      /\ \A p \in 1 .. Len(t) : l + p \in 1 .. Len(u) /\ to[l + p] = <<m, p>>
  <2>1. ASSUME NEW i \in 1 .. l PROVE i \in 1 .. Len(u) /\ to[i] = at[i]
    <3>1. i \in 1 .. Len(u) /\ i <= l BY <1>1
    <3> QED BY <3>1
  <2>2. ASSUME NEW p \in 1 .. Len(t) PROVE l + p \in 1 .. Len(u) /\ to[l + p] = <<m, p>>
    <3>1. l + p \in 1 .. Len(u) /\ ~(l + p <= l) /\ (l + p) - l = p BY <1>1
    <3> QED BY <3>1
  <2> QED BY <2>1, <2>2
<1>7. to = [i \in 1 .. Len(u) |-> to[i]] OBVIOUS
<1> HIDE DEF to
<1>8. \A i \in 1 .. Len(u) : to[i] \in Slots(m, ss) /\ u[i] = ss[to[i][1]][to[i][2]]
  <2> TAKE i \in 1 .. Len(u)
  <2>1. CASE i \in 1 .. l
    BY <1>3, <1>4, <1>5, <2>1
  <2>2. CASE i \notin 1 .. l
    <3>1. to[i] = <<m, i - l>> /\ u[i] = t[i - l] /\ i - l \in 1 .. Len(t) BY <1>5, <2>2
    <3> QED BY <1>4, <3>1 DEF t
  <2> QED BY <2>1, <2>2
<1>9. \A i, j \in 1 .. Len(u) : i # j => to[i] # to[j]
  <2> TAKE i \in 1 .. Len(u), j \in 1 .. Len(u)
  <2>1. CASE i \in 1 .. l /\ j \in 1 .. l BY <1>3, <1>5, <2>1
  <2>2. CASE i \in 1 .. l /\ j \notin 1 .. l
    <3>1. to[i] \in Slots(n, ss) /\ to[j] = <<m, j - l>> BY <1>3, <1>5, <2>2
    <3> QED BY <1>4, <3>1
  <2>3. CASE i \notin 1 .. l /\ j \in 1 .. l
    <3>1. to[j] \in Slots(n, ss) /\ to[i] = <<m, i - l>> BY <1>3, <1>5, <2>3
    <3> QED BY <1>4, <3>1
  <2>4. CASE i \notin 1 .. l /\ j \notin 1 .. l
    <3>1. to[i] = <<m, i - l>> /\ to[j] = <<m, j - l>> BY <1>5, <2>4
    <3>2. i # j => i - l # j - l BY <1>1
    <3> QED BY <3>1, <3>2
  <2> QED BY <2>1, <2>2, <2>3, <2>4
<1>10. \A c \in Slots(m, ss) : \E i \in 1 .. Len(u) : to[i] = c
  <2> TAKE c \in Slots(m, ss)
  <2>1. CASE c \in Slots(n, ss)
    <3>1. PICK i \in 1 .. l : at[i] = c BY <1>3, <2>1
    <3> QED BY <1>6, <3>1
  <2>2. CASE \E p \in 1 .. Len(t) : c = <<m, p>> BY <1>6, <2>2
  <2> QED BY <1>4, <2>1, <2>2
<1>11. to \in [1 .. Len(u) -> Slots(m, ss)] BY <1>7, <1>8
<1>12. Laid(to, u, m, ss) BY <1>8, <1>9, <1>10, <1>11 DEF Laid
<1> QED BY <1>12 DEF u, m, t

LEMMA FlattenFacts ==
    ASSUME NEW E, NEW n \in Nat \ {0}, NEW ss \in [1 .. n -> Seq(E)]
    PROVE  /\ FlattenSeq(ss) \in Seq(E)
           /\ \E at : Laid(at, FlattenSeq(ss), n, ss)
<1> DEFINE D == Seq(E)
           Step == [k \in 1 .. n |-> [s \in D |-> s \o ss[k]]]
<1>1. \A k \in 1 .. n, s \in D : s \o ss[k] \in D /\ Step[k][s] = s \o ss[k]
  <2>1. \A s, t \in D : s \o t \in D OBVIOUS
  <2> HIDE DEF D
  <2> QED BY <2>1 DEF D
<1>2. Step \in [1 .. n -> [D -> D]] BY <1>1
<1>3. <<>> \in D OBVIOUS
<1> HIDE DEF D, Step
<1>4. PICK f \in [0 .. n -> D] : Recurs(f, n, <<>>, Step) BY <1>2, <1>3, Recursion
<1>5. /\ f[0] = <<>> /\ \A k \in 1 .. n : f[k] = f[k - 1] \o ss[k]
  <2>1. f = [k \in 0 .. n |-> IF k = 0 THEN <<>> ELSE Step[k][f[k - 1]]] BY <1>4 DEF Recurs
  <2>2. 0 \in 0 .. n OBVIOUS
  <2>3. ASSUME NEW k \in 1 .. n PROVE f[k] = f[k - 1] \o ss[k]
    <3>1. k \in 0 .. n /\ k # 0 /\ k - 1 \in 0 .. n OBVIOUS
    <3>2. f[k] = Step[k][f[k - 1]] BY <2>1, <3>1
    <3>3. f[k - 1] \in D BY <1>4, <3>1
    <3> QED BY <1>1, <3>2, <3>3
  <2> QED BY <2>1, <2>2, <2>3
<1> DEFINE Body(g, i) == IF i = 1 THEN ss[i] ELSE g[i - 1] \o ss[i]
           flatten == CHOOSE g : g = [i \in 1 .. n |-> Body(g, i)]
<1>6. FlattenSeq(ss) = flatten[n]
  <2>1. Len(ss) = n /\ n # 0 OBVIOUS
  <2> QED BY <2>1 DEF FlattenSeq
<1>7. \E g : g = [i \in 1 .. n |-> Body(g, i)]
  <2> DEFINE g == [i \in 1 .. n |-> f[i]]
  <2>1. ASSUME NEW i \in 1 .. n PROVE f[i] = Body(g, i)
    <3>1. CASE i = 1
      <4>1. i \in 1 .. n /\ 1 - 1 = 0 OBVIOUS
      <4>2. f[1] = <<>> \o ss[1] BY <1>5, <3>1, <4>1
      <4>3. <<>> \o ss[1] = ss[1]
        <5>1. ss[1] \in Seq(E) BY <3>1
        <5> QED BY <5>1
      <4> QED BY <3>1, <4>2, <4>3
    <3>2. CASE i # 1
      <4>1. i - 1 \in 1 .. n BY <3>2
      <4>2. g[i - 1] = f[i - 1] BY <4>1
      <4> QED BY <1>5, <3>2, <4>2
    <3> QED BY <3>1, <3>2
  <2>2. g = [i \in 1 .. n |-> Body(g, i)] BY <2>1
  <2> QED BY <2>2
<1>8. flatten = [i \in 1 .. n |-> Body(flatten, i)] BY <1>7
<1> HIDE DEF flatten
<1>9. \A i \in 1 .. n : flatten[i] = Body(flatten, i) BY <1>8
<1> DEFINE Good(k) == /\ flatten[k] \in Seq(E) /\ \E at : Laid(at, flatten[k], k, ss)
           G == {k \in 0 .. n : k = 0 \/ Good(k)}
<1>10. 0 \in G OBVIOUS
<1>11. ASSUME NEW k \in 1 .. n, k - 1 \in G PROVE k \in G
  <2>1. ss[k] \in Seq(E) /\ k \in 0 .. n OBVIOUS
  <2>2. CASE k = 1
    <3>1. flatten[k] = ss[k] BY <1>9, <2>2
    <3> DEFINE at == [i \in 1 .. Len(ss[k]) |-> <<k, i>>]
    <3>2. \A c \in Slots(k, ss) : c[2] \in 1 .. Len(ss[k]) /\ c = <<k, c[2]>>
      BY <2>2 DEF Slots
    <3>3. \A i \in 1 .. Len(ss[k]) : <<k, i>> \in Slots(k, ss)
      <4>1. k \in 1 .. k /\ \A i \in 1 .. Len(ss[k]) : i \in Nat BY <2>1
      <4> QED BY <4>1 DEF Slots
    <3>4. \A i \in 1 .. Len(ss[k]) : at[i] = <<k, i>> OBVIOUS
    <3>5. at \in [1 .. Len(ss[k]) -> Slots(k, ss)] BY <3>3
    <3> HIDE DEF at
    <3>6. Laid(at, flatten[k], k, ss) BY <3>1, <3>2, <3>3, <3>4, <3>5 DEF Laid
    <3> QED BY <2>1, <3>1, <3>6
  <2>3. CASE k # 1
    <3>1. flatten[k] = flatten[k - 1] \o ss[k] BY <1>9, <2>3
    <3>2. Good(k - 1) /\ k - 1 \in Nat /\ (k - 1) + 1 = k BY <1>11, <2>3
    <3>3. PICK at : Laid(at, flatten[k - 1], k - 1, ss) BY <3>2
    <3>4. \E to : Laid(to, flatten[k - 1] \o ss[(k - 1) + 1], (k - 1) + 1, ss)
      <4>1. ss[(k - 1) + 1] \in Seq(E) BY <2>1, <3>2
      <4> QED BY <3>2, <3>3, <4>1, LaidOneMore
    <3>5. flatten[k - 1] \o ss[k] \in Seq(E) BY <2>1, <3>2
    <3>6. Good(k) BY <3>1, <3>2, <3>4, <3>5
    <3> HIDE DEF Good
    <3> QED BY <2>1, <3>6
  <2> QED BY <2>2, <2>3
<1> HIDE DEF G
<1>12. n \in G
  <2>1. n \in Nat /\ n \in 0 .. n OBVIOUS
  <2>2. \A k \in 0 .. n : k \in G BY <1>10, <1>11, <2>1, UpTo
  <2> QED BY <2>1, <2>2
<1> QED BY <1>6, <1>12 DEF G

-----------------------------------------------------------------------------
(* An entry holds its row's vector.                                        *)

StoredTrue ==
    \A c \in Cells : \A i \in 1..Len(postings[c]) :
        postings[c][i].vec = table[postings[c][i].row]

LEMMA ConstructTrue ==
    ASSUME Types, StoredTrue, NEW r \in Rows, Construct(r), UNCHANGED <<kind, table, centroids>>
    PROVE  StoredTrue'
<1>1. CASE table[r] = Null
  <2>1. UNCHANGED postings BY <1>1 DEF Construct, index
  <2> QED BY <2>1 DEF StoredTrue
<1>2. CASE table[r] # Null
  <2> DEFINE entry == [row |-> r, vec |-> table[r]]
  <2>1. PICK cells \in CellsFor(kind, table[r], centroids) :
             postings' = Stored(postings, cells, entry)
    BY <1>2 DEF Construct
  <2>2. table[r] \in Vectors BY <1>2 DEF Types
  <2>3. entry \in Entry /\ entry.row = r /\ entry.vec = table[r] BY <2>2 DEF Entry
  <2> HIDE DEF entry
  <2> SUFFICES ASSUME NEW c \in Cells, NEW i \in 1..Len(postings'[c])
               PROVE  postings'[c][i].vec = table[postings'[c][i].row]
    BY DEF StoredTrue
  <2>4. postings'[c] = IF Contains(cells, c) THEN Append(postings[c], entry) ELSE postings[c]
    BY <2>1 DEF Stored
  <2>5. \A j \in 1..Len(postings[c]) : postings[c][j].vec = table[postings[c][j].row]
    BY DEF StoredTrue
  <2>6. CASE ~Contains(cells, c) BY <2>4, <2>5, <2>6
  <2>7. CASE Contains(cells, c)
    <3> DEFINE p == postings[c]
    <3>1. p \in Seq(Entry) BY DEF Types
    <3>2. postings'[c] = Append(p, entry) BY <2>4, <2>7
    <3>3. /\ Len(p) \in Nat /\ Len(Append(p, entry)) = Len(p) + 1
          /\ \A j \in 1..Len(p) : Append(p, entry)[j] = p[j]
          /\ Append(p, entry)[Len(p) + 1] = entry
      BY <2>3, <3>1, AppendPlaces
    <3>4. i \in 1..Len(p) \/ i = Len(p) + 1 BY <3>2, <3>3
    <3> QED BY <2>3, <2>5, <3>2, <3>3, <3>4
  <2> QED BY <2>6, <2>7
<1> QED BY <1>1, <1>2

LEMMA TrueStep == ASSUME CInv, StoredTrue, [Next]_vars PROVE StoredTrue'
<1>1. CASE UNCHANGED <<postings, table>> BY <1>1 DEF StoredTrue
<1>2. ASSUME NEW t \in Threads, ConstructChunk(t) PROVE StoredTrue'
  <2>1. PICK n : n = chunk[t] OBVIOUS
  <2>2. PICK r : r = collection[n] OBVIOUS
  <2>3. /\ phase = "construct" /\ n # NoChunk /\ Construct(r)
        /\ UNCHANGED <<kind, table, centroids>>
    BY <1>2, <2>1, <2>2 DEF ConstructChunk
  <2>4. r \in Rows
    <3>1. /\ collection \in Seq(Rows) /\ pos \in 0..Len(collection) /\ n \in Nat
          /\ n <= pos
      BY <2>1, <2>3 DEF CInv, Types, Constructing
    <3>2. n \in 1..Len(collection) BY <2>3, <3>1 DEF NoChunk
    <3> QED BY <2>2, <3>1, <3>2
  <2> QED BY <2>3, <2>4, ConstructTrue DEF CInv
<1>3. ASSUME NEW r \in Rows, AppendRow(r) PROVE StoredTrue'
  BY <1>3, ConstructTrue DEF CInv, AppendRow
<1>4. CASE UNCHANGED vars BY <1>1, <1>4 DEF vars, index
<1>5. CASE Next
  <2>1. CASE \E t \in Threads : Sink(t) \/ Combine(t) \/ ScanChunk(t)
    BY <1>1, <2>1 DEF Sink, Combine, ScanChunk, index
  <2>2. CASE Finalize \/ FinishEvent
    BY <1>1, <2>2 DEF Finalize, FinishEvent, index
  <2>3. CASE \E r \in Rows : DeleteRow(r)
    BY <1>1, <2>3 DEF DeleteRow
  <2> QED BY <1>2, <1>3, <1>5, <2>1, <2>2, <2>3 DEF Next
<1> QED BY <1>4, <1>5

AInv == CInv /\ StoredTrue

LEMMA AInvHolds == Spec => []AInv
<1>1. Init => AInv
  <2>1. ASSUME Init PROVE StoredTrue
    <3>1. \A c \in Cells : postings[c] = <<>> BY <2>1 DEF Init
    <3>2. \A i : ~(i \in 1..Len(<<>>)) OBVIOUS
    <3> QED BY <3>1, <3>2 DEF StoredTrue
  <2> QED BY <2>1, InitHolds DEF AInv
<1>2. AInv /\ [Next]_vars => AInv' BY NextStep, TrueStep DEF AInv
<1> QED BY <1>1, <1>2, PTL DEF Spec

-----------------------------------------------------------------------------
(* What the finished index holds.                                          *)

(* The rows in the index, deleted or not.                                  *)
Known == {r \in Rows : rowCell[r] # NoCell}

LEMMA KnownHeld ==
    ASSUME CInv, phase = "ready", NEW r \in Known
    PROVE  \E q : HeldIn(r, q)
<1>1. r \in Rows /\ rowCell[r] # NoCell BY DEF Known
<1>2. ~Absent(r) BY <1>1 DEF Absent
<1>3. Kept(r) BY <1>1, <1>2 DEF CInv, Ready
<1> QED BY <1>2, <1>3 DEF Kept, Held

LEMMA EntryFacts ==
    ASSUME AInv, phase = "ready", NEW c \in Cells, NEW p \in 1..Len(postings[c])
    PROVE  /\ postings[c][p].row \in Known
           /\ postings[c][p].vec = table[postings[c][p].row]
<1> DEFINE r == postings[c][p].row
<1>1. postings[c][p] \in Entry BY DEF AInv, CInv, Types
<1>2. r \in Rows BY <1>1 DEF Entry
<1>3. p \in Places(c, r) BY DEF Places
<1> HIDE DEF r
<1>4. ~Absent(r) BY <1>3 DEF Absent
<1>5. Held(r) BY <1>2, <1>4 DEF AInv, CInv, Ready, Kept
<1>6. PICK q : HeldIn(r, q) BY <1>5 DEF Held
<1>7. q \in Seq(Cells) /\ 1 \in 1..Len(q) /\ rowCell[r] = q[1] BY <1>6 DEF HeldIn
<1>8. q[1] \in Cells BY <1>7
<1>9. rowCell[r] # NoCell BY <1>7, <1>8, KMeansAssumption DEF Cells, NoCell
<1> QED BY <1>2, <1>9 DEF Known, r, AInv, StoredTrue

(* A row is once in each of its lists, and IVF has one.                    *)
LEMMA OncePerList ==
    ASSUME AInv, phase = "ready", NEW b \in Cells, NEW c \in Cells,
           NEW p \in 1..Len(postings[b]), NEW s \in 1..Len(postings[c]),
           postings[b][p].row = postings[c][s].row
    PROVE  /\ b = c => p = s
           /\ kind = "ivf" => b = c
<1> DEFINE r == postings[b][p].row
<1>1. r \in Known BY EntryFacts
<1>2. p \in Places(b, r) /\ s \in Places(c, r) BY DEF Places
<1> HIDE DEF r
<1>3. PICK q : HeldIn(r, q) BY <1>1, KnownHeld DEF AInv
<1>4. /\ Len(q) \in Nat /\ (kind = "ivf" => Len(q) <= 1)
      /\ \A e \in Cells : IF Contains(q, e) THEN \E i : Places(e, r) = {i}
                          ELSE Places(e, r) = {}
  BY <1>3 DEF HeldIn
<1>5. b = c => p = s BY <1>2, <1>4
<1>6. ASSUME kind = "ivf" PROVE b = c
  <2>1. Contains(q, b) /\ Contains(q, c) BY <1>2, <1>4
  <2>2. PICK i, j \in 1..Len(q) : q[i] = b /\ q[j] = c BY <2>1 DEF Contains
  <2>3. i = j BY <1>4, <1>6, <2>2
  <2> QED BY <2>2, <2>3
<1> QED BY <1>5, <1>6

(* The list of the cell that its vector is assigned to has the row.        *)
LEMMA KnownFound ==
    ASSUME AInv, phase = "ready", NEW r \in Known
    PROVE  LET c == AssignCentroid(table[r], centroids)
           IN  c \in Cells /\ \E p \in 1..Len(postings[c]) : postings[c][p].row = r
<1> DEFINE c == AssignCentroid(table[r], centroids)
<1>1. PICK q : HeldIn(r, q) BY KnownHeld DEF AInv
<1>2. PICK i \in 1..Len(q) : q[i] = c BY <1>1 DEF HeldIn
<1>3. c \in Cells /\ Contains(q, c) BY <1>1, <1>2 DEF HeldIn, Contains
<1> HIDE DEF c
<1>4. \E p : Places(c, r) = {p} BY <1>1, <1>3 DEF HeldIn
<1>5. \E p \in 1..Len(postings[c]) : postings[c][p].row = r BY <1>4 DEF Places
<1> QED BY <1>3, <1>5 DEF c

-----------------------------------------------------------------------------
(* What a search goes through.                                             *)

(* Counting the members of a finite set of positions up to each of them    *)
(* numbers the positions from 1 to how many they are.                      *)
LEMMA RanksNumber ==
    ASSUME NEW n \in Nat, NEW S \in SUBSET (1..n)
    PROVE  LET Rank(i) == Cardinality({j \in S : j <= i})
           IN  /\ IsFiniteSet(S) /\ Cardinality(S) \in Nat
               /\ \A i \in S : Rank(i) \in 1..Cardinality(S)
               /\ \A i, k \in S : i # k => Rank(i) # Rank(k)
               /\ \A h \in 1..Cardinality(S) : \E i \in S : Rank(i) = h
<1> DEFINE Rank(i) == Cardinality({j \in S : j <= i})
           m == Cardinality(S)
           f == [i \in S |-> Rank(i)]
<1>1. S \subseteq Int /\ IsFiniteSet(1..n) BY FS_Interval
<1>2. IsFiniteSet(S) BY <1>1, FS_Subset
<1>3. m \in Nat BY <1>2, FS_CardinalityType
<1>4. ASSUME NEW i \in S
      PROVE  IsFiniteSet({j \in S : j <= i}) /\ Rank(i) \in 1..m
  <2>1. {j \in S : j <= i} \in SUBSET S OBVIOUS
  <2>2. IsFiniteSet({j \in S : j <= i}) /\ Rank(i) <= m /\ Rank(i) \in Nat
    BY <1>2, <2>1, FS_Subset, FS_CardinalityType
  <2>3. i \in {j \in S : j <= i} BY <1>1
  <2>4. Rank(i) # 0 BY <2>2, <2>3, FS_EmptySet
  <2> QED BY <1>3, <2>2, <2>4
<1>5. ASSUME NEW i \in S, NEW k \in S, i < k PROVE Rank(i) # Rank(k)
  <2>1. i \in Int /\ k \in Int /\ \A j \in S : j \in Int BY <1>1
  <2>2. \A j \in S : j <= i => j <= k BY <1>5, <2>1
  <2>3. {j \in S : j <= i} \subseteq {j \in S : j <= k} BY <2>2
  <2>4. k \in {j \in S : j <= k} /\ k \notin {j \in S : j <= i} BY <1>5, <2>1
  <2>5. {j \in S : j <= i} # {j \in S : j <= k} BY <2>4
  <2> QED BY <1>4, <2>3, <2>5, FS_Subset
<1> HIDE DEF Rank, m
<1>6. \A i, k \in S : i # k => Rank(i) # Rank(k)
  <2> TAKE i \in S, k \in S
  <2>1. CASE i < k BY <1>5, <2>1
  <2>2. CASE k < i BY <1>5, <2>2
  <2>3. i \in Int /\ k \in Int BY <1>1
  <2> QED BY <2>1, <2>2, <2>3
<1>7. f \in Injection(S, 1..m) BY <1>4, <1>6 DEF Injection, IsInjective
<1>8. IsFiniteSet(1..m) /\ Cardinality(1..m) = m
  <2>1. 1 \in Int /\ m \in Int BY <1>3
  <2>2. IsFiniteSet(1..m) /\ Cardinality(1..m) = IF 1 > m THEN 0 ELSE m - 1 + 1
    BY <2>1, FS_Interval
  <2> QED BY <1>3, <2>2
<1>9. f \in Surjection(S, 1..m) BY <1>7, <1>8, FS_Injection DEF m
<1>10. \A h \in 1..m : \E i \in S : Rank(i) = h BY <1>9 DEF Surjection
<1> QED BY <1>2, <1>3, <1>4, <1>6, <1>10 DEF Rank, m

(* SPANN's seen set lets each row pass once and no row go.                 *)
LEMMA SeenOnce ==
    ASSUME NEW E, NEW raw \in Seq(E), NEW kd, kd # "ivf"
    PROVE  /\ Offered(kd, raw) \in Seq(E)
           /\ \A i \in 1..Len(Offered(kd, raw)) :
                \E j \in 1..Len(raw) : Offered(kd, raw)[i] = raw[j]
           /\ \A i, j \in 1..Len(Offered(kd, raw)) :
                i # j => Offered(kd, raw)[i].row # Offered(kd, raw)[j].row
           /\ \A j \in 1..Len(raw) :
                \E i \in 1..Len(Offered(kd, raw)) : Offered(kd, raw)[i].row = raw[j].row
<1> DEFINE first == {i \in 1..Len(raw) : FirstOfRow(raw, i)}
           Rank(i) == Cardinality({j \in first : j <= i})
           m == Cardinality(first)
           At(h) == CHOOSE i \in first : Rank(i) = h
           e == [h \in 1..m |-> raw[At(h)]]
<1>1. Offered(kd, raw) = e BY DEF Offered
<1>2. first \in SUBSET (1..Len(raw)) /\ Len(raw) \in Nat OBVIOUS
<1>3. \A i \in first : FirstOfRow(raw, i) OBVIOUS
<1>4. \A i \in 1..Len(raw) : FirstOfRow(raw, i) => i \in first OBVIOUS
<1>a. \A i \in first : i \in 1..Len(raw) /\ i \in Nat /\ raw[i] \in E OBVIOUS
<1> HIDE DEF first
<1>5. /\ m \in Nat /\ \A i \in first : Rank(i) \in 1..m
      /\ \A i, k \in first : i # k => Rank(i) # Rank(k)
      /\ \A h \in 1..m : \E i \in first : Rank(i) = h
  BY <1>2, RanksNumber
<1> HIDE DEF m
<1>6. \A h \in 1..m : At(h) \in first /\ Rank(At(h)) = h BY <1>5
<1>7. \A i \in first : At(Rank(i)) = i BY <1>5, <1>6
<1> HIDE DEF Rank, At
<1>8. e \in Seq(E) /\ Len(e) = m /\ \A h \in 1..m : e[h] = raw[At(h)]
  <2>1. \A h \in 1..m : raw[At(h)] \in E BY <1>a, <1>6
  <2>2. e \in [1..m -> E] BY <2>1
  <2> QED BY <1>5, <2>2
<1> HIDE DEF e
<1>9. \A i \in 1..Len(e) : \E j \in 1..Len(raw) : e[i] = raw[j] BY <1>2, <1>6, <1>8
<1>10. ASSUME NEW g \in 1..Len(e), NEW h \in 1..Len(e), g # h PROVE e[g].row # e[h].row
  <2>1. At(g) \in first /\ At(h) \in first /\ At(g) # At(h) BY <1>6, <1>8, <1>10
  <2>2. At(g) \in Nat /\ At(h) \in Nat BY <1>a, <2>1
  <2>3. CASE At(g) < At(h)
    <3>1. At(g) \in 1 .. At(h) - 1 BY <1>2, <2>1, <2>2, <2>3
    <3> QED BY <1>3, <1>8, <2>1, <3>1 DEF FirstOfRow
  <2>4. CASE At(h) < At(g)
    <3>1. At(h) \in 1 .. At(g) - 1 BY <1>2, <2>1, <2>2, <2>4
    <3> QED BY <1>3, <1>8, <2>1, <3>1 DEF FirstOfRow
  <2> QED BY <2>1, <2>2, <2>3, <2>4
<1>11. ASSUME NEW j \in 1..Len(raw) PROVE \E i \in 1..Len(e) : e[i].row = raw[j].row
  <2> DEFINE T == {k \in 1..Len(raw) : raw[k].row = raw[j].row}
  <2>1. PICK k \in T : \A l \in T : k <= l
    <3>1. T \in SUBSET Nat /\ T # {} OBVIOUS
    <3> HIDE DEF T
    <3> QED BY <3>1, LeastNumber
  <2>2. k \in 1..Len(raw) /\ raw[k].row = raw[j].row OBVIOUS
  <2>3. FirstOfRow(raw, k)
    <3> SUFFICES ASSUME NEW l \in 1 .. k - 1, raw[l].row = raw[k].row PROVE FALSE
      BY DEF FirstOfRow
    <3>1. l \in 1..Len(raw) /\ ~(k <= l) BY <1>2, <2>2
    <3>2. l \in T BY <2>2, <3>1
    <3> QED BY <2>1, <3>1, <3>2
  <2>4. k \in first BY <1>4, <2>2, <2>3
  <2>5. Rank(k) \in 1..m /\ At(Rank(k)) = k BY <1>5, <1>7, <2>4
  <2> QED BY <1>8, <2>2, <2>5
<1> QED BY <1>1, <1>9, <1>10, <1>11, <1>8

(* The entries a search of the lists cells compares: each row of these     *)
(* lists, once, with its vector.                                           *)
Compared(e, cells) ==
    /\ e \in Seq(Entry)
    /\ \A i \in 1..Len(e) : e[i].row \in Known /\ e[i].vec = table[e[i].row]
    /\ \A i, j \in 1..Len(e) : i # j => e[i].row # e[j].row
    /\ \A a \in 1..Len(cells) : \A p \in 1..Len(postings[cells[a]]) :
         \E i \in 1..Len(e) : e[i].row = postings[cells[a]][p].row

LEMMA OfferedCompared ==
    ASSUME AInv, phase = "ready", NEW cells \in Seq(Cells), Len(cells) # 0,
           \A a, b \in 1..Len(cells) : a # b => cells[a] # cells[b]
    PROVE  Compared(Offered(kind, Entries(postings, cells)), cells)
<1> DEFINE n == Len(cells)
           ss == [a \in 1..n |-> postings[cells[a]]]
           raw == Entries(postings, cells)
<1>1. n \in Nat \ {0} /\ \A a \in 1..n : cells[a] \in Cells OBVIOUS
<1>2. postings \in [Cells -> Seq(Entry)] BY DEF AInv, CInv, Types
<1>3. /\ ss \in [1..n -> Seq(Entry)]
      /\ \A a \in 1..n : ss[a] = postings[cells[a]]
  BY <1>1, <1>2
<1>4. raw = FlattenSeq(ss) BY DEF Entries
<1>5. \A a, b \in 1..n : a # b => cells[a] # cells[b] OBVIOUS
<1> HIDE DEF n, ss, raw
<1>6. raw \in Seq(Entry) /\ \E at : Laid(at, raw, n, ss) BY <1>1, <1>3, <1>4, FlattenFacts
<1>7. PICK at : Laid(at, raw, n, ss) BY <1>6
<1>8. \A i \in 1..Len(raw) :
        /\ at[i] \in Slots(n, ss) /\ at[i][1] \in 1..n
        /\ cells[at[i][1]] \in Cells
        /\ at[i][2] \in 1..Len(postings[cells[at[i][1]]])
        /\ raw[i] = postings[cells[at[i][1]]][at[i][2]]
  <2> TAKE i \in 1..Len(raw)
  <2>1. at[i] \in Slots(n, ss) /\ raw[i] = ss[at[i][1]][at[i][2]] BY <1>7 DEF Laid
  <2>2. at[i][1] \in 1..n /\ at[i][2] \in 1..Len(ss[at[i][1]]) BY <2>1 DEF Slots
  <2>3. ss[at[i][1]] = postings[cells[at[i][1]]] /\ cells[at[i][1]] \in Cells
    BY <1>1, <1>3, <2>2
  <2> QED BY <2>1, <2>2, <2>3
<1>9. \A i \in 1..Len(raw) : raw[i].row \in Known /\ raw[i].vec = table[raw[i].row]
  <2> TAKE i \in 1..Len(raw)
  <2>1. PICK c \in Cells : \E p \in 1..Len(postings[c]) : raw[i] = postings[c][p] BY <1>8
  <2>2. PICK p \in 1..Len(postings[c]) : raw[i] = postings[c][p] BY <2>1
  <2> QED BY <2>2, EntryFacts
<1>10. ASSUME NEW a \in 1..n, NEW p \in 1..Len(postings[cells[a]])
       PROVE  \E i \in 1..Len(raw) : raw[i] = postings[cells[a]][p]
  <2>1. p \in Nat
    <3>1. cells[a] \in Cells BY <1>1
    <3>2. postings[cells[a]] \in Seq(Entry) BY <1>2, <3>1
    <3> QED BY <3>2
  <2>2. <<a, p>> \in Slots(n, ss) BY <1>3, <2>1 DEF Slots
  <2>3. PICK i \in 1..Len(raw) : at[i] = <<a, p>> BY <1>7, <2>2 DEF Laid
  <2>4. raw[i] = postings[cells[a]][p] BY <1>8, <2>3
  <2> QED BY <2>4
<1>11. CASE kind = "ivf"
  <2>1. Offered(kind, raw) = raw BY <1>11 DEF Offered
  <2>2. ASSUME NEW i \in 1..Len(raw), NEW j \in 1..Len(raw), i # j
        PROVE  raw[i].row # raw[j].row
    <3>1. SUFFICES ASSUME raw[i].row = raw[j].row PROVE FALSE OBVIOUS
    <3>2. PICK a, p : at[i] = <<a, p>> /\ a \in 1..n BY <1>8 DEF Slots
    <3>3. PICK b, s : at[j] = <<b, s>> /\ b \in 1..n BY <1>8 DEF Slots
    <3>4. /\ cells[a] \in Cells /\ p \in 1..Len(postings[cells[a]])
          /\ raw[i] = postings[cells[a]][p]
      BY <1>8, <3>2
    <3>5. /\ cells[b] \in Cells /\ s \in 1..Len(postings[cells[b]])
          /\ raw[j] = postings[cells[b]][s]
      BY <1>8, <3>3
    <3>6. /\ cells[a] = cells[b] => p = s
          /\ cells[a] = cells[b]
      BY <1>11, <3>1, <3>4, <3>5, OncePerList
    <3>7. a = b BY <1>5, <3>2, <3>3, <3>6
    <3>8. at[i] # at[j] BY <1>7, <2>2 DEF Laid
    <3> QED BY <3>2, <3>3, <3>6, <3>7, <3>8
  <2>3. \A a \in 1..n : \A p \in 1..Len(postings[cells[a]]) :
           \E i \in 1..Len(raw) : raw[i].row = postings[cells[a]][p].row
    BY <1>10
  <2> QED BY <1>6, <1>9, <2>1, <2>2, <2>3 DEF Compared, n, raw
<1>12. CASE kind # "ivf"
  <2> DEFINE e == Offered(kind, raw)
  <2>1. /\ e \in Seq(Entry)
        /\ \A i \in 1..Len(e) : \E j \in 1..Len(raw) : e[i] = raw[j]
        /\ \A i, j \in 1..Len(e) : i # j => e[i].row # e[j].row
        /\ \A j \in 1..Len(raw) : \E i \in 1..Len(e) : e[i].row = raw[j].row
    BY <1>6, <1>12, SeenOnce
  <2> HIDE DEF e
  <2>2. \A i \in 1..Len(e) : e[i].row \in Known /\ e[i].vec = table[e[i].row]
    <3> TAKE i \in 1..Len(e)
    <3>1. PICK j \in 1..Len(raw) : e[i] = raw[j] BY <2>1
    <3> QED BY <1>9, <3>1
  <2>3. \A a \in 1..n : \A p \in 1..Len(postings[cells[a]]) :
           \E i \in 1..Len(e) : e[i].row = postings[cells[a]][p].row
    <3> TAKE a \in 1..n
    <3> TAKE p \in 1..Len(postings[cells[a]])
    <3>1. PICK i \in 1..Len(raw) : raw[i] = postings[cells[a]][p] BY <1>10
    <3>2. PICK k \in 1..Len(e) : e[k].row = raw[i].row BY <2>1
    <3> QED BY <3>1, <3>2
  <2>4. Compared(e, cells) BY <2>1, <2>2, <2>3 DEF Compared, n
  <2> QED BY <2>4 DEF e, raw
<1> QED BY <1>11, <1>12

(* No search compares more entries than there are.                         *)
LEMMA NoMoreThanStored ==
    ASSUME AInv, phase = "ready", NEW cells, NEW e, Compared(e, cells)
    PROVE  NumEntries \in Nat /\ Len(e) <= NumEntries
<1> DEFINE all == FlattenSeq(postings)
           l == Len(e)
           N == Len(all)
<1>1. NList \in Nat \ {0} /\ Cells = 1..NList BY KMeansAssumption DEF Cells
<1>2. postings \in [1..NList -> Seq(Entry)] BY <1>1 DEF AInv, CInv, Types
<1>3. all \in Seq(Entry) /\ \E at : Laid(at, all, NList, postings) BY <1>1, <1>2, FlattenFacts
<1> HIDE DEF all
<1>4. PICK at : Laid(at, all, NList, postings) BY <1>3
<1>5. N \in Nat /\ l \in Nat BY <1>3 DEF Compared
<1>6. ASSUME NEW r \in Known PROVE \E i \in 1..N : all[i].row = r
  <2>1. PICK c \in Cells : \E p \in 1..Len(postings[c]) : postings[c][p].row = r BY KnownFound
  <2>2. PICK p \in 1..Len(postings[c]) : postings[c][p].row = r BY <2>1
  <2>3. p \in Nat
    <3>1. postings[c] \in Seq(Entry) BY <1>1, <1>2
    <3> QED BY <3>1
  <2>4. <<c, p>> \in Slots(NList, postings) BY <1>1, <2>2, <2>3 DEF Slots
  <2>5. PICK i \in 1..N : at[i] = <<c, p>> BY <1>4, <2>4 DEF Laid
  <2>6. all[i] = postings[c][p] BY <1>4, <2>5 DEF Laid
  <2> QED BY <2>2, <2>6
<1>7. \A i \in 1..l : e[i].row \in Known BY DEF Compared
<1>8. \A i, j \in 1..l : i # j => e[i].row # e[j].row BY DEF Compared
<1> DEFINE Where(i) == CHOOSE k \in 1..N : all[k].row = e[i].row
           f == [i \in 1..l |-> Where(i)]
<1> HIDE DEF l, N
<1>9. \A i \in 1..l : Where(i) \in 1..N /\ all[Where(i)].row = e[i].row BY <1>6, <1>7
<1>10. \A i \in 1..l : f[i] = Where(i) OBVIOUS
<1> HIDE DEF Where
<1>11. f \in Injection(1..l, 1..N) BY <1>8, <1>9, <1>10 DEF Injection, IsInjective
<1>12. ASSUME NEW k \in Nat PROVE IsFiniteSet(1..k) /\ Cardinality(1..k) = k
  <2>1. 1 \in Int /\ k \in Int OBVIOUS
  <2>2. IsFiniteSet(1..k) /\ Cardinality(1..k) = IF 1 > k THEN 0 ELSE k - 1 + 1
    BY <2>1, FS_Interval
  <2> QED BY <2>2
<1>13. Cardinality(1..l) <= Cardinality(1..N) BY <1>5, <1>11, <1>12, FS_Injection
<1>14. l <= N BY <1>5, <1>12, <1>13
<1> QED BY <1>5, <1>14 DEF l, N, all, NumEntries

-----------------------------------------------------------------------------
(* The lists a search probes: some, none twice, the assigned cell's among  *)
(* them, and all when it may probe all.                                    *)
LEMMA ProbesFacts ==
    ASSUME NEW v \in Int, NEW centers \in [Cells -> Int], NEW probes \in 1..NList,
           NEW cells \in Probes(v, centers, probes)
    PROVE  /\ cells \in Seq(Cells) /\ Len(cells) # 0
           /\ \A a, b \in 1..Len(cells) : a # b => cells[a] # cells[b]
           /\ In(AssignCentroid(v, centers), cells)
           /\ probes = NList => \A c \in Cells : In(c, cells)
<1> DEFINE d == CellDistances(v, centers)
           n == NList
           b == AssignCentroid(v, centers)
<1>1. n \in Nat \ {0} /\ Cells = 1 .. n /\ probes \in Nat \ {0} /\ probes <= n
  BY KMeansAssumption DEF Cells
<1>2. /\ d = [c \in 1 .. n |-> L2sq(v, centers[c])]
      /\ \A c \in 1 .. n : d[c] = L2sq(v, centers[c]) /\ d[c] \in Nat
  <2>1. \A c \in 1 .. n : L2sq(v, centers[c]) \in Nat
    <3> TAKE c \in 1 .. n
    <3>1. centers[c] \in Int BY <1>1
    <3> QED BY <3>1, Square
  <2> QED BY <1>1, <2>1 DEF CellDistances
<1>3. Len(d) = n
  <2> HIDE DEF n
  <2> QED BY <1>1, <1>2
<1>4. IsNearestCell(b, v, centers) BY NearestCellFacts DEF AssignCentroid
<1>5. PICK S : S \in Keep(d, probes) /\ cells \in Ascending(d, S) BY DEF Probes, d
<1> HIDE DEF d, b
<1>6. /\ b \in 1 .. n /\ \A e \in 1 .. n : d[b] <= d[e]
      /\ \A e \in 1 .. b - 1 : d[b] < d[e]
  <2>1. /\ b \in 1 .. n /\ \A e \in 1 .. n : L2sq(v, centers[b]) <= L2sq(v, centers[e])
        /\ \A e \in 1 .. b - 1 : L2sq(v, centers[b]) < L2sq(v, centers[e])
    BY <1>1, <1>4 DEF IsNearestCell
  <2>2. \A e \in 1 .. b - 1 : e \in 1 .. n BY <1>1, <2>1
  <2> QED BY <1>2, <2>1, <2>2
<1> HIDE DEF n
<1>7. n \in Nat /\ \A e \in 1 .. n : d[e] \in Int BY <1>1, <1>2
<1>8. S \subseteq 1 .. n /\ IsFiniteSet(S) /\ b \in S
  BY <1>1, <1>3, <1>5, <1>6, <1>7, KeepFacts
<1>9. n <= probes => S = 1 .. n BY <1>1, <1>3, <1>5, <1>7, KeepBest
<1>10. /\ cells \in Seq(S)
       /\ \A s \in S : \E i \in 1 .. Len(cells) : cells[i] = s
       /\ \A i, j \in 1 .. Len(cells) : i # j => cells[i] # cells[j]
  BY <1>5, <1>8, AscendingFacts
<1>11. cells \in Seq(Cells) /\ Len(cells) \in Nat
  <2>1. S \subseteq Cells BY <1>1, <1>8
  <2>2. ASSUME NEW A, NEW B, A \subseteq B, NEW s \in Seq(A)
        PROVE  s \in Seq(B) /\ Len(s) \in Nat
    BY <2>2
  <2> QED BY <1>10, <2>1, <2>2
<1>12. PICK a \in 1 .. Len(cells) : cells[a] = b BY <1>8, <1>10
<1>13. Len(cells) # 0 BY <1>11, <1>12
<1>14. probes = n => \A c \in Cells : \E i \in 1 .. Len(cells) : cells[i] = c
  <2>1. probes = n => n <= probes BY <1>1
  <2> QED BY <1>1, <1>9, <1>10, <2>1
<1> QED BY <1>10, <1>11, <1>12, <1>13, <1>14 DEF b, n, In

LEMMA AllProbed ==
    ASSUME NEW v \in Int, NEW centers \in [Cells -> Int], NEW cells \in Probes(v, centers, NList)
    PROVE  \A c \in Cells : \E a \in 1..Len(cells) : cells[a] = c
<1>1. NList \in 1..NList BY KMeansAssumption
<1>2. PICK probes \in 1..NList : probes = NList BY <1>1
<1>3. cells \in Probes(v, centers, probes) BY <1>2
<1>4. probes = NList => \A c \in Cells : In(c, cells) BY <1>3, ProbesFacts
<1> QED BY <1>2, <1>4 DEF In

LEMMA VectorsTyped == \A v \in Vectors : v \in Int
<1>1. Vectors \subseteq Nat BY Constants
<1>2. \A v \in Vectors : v \in Nat BY <1>1
<1>3. \A v \in Nat : v \in Int OBVIOUS
<1> QED BY <1>2, <1>3

(* What a search returns: of the rows of the lists it goes through as many *)
(* as it may, and none farther than one that it leaves.                    *)
Answers(C, S, e, cells, q, cap) ==
    /\ C = [i \in S |-> e[i]] /\ Compared(e, cells)
    /\ S \subseteq 1..Len(e) /\ IsFiniteSet(S)
    /\ Cardinality(S) = IF Len(e) <= cap THEN Len(e) ELSE cap
    /\ Len(e) <= cap => S = 1..Len(e)
    /\ \A s \in S, i \in (1..Len(e)) \ S :
         L2sq(q, table[e[s].row]) <= L2sq(q, table[e[i].row])

LEMMA SearchFacts ==
    ASSUME AInv, phase = "ready", NEW q \in Int, NEW cap \in Nat, NEW probes \in 1..NList,
           NEW C \in CoreSearch(kind, postings, centroids, q, cap, probes)
    PROVE  \E S, e : \E cells \in Probes(q, centroids, probes) :
             /\ Compared(e, cells) /\ C = [i \in S |-> e[i]] /\ S \subseteq 1..Len(e)
             /\ cap # 0 => Answers(C, S, e, cells, q, cap)
<1>1. PICK cells \in Probes(q, centroids, probes) :
        LET e == Offered(kind, Entries(postings, cells))
            d == [i \in 1..Len(e) |-> L2sq(q, e[i].vec)]
        IN  C \in {[i \in S |-> e[i]] : S \in Keep(d, cap)}
  BY DEF CoreSearch
<1>2. PICK e : e = Offered(kind, Entries(postings, cells)) OBVIOUS
<1>3. PICK d : d = [i \in 1..Len(e) |-> L2sq(q, e[i].vec)] OBVIOUS
<1>4. PICK S \in Keep(d, cap) : C = [i \in S |-> e[i]] BY <1>1, <1>2, <1>3
<1>5. Compared(e, cells)
  <2>1. centroids \in [Cells -> Int] BY DEF AInv, CInv, Types
  <2>2. /\ cells \in Seq(Cells) /\ Len(cells) # 0
        /\ \A a, b \in 1..Len(cells) : a # b => cells[a] # cells[b]
    BY <2>1, ProbesFacts
  <2> QED BY <1>2, <2>2, OfferedCompared
<1> DEFINE n == Len(e)
<1>6. n \in Nat /\ \A i \in 1..n : e[i] \in Entry /\ e[i].vec = table[e[i].row]
  BY <1>5 DEF Compared
<1>7. \A i \in 1..n : L2sq(q, e[i].vec) \in Nat
  <2> TAKE i \in 1..n
  <2>1. e[i].vec \in Vectors BY <1>6 DEF Entry
  <2>3. e[i].vec \in Int BY <2>1, VectorsTyped
  <2> QED BY <2>3, Square
<1> HIDE DEF n
<1>8. d = [i \in 1..n |-> L2sq(q, e[i].vec)] BY <1>3 DEF n
<1>9. Len(d) = n /\ \A i \in 1..n : d[i] \in Int /\ d[i] = L2sq(q, table[e[i].row])
  BY <1>6, <1>7, <1>8
<1>10. S \subseteq 1..n
  <2> DEFINE P == [k \in 0..n |-> SUBSET (1..n)]
  <2>1. P \in [0..n -> SUBSET SUBSET (1..n)] OBVIOUS
  <2>2. {} \in P[0] /\ P[n] = SUBSET (1..n) BY <1>6
  <2>3. ASSUME NEW k \in 1..n, NEW T \in P[k - 1], NEW U \in Grown(d, cap, k, T)
        PROVE  U \in P[k]
    <3>1. k - 1 \in 0..n /\ k \in 0..n BY <1>6
    <3>2. T \subseteq 1..n /\ P[k] = SUBSET (1..n) BY <3>1
    <3>3. U \subseteq T \cup {k} BY <2>3 DEF Grown
    <3> QED BY <3>2, <3>3
  <2> HIDE DEF P
  <2>4. S \in P[n] BY <1>4, <1>6, <1>9, <2>1, <2>2, <2>3, KeepInduction
  <2> QED BY <2>2, <2>4
<1>11. ASSUME cap # 0 PROVE Answers(C, S, e, cells, q, cap)
  <2>1. cap \in Nat \ {0} BY <1>11
  <2>2. /\ S \subseteq 1 .. n /\ IsFiniteSet(S)
        /\ Cardinality(S) = IF n <= cap THEN n ELSE cap
        /\ n <= cap => S = 1 .. n
        /\ \A s \in S, i \in (1 .. n) \ S : d[s] <= d[i]
    <3>1. n \in Nat /\ Len(d) = n /\ \A i \in 1 .. n : d[i] \in Int BY <1>6, <1>9
    <3> QED BY <1>4, <2>1, <3>1, KeepBest
  <2>3. \A s \in S, i \in (1 .. n) \ S :
          L2sq(q, table[e[s].row]) <= L2sq(q, table[e[i].row])
    <3> TAKE s \in S, i \in (1 .. n) \ S
    <3>1. s \in 1..n /\ i \in 1..n BY <2>2
    <3>2. d[s] <= d[i] BY <2>2
    <3> QED BY <1>9, <3>1, <3>2
  <2> QED BY <1>4, <1>5, <2>2, <2>3 DEF Answers, n
<1> QED BY <1>4, <1>5, <1>10, <1>11 DEF n

LEMMA EntriesCounted == ASSUME AInv PROVE NumEntries \in Nat
<1>1. NList \in Nat \ {0} /\ Cells = 1..NList BY KMeansAssumption DEF Cells
<1>2. postings \in [1..NList -> Seq(Entry)] BY <1>1 DEF AInv, CInv, Types
<1>3. FlattenSeq(postings) \in Seq(Entry) BY <1>1, <1>2, FlattenFacts
<1> QED BY <1>3 DEF NumEntries

(* A search for a stored vector, of as few as NProbe lists, meets the row: *)
(* ChooseCentroids and the search agree on the nearest cell, also among    *)
(* equals, which few or repeated samples make.                             *)
THEOREM OwnVectorIsFound == Spec => []OwnVectorFindsRow
<1>1. AInv => OwnVectorFindsRow
  <2> SUFFICES ASSUME AInv, phase = "ready", NEW r \in Live,
                      NEW C \in CoreSearch(kind, postings, centroids, table[r],
                                           NumEntries, NProbe)
               PROVE  \E i \in DOMAIN C : C[i].row = r
    BY DEF OwnVectorFindsRow
  <2> DEFINE own == AssignCentroid(table[r], centroids)
  <2>1. r \in Known BY DEF Live, Known
  <2>2. PICK p : own \in Cells /\ p \in 1..Len(postings[own]) /\ postings[own][p].row = r
    BY <2>1, KnownFound
  <2>3. table[r] \in Int
    <3> HIDE DEF own
    <3>1. postings[own][p].vec = table[postings[own][p].row] BY <2>2, EntryFacts
    <3>2. postings[own][p] \in Entry
      <4>1. postings[own] \in Seq(Entry) BY <2>2 DEF AInv, CInv, Types
      <4> QED BY <2>2, <4>1
    <3>a. postings[own][p].vec = table[r] BY <2>2, <3>1
    <3>3. table[r] \in Vectors BY <3>a, <3>2 DEF Entry
    <3> QED BY <3>3, VectorsTyped
  <2>4. centroids \in [Cells -> Int] BY DEF AInv, CInv, Types
  <2>5. NProbe \in 1..NList BY PostingAssumption
  <2> HIDE DEF own
  <2>6. \A cells \in Probes(table[r], centroids, NProbe) :
          \E a \in 1..Len(cells) : cells[a] = own
    <3>1. PICK v : v = table[r] OBVIOUS
    <3>2. v \in Int BY <2>3, <3>1
    <3>4. own = AssignCentroid(v, centroids) BY <3>1 DEF own
    <3>3. ASSUME NEW cells \in Probes(v, centroids, NProbe)
          PROVE  In(AssignCentroid(v, centroids), cells)
      BY <2>4, <2>5, <3>2, ProbesFacts
    <3> QED BY <3>1, <3>3, <3>4 DEF In
  <2>7. \A cells \in Probes(table[r], centroids, NProbe) : \A e :
          Compared(e, cells) => \E i \in 1..Len(e) : e[i].row = r
    <3> TAKE cells \in Probes(table[r], centroids, NProbe)
    <3> TAKE e
    <3> HAVE Compared(e, cells)
    <3>1. PICK a \in 1..Len(cells) : cells[a] = own BY <2>6
    <3>2. \A s \in 1..Len(postings[cells[a]]) :
            \E i \in 1..Len(e) : e[i].row = postings[cells[a]][s].row
      BY DEF Compared
    <3>3. \E i \in 1..Len(e) : e[i].row = postings[own][p].row BY <2>2, <3>1, <3>2
    <3> QED BY <2>2, <3>3
  <2>8. NumEntries \in Nat BY EntriesCounted
  <2>9. PICK S, e : \E cells \in Probes(table[r], centroids, NProbe) :
           /\ Compared(e, cells) /\ C = [i \in S |-> e[i]] /\ S \subseteq 1..Len(e)
           /\ NumEntries # 0 => Answers(C, S, e, cells, table[r], NumEntries)
    BY <2>3, <2>5, <2>8, SearchFacts
  <2>10. PICK cells \in Probes(table[r], centroids, NProbe) :
           /\ Compared(e, cells) /\ C = [i \in S |-> e[i]] /\ S \subseteq 1..Len(e)
           /\ NumEntries # 0 => Answers(C, S, e, cells, table[r], NumEntries)
    BY <2>9
  <2>11. PICK i \in 1..Len(e) : e[i].row = r BY <2>7, <2>10
  <2>12. Len(e) <= NumEntries /\ Len(e) \in Nat
    <3>1. e \in Seq(Entry) BY <2>10 DEF Compared
    <3>2. Len(e) \in Nat BY <3>1
    <3>3. Len(e) <= NumEntries BY <2>10, NoMoreThanStored
    <3> QED BY <3>2, <3>3
  <2>13. NumEntries # 0 BY <2>8, <2>11, <2>12
  <2>14. S = 1..Len(e) BY <2>10, <2>12, <2>13 DEF Answers
  <2> QED BY <2>10, <2>11, <2>14
<1> QED BY <1>1, AInvHolds, PTL

(* Copies of a row in several of SPANN's lists count once, and an IVF list *)
(* has none: no answer has a row twice.                                    *)
THEOREM NoRowReturnedTwice == Spec => []RowReturnedOnce
<1>1. AInv => RowReturnedOnce
  <2> SUFFICES ASSUME AInv, phase = "ready", NEW q \in Vectors,
                      NEW C \in CoreSearch(kind, postings, centroids, q, NumEntries, NList),
                      NEW i \in DOMAIN C, NEW j \in DOMAIN C, i # j
               PROVE  C[i].row # C[j].row
    BY DEF RowReturnedOnce
  <2>1. q \in Int BY Constants
  <2>2. NList \in 1..NList BY KMeansAssumption
  <2>3. NumEntries \in Nat BY EntriesCounted
  <2>4. PICK S, e : \E cells : /\ Compared(e, cells) /\ C = [k \in S |-> e[k]]
                               /\ S \subseteq 1..Len(e)
    BY <2>1, <2>2, <2>3, SearchFacts
  <2>5. i \in 1..Len(e) /\ j \in 1..Len(e) /\ C[i] = e[i] /\ C[j] = e[j] BY <2>4
  <2> QED BY <2>4, <2>5 DEF Compared
<1> QED BY <1>1, AInvHolds, PTL

(* The rows at some places are as many as the places.                      *)
LEMMA RowsCounted ==
    ASSUME NEW e, NEW S, IsFiniteSet(S), \A i, j \in S : i # j => e[i].row # e[j].row
    PROVE  LET R == {e[i].row : i \in S} IN IsFiniteSet(R) /\ Cardinality(R) = Cardinality(S)
<1> DEFINE R == {e[i].row : i \in S}
           f == [i \in S |-> e[i].row]
<1>1. f \in Surjection(S, R) BY DEF Surjection
<1>2. f \in Injection(S, R) BY DEF Injection, IsInjective
<1> HIDE DEF f, R
<1>3. IsFiniteSet(R) /\ Cardinality(R) = Cardinality(S) BY <1>1, <1>2, FS_Surjection
<1> QED BY <1>3 DEF R

(* A scan that probes every list returns the nearest rows there are.  It   *)
(* asks for as many more as there are tombstones, and a copy that the seen *)
(* set drops takes no place: after the deleted rows are left out, LIMIT    *)
(* rows remain, or all.                                                    *)
THEOREM FullProbeMissesNothing == Spec => []FullProbeIsExact
<1>1. AInv => FullProbeIsExact
  <2> SUFFICES ASSUME AInv, phase = "ready", NEW q \in Vectors,
                      NEW limit \in 1..Cardinality(Rows),
                      NEW C \in CoreSearch(kind, postings, centroids, q,
                                           Oversample(limit), NList)
               PROVE  LET found == {C[i].row : i \in DOMAIN C} \ tombstones IN
                      /\ found \subseteq Live
                      /\ Cardinality(found) >= Min({limit, Cardinality(Live)})
                      /\ \A r \in Live \ found :
                           Cardinality({f \in found : L2sq(q, table[f]) <= L2sq(q, table[r])})
                             >= limit
    BY DEF FullProbeIsExact
  <2> DEFINE T == tombstones
             cap == Oversample(limit)
             R == {C[i].row : i \in DOMAIN C}
             found == R \ T
  <2>1. IsFiniteSet(Rows) /\ Cardinality(Rows) \in Nat BY Constants, FS_CardinalityType
  <2>2. IsFiniteSet(T) /\ Cardinality(T) \in Nat
    <3>1. T \in SUBSET Rows BY DEF AInv, CInv, Types
    <3> HIDE DEF T
    <3> QED BY <2>1, <3>1, FS_Subset, FS_CardinalityType
  <2>3. limit \in Nat \ {0} /\ cap \in Nat \ {0} /\ cap = limit + Cardinality(T)
    <3>1. cap = limit + Cardinality(T) BY DEF Oversample
    <3>2. limit \in Nat \ {0} BY <2>1
    <3> HIDE DEF cap, T
    <3> QED BY <2>2, <3>1, <3>2
  <2>4. q \in Int BY VectorsTyped
  <2>5. NList \in 1..NList /\ centroids \in [Cells -> Int]
    BY KMeansAssumption DEF AInv, CInv, Types
  <2>6. Live = Known \ T BY DEF Live, Known
  <2> HIDE DEF T, cap
  <2>7. C \in CoreSearch(kind, postings, centroids, q, cap, NList) BY DEF cap
  <2>8. PICK S, e : \E cells \in Probes(q, centroids, NList) : Answers(C, S, e, cells, q, cap)
    BY <2>3, <2>4, <2>5, <2>7, SearchFacts
  <2>9. PICK cells \in Probes(q, centroids, NList) : Answers(C, S, e, cells, q, cap) BY <2>8
  <2>10. \A c \in Cells : \E a \in 1..Len(cells) : cells[a] = c
    <3>1. centroids \in [Cells -> Int] BY <2>5
    <3> QED BY <2>4, <3>1, AllProbed
  <2> DEFINE n == Len(e)
  <2>11. /\ n \in Nat /\ S \subseteq 1..n /\ IsFiniteSet(S)
         /\ Cardinality(S) = IF n <= cap THEN n ELSE cap
         /\ n <= cap => S = 1..n
         /\ \A s \in S, i \in (1..n) \ S : L2sq(q, table[e[s].row]) <= L2sq(q, table[e[i].row])
    BY <2>9 DEF Answers, Compared
  <2>12. /\ \A i \in 1..n : e[i].row \in Known
         /\ \A i, j \in 1..n : i # j => e[i].row # e[j].row
    BY <2>9 DEF Answers, Compared
  <2>13. ASSUME NEW r \in Known PROVE \E i \in 1..n : e[i].row = r
    <3>1. PICK c \in Cells : \E p \in 1..Len(postings[c]) : postings[c][p].row = r BY KnownFound
    <3>2. PICK p \in 1..Len(postings[c]) : postings[c][p].row = r BY <3>1
    <3>3. PICK a \in 1..Len(cells) : cells[a] = c BY <2>10
    <3>4. \A s \in 1..Len(postings[cells[a]]) :
            \E i \in 1..Len(e) : e[i].row = postings[cells[a]][s].row
      BY <2>9 DEF Answers, Compared
    <3> QED BY <3>2, <3>3, <3>4
  <2> HIDE DEF n
  <2>14. R = {e[i].row : i \in S}
    <3>1. C = [i \in S |-> e[i]] BY <2>9 DEF Answers
    <3> QED BY <3>1
  <2>15. \A r : r \in R <=> \E i \in S : e[i].row = r BY <2>14
  <2>16. IsFiniteSet(R) /\ Cardinality(R) = Cardinality(S)
    <3>1. \A i, j \in S : i # j => e[i].row # e[j].row BY <2>11, <2>12
    <3>2. IsFiniteSet(S) BY <2>11
    <3>3. /\ IsFiniteSet({e[i].row : i \in S})
          /\ Cardinality({e[i].row : i \in S}) = Cardinality(S)
      BY <3>1, <3>2, RowsCounted
    <3> QED BY <2>14, <3>3
  <2> HIDE DEF R
  <2>17. R \subseteq Known BY <2>11, <2>12, <2>15
  <2>18. found \subseteq Live /\ IsFiniteSet(found) /\ Cardinality(found) \in Nat
    <3>1. IsFiniteSet(R \ T) BY <2>16, FS_Difference
    <3> QED BY <2>6, <2>17, <3>1, FS_CardinalityType
  <2>19. n <= cap => found = Live
    <3> SUFFICES ASSUME n <= cap, NEW r \in Known PROVE r \in R BY <2>6, <2>17
    <3> QED BY <2>11, <2>13, <2>15
  <2>20. ~(n <= cap) => Cardinality(found) >= limit
    <3> SUFFICES ASSUME ~(n <= cap) PROVE Cardinality(found) >= limit OBVIOUS
    <3>1. Cardinality(R) = cap BY <2>11, <2>16
    <3>2. Cardinality(R \ T) = Cardinality(R) - Cardinality(R \cap T) BY <2>16, FS_Difference
    <3>3. /\ IsFiniteSet(R \cap T) /\ Cardinality(R \cap T) <= Cardinality(T)
      BY <2>2, FS_Intersection
    <3>4. Cardinality(R \cap T) \in Nat BY <3>3, FS_CardinalityType
    <3> QED BY <2>2, <2>3, <3>1, <3>2, <3>3, <3>4
  <2> HIDE DEF found
  <2>21. Cardinality(found) >= Min({limit, Cardinality(Live)})
    <3> DEFINE l == Cardinality(Live)
    <3>1. l \in Nat
      <4>1. Live \in SUBSET Rows BY DEF Live
      <4> QED BY <2>1, <4>1, FS_Subset, FS_CardinalityType
    <3> HIDE DEF l
    <3>2. limit \in Nat BY <2>3
    <3>3. Min({limit, l}) = IF limit <= l THEN limit ELSE l
      <4>1. \E m \in {limit, l} : \A k \in {limit, l} : m <= k BY <3>1, <3>2
      <4>2. Min({limit, l}) \in {limit, l} /\ \A k \in {limit, l} : Min({limit, l}) <= k
        BY <4>1 DEF Min
      <4> QED BY <3>1, <3>2, <4>2
    <3>4. CASE n <= cap
      <4>1. Cardinality(found) = l BY <2>19, <3>4 DEF l
      <4>2. l >= Min({limit, l}) BY <3>1, <3>2, <3>3
      <4> QED BY <4>1, <4>2 DEF l
    <3>5. CASE ~(n <= cap)
      <4>1. Cardinality(found) >= limit BY <2>20, <3>5
      <4>2. Cardinality(found) >= Min({limit, l}) BY <2>18, <3>1, <3>2, <3>3, <4>1
      <4> QED BY <4>2 DEF l
    <3> QED BY <3>4, <3>5
  <2>22. ASSUME NEW r \in Live \ found
         PROVE  Cardinality({f \in found : L2sq(q, table[f]) <= L2sq(q, table[r])}) >= limit
    <3>1. ~(n <= cap) BY <2>19
    <3>2. r \in Known /\ r \notin T BY <2>6
    <3>3. r \notin R BY <3>2 DEF found
    <3>4. PICK j \in 1..n : e[j].row = r BY <2>13, <3>2
    <3>5. j \in (1..n) \ S BY <2>15, <3>3, <3>4
    <3>6. ASSUME NEW f \in found PROVE L2sq(q, table[f]) <= L2sq(q, table[r])
      <4>1. f \in R BY DEF found
      <4>2. PICK s \in S : e[s].row = f BY <2>15, <4>1
      <4>3. L2sq(q, table[e[s].row]) <= L2sq(q, table[e[j].row]) BY <2>11, <3>5
      <4> QED BY <3>4, <4>2, <4>3
    <3>7. {f \in found : L2sq(q, table[f]) <= L2sq(q, table[r])} = found BY <3>6
    <3> QED BY <2>20, <3>1, <3>7
  <2> QED BY <2>18, <2>21, <2>22 DEF found, R, T
<1> QED BY <1>1, AInvHolds, PTL
=============================================================================
