---------------------------- MODULE ReopenProofs ----------------------------
(***************************************************************************)
(* Theorems about Reopen, for every set of options, columns and vectors,   *)
(* any dimension and any rotation: what was written is what opens, an      *)
(* index that opens reads its codes with the quantizer that wrote them,    *)
(* and the distances of its codes agree.  The arithmetic of the quantizers *)
(* comes first - sums, packed bits, vectors, then each quantizer - and the *)
(* life of an index after it.                                              *)
(***************************************************************************)
EXTENDS Reopen, FiniteSetTheorems, SequenceTheorems, WellFoundedInduction, TLAPS

LEMMA LeastNumber ==
    ASSUME NEW T \in SUBSET Nat, T # {}
    PROVE  \E n \in T : \A m \in T : n <= m
<1> DEFINE Less == {p \in Nat \X Nat : p[1] < p[2]}
<1>1. Less = OpToRel(<, Nat) BY DEF OpToRel
<1>2. IsWellFoundedOn(Less, Nat) BY <1>1, NatLessThanWellFounded
<1> HIDE DEF Less
<1>3. PICK n \in T : \A m \in T : <<m, n>> \notin Less BY <1>2, WFMin
<1>4. \A m \in T : ~(m < n) BY <1>3 DEF Less
<1> QED BY <1>4

-----------------------------------------------------------------------------
(* Sums.                                                                   *)

Pick(s) == CHOOSE x \in s : TRUE
Sum(F, S) == SumFunctionOnSet(F, S)
Adds(F, S, it) ==
    it = [s \in SUBSET S |-> IF s = {} THEN 0 ELSE F[Pick(s)] + it[s \ {Pick(s)}]]

LEMMA SumIs ==
    ASSUME NEW F, NEW S
    PROVE  Sum(F, S) = (CHOOSE it : Adds(F, S, it))[S]
BY DEF Sum, SumFunctionOnSet, FoldFunctionOnSet, MapThenFoldSet, Adds, Pick

LEMMA PickIn == ASSUME NEW s, s # {} PROVE Pick(s) \in s
BY DEF Pick

LEMMA SmallestSet ==
    ASSUME NEW C, C # {}, \A T \in C : IsFiniteSet(T)
    PROVE  \E T \in C : \A U \in C : Cardinality(T) <= Cardinality(U)
<1> DEFINE N == {Cardinality(T) : T \in C}
<1>1. N \in SUBSET Nat /\ N # {} BY FS_CardinalityType
<1>2. PICK n \in N : \A m \in N : n <= m BY <1>1, LeastNumber
<1> QED BY <1>2

(* One member less.                                                        *)
LEMMA OneLess ==
    ASSUME NEW S, IsFiniteSet(S), NEW x \in S
    PROVE  /\ IsFiniteSet(S \ {x}) /\ Cardinality(S \ {x}) < Cardinality(S)
           /\ Cardinality(S \ {x}) = Cardinality(S) - 1
<1>1. Cardinality(S) \in Nat BY FS_CardinalityType
<1>2. IsFiniteSet(S \ {x}) /\ Cardinality(S \ {x}) = Cardinality(S) - 1 BY FS_RemoveElement
<1> QED BY <1>1, <1>2

LEMMA AddsOnce ==
    ASSUME NEW F, NEW S, IsFiniteSet(S), NEW f, Adds(F, S, f), NEW g, Adds(F, S, g)
    PROVE  f = g
<1> DEFINE C == {T \in SUBSET S : f[T] # g[T]}
<1>1. C = {}
  <2>1. SUFFICES ASSUME C # {} PROVE FALSE OBVIOUS
  <2>2. \A T \in C : IsFiniteSet(T) BY FS_Subset
  <2> HIDE DEF C
  <2>3. PICK T \in C : \A U \in C : Cardinality(T) <= Cardinality(U) BY <2>1, <2>2, SmallestSet
  <2>4. T \in SUBSET S /\ f[T] # g[T] BY DEF C
  <2>5. T # {} BY <2>4 DEF Adds
  <2> DEFINE p == Pick(T)
  <2>6. p \in T BY <2>5, PickIn
  <2>7. f[T] = F[p] + f[T \ {p}] /\ g[T] = F[p] + g[T \ {p}] BY <2>4, <2>5 DEF Adds
  <2>8. T \ {p} \notin C
    <3>1. Cardinality(T \ {p}) < Cardinality(T) BY <2>2, <2>6, OneLess
    <3>2. Cardinality(T \ {p}) \in Nat /\ Cardinality(T) \in Nat
      BY <2>2, <2>6, OneLess, FS_CardinalityType
    <3> QED BY <2>3, <3>1, <3>2
  <2>9. f[T \ {p}] = g[T \ {p}] BY <2>4, <2>8 DEF C
  <2> QED BY <2>4, <2>7, <2>9
<1>2. f = [T \in SUBSET S |-> f[T]] /\ g = [T \in SUBSET S |-> g[T]] BY DEF Adds
<1>3. \A T \in SUBSET S : f[T] = g[T] BY <1>1
<1> QED BY <1>2, <1>3

LEMMA AddsPart ==
    ASSUME NEW F, NEW S, NEW f, Adds(F, S, f), NEW T \in SUBSET S
    PROVE  Adds(F, T, [s \in SUBSET T |-> f[s]])
<1> DEFINE g == [s \in SUBSET T |-> f[s]]
           h == [s \in SUBSET T |-> IF s = {} THEN 0 ELSE F[Pick(s)] + g[s \ {Pick(s)}]]
<1>1. ASSUME NEW s \in SUBSET T PROVE g[s] = h[s]
  <2>1. s \in SUBSET S /\ s \ {Pick(s)} \in SUBSET T OBVIOUS
  <2>2. f[s] = IF s = {} THEN 0 ELSE F[Pick(s)] + f[s \ {Pick(s)}] BY <2>1 DEF Adds
  <2>3. g[s] = f[s] /\ g[s \ {Pick(s)}] = f[s \ {Pick(s)}] BY <2>1
  <2>4. h[s] = IF s = {} THEN 0 ELSE F[Pick(s)] + g[s \ {Pick(s)}] OBVIOUS
  <2> HIDE DEF g, h
  <2> QED BY <2>2, <2>3, <2>4
<1>2. g = h BY <1>1
<1> QED BY <1>2 DEF Adds

LEMMA AddsExist ==
    ASSUME NEW F, NEW S, IsFiniteSet(S)
    PROVE  \E f : Adds(F, S, f)
<1> DEFINE C == {T \in SUBSET S : ~\E f : Adds(F, T, f)}
<1>1. SUFFICES ASSUME C # {} PROVE FALSE OBVIOUS
<1>2. \A T \in C : IsFiniteSet(T) BY FS_Subset
<1> HIDE DEF C
<1>3. PICK T \in C : \A U \in C : Cardinality(T) <= Cardinality(U) BY <1>1, <1>2, SmallestSet
<1>4. T \in SUBSET S /\ IsFiniteSet(T) /\ ~\E f : Adds(F, T, f) BY <1>2 DEF C
<1> DEFINE A(u) == CHOOSE f : Adds(F, u, f)
           Less(s) == s \ {Pick(s)}
           Value(s) == IF s = {} THEN 0 ELSE F[Pick(s)] + A(Less(s))[Less(s)]
           new == [s \in SUBSET T |-> Value(s)]
<1>5. ASSUME NEW u \in SUBSET T, u # T PROVE IsFiniteSet(u) /\ Adds(F, u, A(u))
  <2>1. Cardinality(u) < Cardinality(T) /\ IsFiniteSet(u)
    <3>1. PICK x \in T : x \notin u BY <1>5
    <3>2. u \in SUBSET (T \ {x}) BY <3>1
    <3>3. IsFiniteSet(T \ {x}) /\ Cardinality(T \ {x}) < Cardinality(T) BY <1>4, OneLess
    <3>4. IsFiniteSet(u) /\ Cardinality(u) <= Cardinality(T \ {x}) BY <3>2, <3>3, FS_Subset
    <3>5. Cardinality(u) \in Nat /\ Cardinality(T \ {x}) \in Nat /\ Cardinality(T) \in Nat
      BY <1>4, <3>3, <3>4, FS_CardinalityType
    <3> QED BY <3>3, <3>4, <3>5
  <2>2. u \notin C
    <3>1. Cardinality(u) \in Nat /\ Cardinality(T) \in Nat BY <1>4, <2>1, FS_CardinalityType
    <3> QED BY <1>3, <2>1, <3>1
  <2>3. \E f : Adds(F, u, f) BY <1>4, <2>2 DEF C
  <2> QED BY <2>1, <2>3
<1>6. ASSUME NEW u \in SUBSET T, u # T, NEW w \in SUBSET u PROVE A(u)[w] = A(w)[w]
  <2>1. w # T /\ w \in SUBSET T BY <1>6
  <2>2. Adds(F, u, A(u)) /\ Adds(F, w, A(w)) /\ IsFiniteSet(w) BY <1>5, <1>6, <2>1
  <2> HIDE DEF A
  <2>3. Adds(F, w, [s \in SUBSET w |-> A(u)[s]]) BY <2>2, AddsPart
  <2>4. A(w) = [s \in SUBSET w |-> A(u)[s]] BY <2>2, <2>3, AddsOnce
  <2> QED BY <2>4
<1>7. ASSUME NEW u \in SUBSET T, u # T PROVE A(u)[u] = Value(u)
  <2>1. Adds(F, u, A(u)) BY <1>5, <1>7
  <2>2. A(u)[u] = IF u = {} THEN 0 ELSE F[Pick(u)] + A(u)[Less(u)]
    <3> HIDE DEF A
    <3>1. u \in SUBSET u OBVIOUS
    <3> QED BY <2>1, <3>1 DEF Adds
  <2>3. A(u)[Less(u)] = A(Less(u))[Less(u)]
    <3>1. Less(u) \in SUBSET u OBVIOUS
    <3> HIDE DEF A, Less
    <3> QED BY <1>6, <1>7, <3>1
  <2> HIDE DEF A, Less
  <2> QED BY <2>2, <2>3
<1>8. ASSUME NEW s \in SUBSET T
      PROVE  new[s] = IF s = {} THEN 0 ELSE F[Pick(s)] + new[Less(s)]
  <2>1. new[s] = Value(s) OBVIOUS
  <2>2. CASE s = {} BY <2>1, <2>2
  <2>3. CASE s # {}
    <3>1. Less(s) \in SUBSET T /\ Less(s) # T BY <2>3, PickIn
    <3>2. new[Less(s)] = Value(Less(s)) BY <3>1
    <3> HIDE DEF A, Less, new
    <3>3. A(Less(s))[Less(s)] = Value(Less(s))
      <4> HIDE DEF Value
      <4> QED BY <1>7, <3>1
    <3>4. Value(s) = F[Pick(s)] + A(Less(s))[Less(s)] BY <2>3
    <3> HIDE DEF Value
    <3> QED BY <2>1, <2>3, <3>2, <3>3, <3>4
  <2> QED BY <2>2, <2>3
<1>9. Adds(F, T, new)
  <2> DEFINE h == [s \in SUBSET T |-> IF s = {} THEN 0 ELSE F[Pick(s)] + new[Less(s)]]
  <2>1. new = [s \in SUBSET T |-> new[s]] OBVIOUS
  <2> HIDE DEF new, A
  <2>2. \A s \in SUBSET T : new[s] = h[s] BY <1>8
  <2>3. new = h BY <2>1, <2>2
  <2> QED BY <2>3 DEF Adds
<1> HIDE DEF new
<1> QED BY <1>4, <1>9

LEMMA SumSteps ==
    ASSUME NEW F, NEW S, IsFiniteSet(S)
    PROVE  /\ S = {} => Sum(F, S) = 0
           /\ S # {} => /\ Pick(S) \in S
                        /\ Sum(F, S) = F[Pick(S)] + Sum(F, S \ {Pick(S)})
<1> DEFINE A(u) == CHOOSE f : Adds(F, u, f)
           u == S \ {Pick(S)}
<1>1. Adds(F, S, A(S)) BY AddsExist
<1>2. IsFiniteSet(u) /\ u \in SUBSET S BY FS_Subset
<1>3. Adds(F, u, A(u)) BY <1>2, AddsExist
<1>4. Sum(F, S) = A(S)[S] /\ Sum(F, u) = A(u)[u] BY SumIs
<1> HIDE DEF A, u
<1>5. Adds(F, u, [s \in SUBSET u |-> A(S)[s]]) BY <1>1, <1>2, AddsPart
<1>6. A(u) = [s \in SUBSET u |-> A(S)[s]] BY <1>2, <1>3, <1>5, AddsOnce
<1>7. A(u)[u] = A(S)[u] BY <1>6
<1>8. A(S)[S] = IF S = {} THEN 0 ELSE F[Pick(S)] + A(S)[S \ {Pick(S)}]
  <2>1. S \in SUBSET S OBVIOUS
  <2> QED BY <1>1, <2>1 DEF Adds
<1> QED BY <1>4, <1>7, <1>8, PickIn DEF u

(* Terms that are equal have equal sums, terms in Int a sum in Int.        *)
LEMMA SumSame ==
    ASSUME NEW S, IsFiniteSet(S), NEW F, NEW G, \A x \in S : F[x] = G[x]
    PROVE  Sum(F, S) = Sum(G, S)
<1> DEFINE C == {T \in SUBSET S : Sum(F, T) # Sum(G, T)}
<1>1. SUFFICES ASSUME C # {} PROVE FALSE OBVIOUS
<1>2. \A T \in C : IsFiniteSet(T) BY FS_Subset
<1> HIDE DEF C
<1>3. PICK T \in C : \A U \in C : Cardinality(T) <= Cardinality(U) BY <1>1, <1>2, SmallestSet
<1>4. T \in SUBSET S /\ IsFiniteSet(T) /\ Sum(F, T) # Sum(G, T) BY <1>2 DEF C
<1>5. T # {} BY <1>4, SumSteps
<1> DEFINE p == Pick(T)
           u == T \ {p}
<1>6. p \in T /\ Sum(F, T) = F[p] + Sum(F, u) /\ Sum(G, T) = G[p] + Sum(G, u) BY <1>4, <1>5, SumSteps
<1>7. u \notin C
  <2>1. IsFiniteSet(u) /\ Cardinality(u) < Cardinality(T) BY <1>4, <1>6, OneLess
  <2>2. Cardinality(u) \in Nat /\ Cardinality(T) \in Nat BY <1>4, <2>1, FS_CardinalityType
  <2> QED BY <1>3, <2>1, <2>2
<1>8. Sum(F, u) = Sum(G, u) BY <1>4, <1>7 DEF C
<1> QED BY <1>4, <1>6, <1>8

LEMMA SumTyped ==
    ASSUME NEW S, IsFiniteSet(S), NEW F, \A x \in S : F[x] \in Int
    PROVE  Sum(F, S) \in Int
<1> DEFINE C == {T \in SUBSET S : Sum(F, T) \notin Int}
<1>1. SUFFICES ASSUME C # {} PROVE FALSE OBVIOUS
<1>2. \A T \in C : IsFiniteSet(T) BY FS_Subset
<1> HIDE DEF C
<1>3. PICK T \in C : \A U \in C : Cardinality(T) <= Cardinality(U) BY <1>1, <1>2, SmallestSet
<1>4. T \in SUBSET S /\ IsFiniteSet(T) /\ Sum(F, T) \notin Int BY <1>2 DEF C
<1>5. T # {}
  <2>1. 0 \in Int OBVIOUS
  <2> QED BY <1>4, <2>1, SumSteps
<1> DEFINE p == Pick(T)
           u == T \ {p}
<1>6. p \in T /\ Sum(F, T) = F[p] + Sum(F, u) BY <1>4, <1>5, SumSteps
<1>7. u \notin C
  <2>1. IsFiniteSet(u) /\ Cardinality(u) < Cardinality(T) BY <1>4, <1>6, OneLess
  <2>2. Cardinality(u) \in Nat /\ Cardinality(T) \in Nat BY <1>4, <2>1, FS_CardinalityType
  <2> QED BY <1>3, <2>1, <2>2
<1>8. Sum(F, u) \in Int BY <1>4, <1>7 DEF C
<1>9. F[p] \in Int BY <1>4, <1>6
<1> QED BY <1>4, <1>6, <1>8, <1>9

(* Any term may be taken out, not only the one that is added last.         *)
LEMMA SumWithout ==
    ASSUME NEW S, IsFiniteSet(S), NEW F, \A x \in S : F[x] \in Int, NEW x \in S
    PROVE  Sum(F, S) = F[x] + Sum(F, S \ {x})
<1> DEFINE C == {T \in SUBSET S : \E y \in T : Sum(F, T) # F[y] + Sum(F, T \ {y})}
<1>1. SUFFICES ASSUME C # {} PROVE FALSE OBVIOUS
<1>2. \A T \in C : IsFiniteSet(T) BY FS_Subset
<1> HIDE DEF C
<1>3. PICK T \in C : \A U \in C : Cardinality(T) <= Cardinality(U) BY <1>1, <1>2, SmallestSet
<1>4. T \in SUBSET S /\ IsFiniteSet(T) BY <1>2 DEF C
<1>5. PICK y \in T : Sum(F, T) # F[y] + Sum(F, T \ {y}) BY DEF C
<1> DEFINE p == Pick(T)
<1>6. p \in T /\ Sum(F, T) = F[p] + Sum(F, T \ {p}) BY <1>4, SumSteps
<1>7. ASSUME NEW z \in T, NEW v \in T, z # v
      PROVE  Sum(F, T \ {z}) = F[v] + Sum(F, T \ {z, v})
  <2>1. IsFiniteSet(T \ {z}) /\ Cardinality(T \ {z}) < Cardinality(T) BY <1>4, OneLess
  <2>2. Cardinality(T \ {z}) \in Nat /\ Cardinality(T) \in Nat
    BY <1>4, <2>1, FS_CardinalityType
  <2>3. T \ {z} \notin C BY <1>3, <2>1, <2>2
  <2>4. v \in T \ {z} /\ T \ {z} \in SUBSET S /\ (T \ {z}) \ {v} = T \ {z, v} BY <1>4, <1>7
  <2>5. Sum(F, T \ {z}) = F[v] + Sum(F, (T \ {z}) \ {v}) BY <2>3, <2>4 DEF C
  <2> QED BY <2>4, <2>5
<1>8. y # p BY <1>5, <1>6
<1> HIDE DEF p
<1>9. Sum(F, T \ {p}) = F[y] + Sum(F, T \ {p, y}) /\ Sum(F, T \ {y}) = F[p] + Sum(F, T \ {y, p})
  BY <1>6, <1>7, <1>8
<1>10. T \ {p, y} = T \ {y, p} OBVIOUS
<1>11. F[p] \in Int /\ F[y] \in Int /\ Sum(F, T \ {p, y}) \in Int
  <2>1. IsFiniteSet(T \ {p, y}) /\ T \ {p, y} \in SUBSET S BY <1>4, FS_Subset
  <2>2. Sum(F, T \ {p, y}) \in Int BY <2>1, SumTyped
  <2> QED BY <1>4, <1>6, <2>2
<1>12. \A a, b, c \in Int : a + (b + c) = b + (a + c) OBVIOUS
<1>13. Sum(F, T) = F[p] + (F[y] + Sum(F, T \ {p, y})) BY <1>6, <1>9 DEF p
<1>14. F[y] + Sum(F, T \ {y}) = F[y] + (F[p] + Sum(F, T \ {p, y})) BY <1>9, <1>10
<1>15. F[p] + (F[y] + Sum(F, T \ {p, y})) = F[y] + (F[p] + Sum(F, T \ {p, y})) BY <1>11, <1>12
<1> QED BY <1>5, <1>13, <1>14, <1>15

(* A sum with one term that is not zero, at most.                          *)
LEMMA SumOfZeroes ==
    ASSUME NEW S, IsFiniteSet(S), NEW F, \A x \in S : F[x] = 0
    PROVE  Sum(F, S) = 0
<1> DEFINE C == {T \in SUBSET S : Sum(F, T) # 0}
<1>1. SUFFICES ASSUME C # {} PROVE FALSE OBVIOUS
<1>2. \A T \in C : IsFiniteSet(T) BY FS_Subset
<1> HIDE DEF C
<1>3. PICK T \in C : \A U \in C : Cardinality(T) <= Cardinality(U) BY <1>1, <1>2, SmallestSet
<1>4. T \in SUBSET S /\ IsFiniteSet(T) /\ Sum(F, T) # 0 BY <1>2 DEF C
<1>5. T # {} BY <1>4, SumSteps
<1> DEFINE p == Pick(T)
           u == T \ {p}
<1>6. p \in T /\ Sum(F, T) = F[p] + Sum(F, u) BY <1>4, <1>5, SumSteps
<1>7. u \notin C
  <2>1. IsFiniteSet(u) /\ Cardinality(u) < Cardinality(T) BY <1>4, <1>6, OneLess
  <2>2. Cardinality(u) \in Nat /\ Cardinality(T) \in Nat BY <1>4, <2>1, FS_CardinalityType
  <2> QED BY <1>3, <2>1, <2>2
<1>8. Sum(F, u) = 0 BY <1>4, <1>7 DEF C
<1>9. F[p] = 0 BY <1>4, <1>6
<1> QED BY <1>4, <1>6, <1>8, <1>9

LEMMA SumOfOne ==
    ASSUME NEW S, IsFiniteSet(S), NEW F, NEW x \in S, F[x] \in Int,
           \A y \in S \ {x} : F[y] = 0
    PROVE  Sum(F, S) = F[x]
<1>1. \A y \in S : F[y] \in Int OBVIOUS
<1>2. Sum(F, S) = F[x] + Sum(F, S \ {x}) BY <1>1, SumWithout
<1>3. Sum(F, S \ {x}) = 0
  <2>1. IsFiniteSet(S \ {x}) BY FS_Subset
  <2> QED BY <2>1, SumOfZeroes
<1> QED BY <1>2, <1>3

LEMMA UpTo ==
    ASSUME NEW n \in Nat, NEW G, 0 \in G,
           \A k \in 1 .. n : k - 1 \in G => k \in G
    PROVE  \A k \in 0 .. n : k \in G
<1> DEFINE T == {k \in 0 .. n : k \notin G}
<1>1. SUFFICES ASSUME T # {} PROVE FALSE OBVIOUS
<1>2. PICK k \in T : \A m \in T : k <= m
  <2>1. T \in SUBSET Nat OBVIOUS
  <2> HIDE DEF T
  <2> QED BY <1>1, <2>1, LeastNumber
<1>3. k \in 1 .. n /\ k \notin G OBVIOUS
<1>4. k - 1 \in 0 .. n /\ ~(k <= k - 1) BY <1>3
<1>5. k - 1 \in G BY <1>2, <1>4
<1> QED BY <1>3, <1>5

-----------------------------------------------------------------------------
(* Powers and remainders.                                                  *)

LEMMA Powers ==
    /\ 2^0 = 1
    /\ \A n \in Nat : n <= 2 * ByteBits => 2^n \in Nat \ {0} /\ 2^(n + 1) = 2 * 2^n
<1>1. \A n \in Nat : n <= 2 * ByteBits => n \in 0 .. 2 * ByteBits BY ByteAssumption
<1> QED BY <1>1, PowersOfTwo

LEMMA PowerOfSum ==
    ASSUME NEW m \in Nat, NEW n \in Nat, m + n <= 2 * ByteBits
    PROVE  2^(m + n) = 2^m * 2^n
<1> DEFINE G == {k \in 0 .. n : 2^(m + k) = 2^m * 2^k}
<1>1. 0 \in G
  <2>1. m + 0 = m /\ m <= 2 * ByteBits BY ByteAssumption
  <2>2. 2^m \in Nat BY <2>1, Powers
  <2>3. 2^m * 1 = 2^m BY <2>2
  <2> QED BY <2>1, <2>3, Powers
<1>2. ASSUME NEW k \in 1 .. n, k - 1 \in G PROVE k \in G
  <2> DEFINE j == k - 1
  <2>1. j \in Nat /\ m + j \in Nat /\ m <= 2 * ByteBits
        /\ m + j <= 2 * ByteBits /\ j <= 2 * ByteBits /\ k = j + 1 /\ m + k = (m + j) + 1
    BY ByteAssumption
  <2>2. 2^(m + j) = 2^m * 2^j BY <1>2
  <2> HIDE DEF j
  <2>3. 2^((m + j) + 1) = 2 * 2^(m + j) /\ 2^(j + 1) = 2 * 2^j BY <2>1, Powers
  <2>4. 2^m \in Nat /\ 2^j \in Nat BY <2>1, Powers
  <2>5. \A a, b \in Nat : 2 * (a * b) = a * (2 * b) OBVIOUS
  <2>6. 2^(m + k) = 2^m * 2^k BY <2>1, <2>2, <2>3, <2>4, <2>5
  <2> QED BY <2>6
<1> HIDE DEF G
<1>3. n \in G
  <2>1. \A k \in 0 .. n : k \in G BY <1>1, <1>2, UpTo
  <2> QED BY <2>1
<1> QED BY <1>3 DEF G

(* What is above a multiple of d, and what is left of it.                  *)
LEMMA Above ==
    ASSUME NEW d \in Nat \ {0}, NEW q \in Int, NEW r \in 0 .. d - 1
    PROVE  (r + d * q) \div d = q /\ (r + d * q) % d = r
<1> DEFINE x == r + d * q
           t == x \div d
           s == x % d
<1>1. t \in Int /\ s \in 0 .. d - 1 /\ x = d * t + s /\ x \in Int OBVIOUS
<1>2. d * q + r = d * t + s BY <1>1
<1> HIDE DEF t, s, x
<1>3. q = t
  <2>1. d * (q - t) = s - r BY <1>1, <1>2
  <2>2. s - r < d /\ -d < s - r BY <1>1
  <2> DEFINE e == q - t
  <2>3. e \in Int BY <1>1
  <2>4. d * e < d /\ -d < d * e BY <2>1, <2>2
  <2> HIDE DEF e
  <2>5. e = 0
    <3>1. CASE e >= 1
      <4>1. d * e >= d BY <2>3, <3>1
      <4> QED BY <2>3, <2>4, <4>1
    <3>2. CASE e <= -1
      <4>1. d * e <= -d BY <2>3, <3>2
      <4> QED BY <2>3, <2>4, <4>1
    <3> QED BY <2>3, <3>1, <3>2
  <2> QED BY <1>1, <2>5 DEF e
<1> QED BY <1>1, <1>2, <1>3 DEF t, s, x

LEMMA Parts ==
    ASSUME NEW x \in Int, NEW d \in Nat \ {0}
    PROVE  /\ x \div d \in Int /\ x % d \in 0 .. d - 1 /\ x = d * (x \div d) + (x % d)
           /\ x \in Nat => x \div d \in Nat
<1>1. x \div d \in Int OBVIOUS
<1>2. x % d \in 0 .. d - 1 OBVIOUS
<1>3. x = d * (x \div d) + (x % d) OBVIOUS
<1>4. x \in Nat => x \div d \in Nat OBVIOUS
<1> QED BY <1>1, <1>2, <1>3, <1>4

Multiples(d) == {d * k : k \in Nat}

LEMMA MultiplesAdd ==
    ASSUME NEW d \in Nat \ {0}
    PROVE  /\ 0 \in Multiples(d) /\ Multiples(d) \subseteq Nat
           /\ \A x, y \in Multiples(d) : x + y \in Multiples(d)
           /\ \A x \in Multiples(d), k \in Nat : x * k \in Multiples(d)
<1>1. 0 = d * 0 OBVIOUS
<1>2. ASSUME NEW x \in Multiples(d), NEW y \in Multiples(d) PROVE x + y \in Multiples(d)
  <2>1. PICK k, j \in Nat : x = d * k /\ y = d * j BY DEF Multiples
  <2>2. x + y = d * (k + j) /\ k + j \in Nat BY <2>1
  <2> QED BY <2>2 DEF Multiples
<1>3. ASSUME NEW x \in Multiples(d), NEW k \in Nat PROVE x * k \in Multiples(d)
  <2>1. PICK j \in Nat : x = d * j BY DEF Multiples
  <2>2. \A a, b, c \in Nat : (a * b) * c = a * (b * c) /\ b * c \in Nat OBVIOUS
  <2>3. x * k = d * (j * k) /\ j * k \in Nat BY <2>1, <2>2
  <2> QED BY <2>3 DEF Multiples
<1> QED BY <1>1, <1>2, <1>3 DEF Multiples

(* A remainder modulo a multiple.                                          *)
LEMMA RestOfMultiple ==
    ASSUME NEW d \in Nat \ {0}, NEW x \in Multiples(d), NEW e \in Multiples(d) \ {0}
    PROVE  x % e \in Multiples(d)
<1>1. PICK k, j \in Nat : x = d * k /\ e = d * j BY DEF Multiples
<1>2. j # 0 BY <1>1
<1>3. k \div j \in Nat /\ k % j \in 0 .. j - 1 /\ k = j * (k \div j) + (k % j)
  <2>1. j \in Nat \ {0} /\ k \in Int BY <1>2
  <2> QED BY <2>1, Parts
<1> DEFINE r == d * (k % j)
           q == k \div j
<1>4. r \in 0 .. e - 1
  <2> DEFINE m == k % j
  <2>1. m \in Nat /\ m <= j - 1 BY <1>3
  <2> HIDE DEF m
  <2>2. d * m \in Nat /\ d * m <= d * (j - 1) BY <1>2, <2>1
  <2>3. d * (j - 1) = d * j - d BY <1>2
  <2>4. d * j \in Nat OBVIOUS
  <2> QED BY <1>1, <2>2, <2>3, <2>4 DEF m
<1>5. x = r + e * q
  <2> DEFINE m == k % j
  <2>1. m \in Nat /\ q \in Nat /\ k = j * q + m BY <1>3
  <2> HIDE DEF m, q
  <2>2. \A a, b, c, g \in Nat : a * (b * c + g) = a * g + (a * b) * c OBVIOUS
  <2> QED BY <1>1, <2>1, <2>2 DEF m
<1>6. e \in Nat \ {0} BY <1>1
<1>7. x % e = r
  <2> HIDE DEF r, q
  <2>1. q \in Int BY <1>3 DEF q
  <2> QED BY <1>4, <1>5, <1>6, <2>1, Above
<1>8. k % j \in Nat BY <1>3
<1> QED BY <1>7, <1>8 DEF Multiples

LEMMA SumOfMultiples ==
    ASSUME NEW d \in Nat \ {0}, NEW S, IsFiniteSet(S), NEW F, \A x \in S : F[x] \in Multiples(d)
    PROVE  Sum(F, S) \in Multiples(d)
<1> DEFINE C == {T \in SUBSET S : Sum(F, T) \notin Multiples(d)}
<1>1. SUFFICES ASSUME C # {} PROVE FALSE OBVIOUS
<1>2. \A T \in C : IsFiniteSet(T) BY FS_Subset
<1> HIDE DEF C
<1>3. PICK T \in C : \A U \in C : Cardinality(T) <= Cardinality(U) BY <1>1, <1>2, SmallestSet
<1>4. T \in SUBSET S /\ IsFiniteSet(T) /\ Sum(F, T) \notin Multiples(d) BY <1>2 DEF C
<1>5. T # {} BY <1>4, SumSteps, MultiplesAdd
<1> DEFINE p == Pick(T)
           u == T \ {p}
<1>6. p \in T /\ Sum(F, T) = F[p] + Sum(F, u) BY <1>4, <1>5, SumSteps
<1>7. u \notin C
  <2>1. IsFiniteSet(u) /\ Cardinality(u) < Cardinality(T) BY <1>4, <1>6, OneLess
  <2>2. Cardinality(u) \in Nat /\ Cardinality(T) \in Nat BY <1>4, <2>1, FS_CardinalityType
  <2> QED BY <1>3, <2>1, <2>2
<1>8. Sum(F, u) \in Multiples(d) BY <1>4, <1>7 DEF C
<1>9. F[p] \in Multiples(d) BY <1>4, <1>6
<1> HIDE DEF p, u
<1> QED BY <1>4, <1>6, <1>8, <1>9, MultiplesAdd

-----------------------------------------------------------------------------
(* Where the components' bits lie.                                         *)

Wide(bits) == bits \in 1 .. ByteBits

LEMMA Place ==
    ASSUME NEW bits, Wide(bits), NEW i \in Nat \ {0}
    PROVE  /\ Offset(i, bits) \in Nat \ {0} /\ Shift(i, bits) \in 0 .. ByteBits - 1
           /\ (i - 1) * bits = ByteBits * (Offset(i, bits) - 1) + Shift(i, bits)
<1> DEFINE x == (i - 1) * bits
<1>1. x \in Nat /\ ByteBits \in Nat \ {0} BY ByteAssumption DEF Wide
<1> HIDE DEF x
<1>2. /\ x \div ByteBits \in Nat /\ x % ByteBits \in 0 .. ByteBits - 1
      /\ x = ByteBits * (x \div ByteBits) + (x % ByteBits)
  <2>1. x \in Int BY <1>1
  <2> QED BY <1>1, <2>1, Parts
<1> DEFINE t == x \div ByteBits
<1>3. Offset(i, bits) = t + 1 /\ Shift(i, bits) = x % ByteBits BY DEF Offset, Shift, x
<1>4. t \in Nat /\ (t + 1) - 1 = t BY <1>2
<1> HIDE DEF t
<1> QED BY <1>2, <1>3, <1>4 DEF t, x

(* A later component of the same byte is shifted by bits more, one that    *)
(* begins in the next byte by as many bits as the byte had left for it.    *)
LEMMA Later ==
    ASSUME NEW bits, Wide(bits), NEW i \in Nat \ {0}, NEW j \in Nat \ {0}, i < j
    PROVE  /\ Offset(i, bits) <= Offset(j, bits)
           /\ Offset(j, bits) = Offset(i, bits) => Shift(i, bits) + bits <= Shift(j, bits)
           /\ Offset(j, bits) = Offset(i, bits) + 1 =>
                Shift(i, bits) + bits - ByteBits <= Shift(j, bits)
<1> DEFINE a == Offset(i, bits) - 1
           b == Offset(j, bits) - 1
           s == Shift(i, bits)
           t == Shift(j, bits)
           B == ByteBits
<1>1. /\ a \in Nat /\ s \in 0 .. B - 1 /\ (i - 1) * bits = B * a + s
      /\ b \in Nat /\ t \in 0 .. B - 1 /\ (j - 1) * bits = B * b + t
  BY Place
<1>2. bits \in Nat /\ 1 <= bits /\ bits <= B /\ B \in Nat \ {0} BY ByteAssumption DEF Wide
<1>3. (i - 1) * bits + bits <= (j - 1) * bits
  <2>1. (j - 1) * bits = (i - 1) * bits + (j - i) * bits BY <1>2
  <2>2. (j - i) * bits >= bits BY <1>2
  <2>3. (i - 1) * bits \in Nat BY <1>2
  <2> QED BY <1>2, <2>1, <2>2, <2>3
<1>4. Offset(i, bits) = a + 1 /\ Offset(j, bits) = b + 1
  <2>1. Offset(i, bits) \in Nat /\ Offset(j, bits) \in Nat BY Place
  <2> QED BY <2>1
<1> HIDE DEF a, b, s, t, B
<1>5. B * a + s + bits <= B * b + t BY <1>1, <1>3
<1>6. a <= b
  <2> SUFFICES ASSUME b + 1 <= a PROVE FALSE BY <1>1
  <2>1. B * (b + 1) <= B * a BY <1>1, <1>2
  <2>2. B * (b + 1) = B * b + B BY <1>1, <1>2
  <2>3. B * a \in Nat /\ B * b \in Nat BY <1>1, <1>2
  <2> QED BY <1>1, <1>2, <1>5, <2>1, <2>2, <2>3
<1>7. b = a => s + bits <= t
  <2>1. B * a \in Nat BY <1>1, <1>2
  <2> QED BY <1>1, <1>2, <1>5, <2>1
<1>8. b = a + 1 => s + bits - B <= t
  <2>1. B * a \in Nat /\ B * (a + 1) = B * a + B BY <1>1, <1>2
  <2> QED BY <1>1, <1>2, <1>5, <2>1
<1>9. b + 1 = (a + 1) + 1 => b = a + 1 BY <1>1
<1> QED BY <1>1, <1>4, <1>6, <1>7, <1>8, <1>9 DEF s, t, B

(* The next component.                                                     *)
LEMMA NextPlace ==
    ASSUME NEW bits, Wide(bits), NEW i \in Nat \ {0}
    PROVE  \/ /\ Offset(i + 1, bits) = Offset(i, bits)
              /\ Shift(i + 1, bits) = Shift(i, bits) + bits
           \/ /\ Offset(i + 1, bits) = Offset(i, bits) + 1
              /\ Shift(i + 1, bits) = Shift(i, bits) + bits - ByteBits
<1> DEFINE a == Offset(i, bits) - 1
           b == Offset(i + 1, bits) - 1
           s == Shift(i, bits)
           t == Shift(i + 1, bits)
           B == ByteBits
<1>1. /\ a \in Nat /\ s \in 0 .. B - 1 /\ (i - 1) * bits = B * a + s
      /\ b \in Nat /\ t \in 0 .. B - 1 /\ ((i + 1) - 1) * bits = B * b + t
  <2>1. i + 1 \in Nat \ {0} OBVIOUS
  <2> QED BY <2>1, Place
<1>2. bits \in Nat /\ 1 <= bits /\ bits <= B /\ B \in Nat \ {0} BY ByteAssumption DEF Wide
<1>3. ((i + 1) - 1) * bits = (i - 1) * bits + bits BY <1>2
<1>4. Offset(i, bits) = a + 1 /\ Offset(i + 1, bits) = b + 1
  <2>1. i + 1 \in Nat \ {0} OBVIOUS
  <2>2. Offset(i, bits) \in Nat /\ Offset(i + 1, bits) \in Nat BY <2>1, Place
  <2> QED BY <2>2
<1>5. a <= b
  <2>1. i + 1 \in Nat \ {0} /\ i < i + 1 OBVIOUS
  <2>2. Offset(i, bits) <= Offset(i + 1, bits) BY <2>1, Later
  <2>3. Offset(i, bits) \in Nat /\ Offset(i + 1, bits) \in Nat BY <2>1, Place
  <2> QED BY <2>2, <2>3
<1> HIDE DEF a, b, s, t, B
<1>6. B * a + s + bits = B * b + t BY <1>1, <1>3
<1>7. b <= a + 1
  <2> SUFFICES ASSUME a + 2 <= b PROVE FALSE BY <1>1
  <2>1. B * (a + 2) <= B * b BY <1>1, <1>2
  <2>2. B * (a + 2) = B * a + B + B BY <1>1, <1>2
  <2>3. B * a \in Nat /\ B * b \in Nat BY <1>1, <1>2
  <2> QED BY <1>1, <1>2, <1>6, <2>1, <2>2, <2>3
<1>8. b = a => t = s + bits
  <2>1. B * a \in Nat BY <1>1, <1>2
  <2> QED BY <1>1, <1>2, <1>6, <2>1
<1>9. b = a + 1 => t = s + bits - B
  <2>1. B * a \in Nat /\ B * (a + 1) = B * a + B BY <1>1, <1>2
  <2> QED BY <1>1, <1>2, <1>6, <2>1
<1>10. b = a \/ b = a + 1 BY <1>1, <1>5, <1>7
<1>11. b = a + 1 => b + 1 = (a + 1) + 1 OBVIOUS
<1> QED BY <1>4, <1>8, <1>9, <1>10, <1>11 DEF s, t, B

LEMMA SumOfUnion ==
    ASSUME NEW S, NEW T, IsFiniteSet(S), IsFiniteSet(T), S \cap T = {},
           NEW F, \A x \in S \cup T : F[x] \in Int
    PROVE  Sum(F, S \cup T) = Sum(F, S) + Sum(F, T)
<1> DEFINE C == {R \in SUBSET S : Sum(F, R \cup T) # Sum(F, R) + Sum(F, T)}
<1>1. SUFFICES ASSUME C # {} PROVE FALSE OBVIOUS
<1>2. \A R \in C : IsFiniteSet(R) BY FS_Subset
<1> HIDE DEF C
<1>3. PICK R \in C : \A U \in C : Cardinality(R) <= Cardinality(U) BY <1>1, <1>2, SmallestSet
<1>4. R \in SUBSET S /\ IsFiniteSet(R) /\ Sum(F, R \cup T) # Sum(F, R) + Sum(F, T) BY <1>2 DEF C
<1>5. Sum(F, T) \in Int BY SumTyped
<1>6. R # {}
  <2> SUFFICES ASSUME R = {} PROVE FALSE OBVIOUS
  <2>1. R \cup T = T /\ Sum(F, R) = 0 BY <1>4, SumSteps
  <2> QED BY <1>4, <1>5, <2>1
<1>7. PICK p \in R : TRUE BY <1>6
<1> DEFINE U == R \ {p}
<1>8. IsFiniteSet(U) /\ U \in SUBSET S /\ U \notin C
  <2>1. IsFiniteSet(U) /\ Cardinality(U) < Cardinality(R) BY <1>4, OneLess
  <2>2. Cardinality(U) \in Nat /\ Cardinality(R) \in Nat BY <1>4, <2>1, FS_CardinalityType
  <2> QED BY <1>3, <1>4, <2>1, <2>2
<1>9. Sum(F, U \cup T) = Sum(F, U) + Sum(F, T) BY <1>8 DEF C
<1>10. Sum(F, R) = F[p] + Sum(F, U) BY <1>4, SumWithout
<1>11. Sum(F, R \cup T) = F[p] + Sum(F, U \cup T)
  <2>1. IsFiniteSet(R \cup T) BY <1>4, FS_Union
  <2>2. p \in R \cup T /\ \A x \in R \cup T : F[x] \in Int BY <1>4
  <2>3. Sum(F, R \cup T) = F[p] + Sum(F, (R \cup T) \ {p}) BY <2>1, <2>2, SumWithout
  <2>4. (R \cup T) \ {p} = U \cup T BY <1>4
  <2> QED BY <2>3, <2>4
<1>12. F[p] \in Int /\ Sum(F, U) \in Int
  <2>1. Sum(F, U) \in Int BY <1>8, SumTyped
  <2> QED BY <1>4, <2>1
<1> HIDE DEF U
<1> QED BY <1>4, <1>5, <1>9, <1>10, <1>11, <1>12

LEMMA QuotientAtLeast ==
    ASSUME NEW d \in Nat \ {0}, NEW k \in Nat, NEW x \in Nat, d * k <= x
    PROVE  k <= x \div d
<1> DEFINE q == x \div d
           r == x % d
<1>1. q \in Int /\ r \in 0 .. d - 1 /\ x = d * q + r
  <2>1. x \in Int OBVIOUS
  <2> QED BY <2>1, Parts
<1> HIDE DEF q, r
<1>2. SUFFICES ASSUME q + 1 <= k PROVE FALSE BY <1>1 DEF q
<1>3. d * (q + 1) <= d * k BY <1>1, <1>2
<1>4. d * (q + 1) = d * q + d /\ d * q \in Int /\ d * k \in Int BY <1>1
<1> QED BY <1>1, <1>3, <1>4

LEMMA InBytes ==
    ASSUME NEW bits, Wide(bits), NEW n \in Nat, NEW i \in 1 .. n
    PROVE  /\ Offset(i, bits) \in 1 .. Bytes(n * bits)
           /\ ByteBits - Shift(i, bits) < bits => Offset(i, bits) + 1 \in 1 .. Bytes(n * bits)
<1> DEFINE o == Offset(i, bits)
           s == Shift(i, bits)
           B == ByteBits
           y == n * bits + B - 1
<1>1. /\ o \in Nat \ {0} /\ s \in 0 .. B - 1 /\ (i - 1) * bits = B * (o - 1) + s
  BY Place
<1>2. bits \in Nat /\ 1 <= bits /\ bits <= B /\ B \in Nat \ {0} BY ByteAssumption DEF Wide
<1>3. (i - 1) * bits + bits <= n * bits
  <2>1. n * bits = (i - 1) * bits + (n - (i - 1)) * bits BY <1>2
  <2>2. (n - (i - 1)) * bits >= bits BY <1>2
  <2>3. (i - 1) * bits \in Nat BY <1>2
  <2> QED BY <1>2, <2>1, <2>2, <2>3
<1>4. n * bits \in Nat /\ Bytes(n * bits) = y \div B BY <1>2 DEF Bytes
<1> HIDE DEF o, s, B
<1>5. B * o = B * (o - 1) + B /\ B * (o + 1) = B * (o - 1) + B + B /\ B * (o - 1) \in Nat
  BY <1>1, <1>2
<1>6. y \in Nat /\ B * o <= y BY <1>1, <1>2, <1>3, <1>4, <1>5
<1>7. B - s < bits => B * (o + 1) <= y BY <1>1, <1>2, <1>3, <1>4, <1>5
<1> HIDE DEF y
<1>8. o <= y \div B BY <1>1, <1>2, <1>6, QuotientAtLeast
<1>9. B - s < bits => o + 1 <= y \div B
  <2>1. o + 1 \in Nat BY <1>1
  <2> QED BY <1>2, <1>6, <1>7, <2>1, QuotientAtLeast
<1>10. y \div B \in Int
  <2>1. y \in Int BY <1>6
  <2> QED BY <1>2, <2>1, Parts
<1> QED BY <1>1, <1>4, <1>8, <1>9, <1>10 DEF o, s, B

-----------------------------------------------------------------------------
(* The bits of one component.                                              *)

Raws(bits) == 0 .. 2^bits - 1

LEMMA WidthPowers ==
    ASSUME NEW bits, Wide(bits), NEW s \in 0 .. ByteBits - 1
    PROVE  /\ 2^s \in Nat \ {0} /\ 2^bits \in Nat \ {0} /\ 2^ByteBits \in Nat \ {0}
           /\ 2^(s + bits) = 2^s * 2^bits
           /\ ByteBits - s \in Nat /\ 2^(ByteBits - s) \in Nat \ {0}
           /\ 2^ByteBits = 2^s * 2^(ByteBits - s)
           /\ s + bits <= ByteBits =>
                /\ ByteBits - (s + bits) \in Nat
                /\ 2^(ByteBits - (s + bits)) \in Nat \ {0}
                /\ 2^ByteBits = 2^(s + bits) * 2^(ByteBits - (s + bits))
           /\ s + bits > ByteBits =>
                /\ s + bits - ByteBits \in Nat /\ 2^(s + bits - ByteBits) \in Nat \ {0}
                /\ 2^bits = 2^(ByteBits - s) * 2^(s + bits - ByteBits)
<1>1. /\ ByteBits \in Nat \ {0} /\ bits \in Nat /\ bits <= ByteBits /\ s \in Nat
      /\ s <= 2 * ByteBits /\ bits <= 2 * ByteBits /\ ByteBits <= 2 * ByteBits
      /\ s + bits <= 2 * ByteBits
  BY ByteAssumption DEF Wide
<1>2. 2^s \in Nat \ {0} /\ 2^bits \in Nat \ {0} /\ 2^ByteBits \in Nat \ {0} BY <1>1, Powers
<1>3. 2^(s + bits) = 2^s * 2^bits BY <1>1, PowerOfSum
<1>4. /\ ByteBits - s \in Nat /\ 2^(ByteBits - s) \in Nat \ {0}
      /\ 2^ByteBits = 2^s * 2^(ByteBits - s)
  <2> DEFINE u == ByteBits - s
  <2>1. u \in Nat /\ u <= 2 * ByteBits /\ s + u = ByteBits BY <1>1
  <2> HIDE DEF u
  <2>2. 2^(s + u) = 2^s * 2^u BY <1>1, <2>1, PowerOfSum
  <2>3. 2^u \in Nat \ {0} BY <2>1, Powers
  <2> QED BY <2>1, <2>2, <2>3 DEF u
<1>5. ASSUME s + bits <= ByteBits
      PROVE  /\ ByteBits - (s + bits) \in Nat
             /\ 2^(ByteBits - (s + bits)) \in Nat \ {0}
             /\ 2^ByteBits = 2^(s + bits) * 2^(ByteBits - (s + bits))
  <2> DEFINE u == ByteBits - (s + bits)
             t == s + bits
  <2>1. u \in Nat /\ t \in Nat /\ u <= 2 * ByteBits /\ t + u = ByteBits /\ t + u <= 2 * ByteBits
    BY <1>1, <1>5
  <2> HIDE DEF u, t
  <2>2. 2^(t + u) = 2^t * 2^u BY <2>1, PowerOfSum
  <2>3. 2^u \in Nat \ {0} BY <2>1, Powers
  <2> QED BY <2>1, <2>2, <2>3 DEF u, t
<1>6. ASSUME s + bits > ByteBits
      PROVE  /\ s + bits - ByteBits \in Nat /\ 2^(s + bits - ByteBits) \in Nat \ {0}
             /\ 2^bits = 2^(ByteBits - s) * 2^(s + bits - ByteBits)
  <2> DEFINE u == ByteBits - s
             t == s + bits - ByteBits
  <2>1. u \in Nat /\ t \in Nat /\ t <= 2 * ByteBits /\ u + t = bits /\ u + t <= 2 * ByteBits
    BY <1>1, <1>6
  <2> HIDE DEF u, t
  <2>2. 2^(u + t) = 2^u * 2^t BY <2>1, PowerOfSum
  <2>3. 2^t \in Nat \ {0} BY <2>1, Powers
  <2> QED BY <2>1, <2>2, <2>3 DEF u, t
<1> QED BY <1>2, <1>3, <1>4, <1>5, <1>6

LEMMA Quotient ==
    ASSUME NEW d \in Nat \ {0}, NEW e \in Nat \ {0}, NEW x \in 0 .. d * e - 1
    PROVE  x \div d \in 0 .. e - 1
<1> DEFINE q == x \div d
           r == x % d
<1>0. d * e \in Nat OBVIOUS
<1>1. q \in Nat /\ r \in 0 .. d - 1 /\ x = d * q + r
  <2>1. x \in Nat /\ x \in Int BY <1>0
  <2> QED BY <2>1, Parts
<1>2. SUFFICES ASSUME e <= q PROVE FALSE BY <1>1
<1> HIDE DEF q, r
<1>3. d * e <= d * q BY <1>1, <1>2
<1>4. d * e \in Nat /\ d * q \in Nat BY <1>1
<1> QED BY <1>1, <1>3, <1>4

LEMMA Component ==
    ASSUME NEW bits, Wide(bits), NEW raw \in Seq(Raws(bits)), NEW i \in 1 .. Len(raw),
           NEW s, s = Shift(i, bits)
    PROVE  /\ s \in 0 .. ByteBits - 1 /\ raw[i] \in Nat /\ raw[i] <= 2^bits - 1
           /\ LowBits(raw, bits)[i] \in Multiples(2^s)
           /\ HighBits(raw, bits)[i] \in Nat
           /\ s + bits <= ByteBits => LowBits(raw, bits)[i] = 2^s * raw[i]
           /\ s + bits > ByteBits =>
                /\ LowBits(raw, bits)[i] = 2^s * (raw[i] % 2^(ByteBits - s))
                /\ HighBits(raw, bits)[i] \in 0 .. 2^(s + bits - ByteBits) - 1
                /\ raw[i] = 2^(ByteBits - s) * HighBits(raw, bits)[i] + (raw[i] % 2^(ByteBits - s))
                /\ raw[i] % 2^(ByteBits - s) \in 0 .. 2^(ByteBits - s) - 1
<1>1. s \in 0 .. ByteBits - 1
  <2>1. i \in Nat \ {0} OBVIOUS
  <2> QED BY <2>1, Place
<1> DEFINE P == 2^s
           W == 2^bits
           M == 2^ByteBits
           U == 2^(ByteBits - s)
           r == raw[i]
<1>2. /\ P \in Nat \ {0} /\ W \in Nat \ {0} /\ M \in Nat \ {0} /\ U \in Nat \ {0} /\ M = P * U
      /\ 2^(s + bits) = P * W
      /\ s + bits <= ByteBits => 2^(ByteBits - (s + bits)) \in Nat \ {0}
                                 /\ M = 2^(s + bits) * 2^(ByteBits - (s + bits))
      /\ s + bits > ByteBits => 2^(s + bits - ByteBits) \in Nat \ {0}
                                /\ W = U * 2^(s + bits - ByteBits)
  BY <1>1, WidthPowers
<1>3. r \in Nat /\ r <= W - 1
  <2>1. r \in Raws(bits) OBVIOUS
  <2> QED BY <1>2, <2>1 DEF Raws
<1>4. LowBits(raw, bits)[i] = (r * P) % M /\ HighBits(raw, bits)[i] = r \div U
  BY DEF LowBits, HighBits
<1> HIDE DEF P, W, M, U, r
<1>5. (r * P) % M \in Multiples(P)
  <2>1. P * r \in Multiples(P) BY <1>3 DEF Multiples
  <2>2. P * r = r * P BY <1>2, <1>3
  <2>3. M \in Multiples(P) \ {0} BY <1>2 DEF Multiples
  <2> QED BY <1>2, <2>1, <2>2, <2>3, RestOfMultiple
<1>6. r \div U \in Nat /\ r = U * (r \div U) + (r % U) /\ r % U \in 0 .. U - 1
  <2>1. r \in Int BY <1>3
  <2> QED BY <1>2, <1>3, <2>1, Parts
<1>7. ASSUME s + bits <= ByteBits PROVE (r * P) % M = P * r
  <2> DEFINE K == 2^(ByteBits - (s + bits))
             E == P * W
  <2>1. K \in Nat \ {0} /\ M = E * K /\ E \in Nat BY <1>2, <1>7
  <2>2. E <= M
    <3> HIDE DEF E, K
    <3> QED BY <2>1
  <2>3. P * r <= E - P
    <3>1. P * r <= P * (W - 1) BY <1>2, <1>3
    <3>2. P * (W - 1) = P * W - P BY <1>2
    <3> QED BY <3>1, <3>2
  <2>4. P * r \in Nat /\ r * P = P * r BY <1>2, <1>3
  <2>5. P * r \in 0 .. M - 1
    <3> DEFINE x == P * r
    <3>1. x \in Nat /\ x <= E - P BY <2>3, <2>4
    <3> HIDE DEF x, E
    <3> QED BY <1>2, <2>1, <2>2, <3>1 DEF x
  <2>6. (P * r + M * 0) % M = P * r
    <3> DEFINE x == P * r
    <3>1. x \in 0 .. M - 1 /\ 0 \in Int BY <2>5
    <3> HIDE DEF x
    <3>2. (x + M * 0) % M = x BY <1>2, <3>1, Above
    <3> QED BY <3>2 DEF x
  <2>7. P * r + M * 0 = P * r BY <1>2, <2>4
  <2> QED BY <2>4, <2>6, <2>7
<1>8. ASSUME s + bits > ByteBits
      PROVE  /\ (r * P) % M = P * (r % U)
             /\ r \div U \in 0 .. 2^(s + bits - ByteBits) - 1
  <2> DEFINE q == r \div U
             t == r % U
             D == 2^(s + bits - ByteBits)
  <2>1. q \in Nat /\ t \in 0 .. U - 1 /\ r = U * q + t BY <1>6
  <2>2. D \in Nat \ {0} /\ W = U * D BY <1>2, <1>8
  <2> HIDE DEF t, D
  <2>3. q \in 0 .. D - 1
    <3>1. r \in 0 .. U * D - 1 BY <1>2, <1>3, <2>2
    <3> QED BY <1>2, <2>2, <3>1, Quotient
  <2> HIDE DEF q
  <2>4. r * P = P * t + M * q
    <3>1. \A a, b, c, d \in Nat : (a * b + c) * d = d * c + (d * a) * b OBVIOUS
    <3> QED BY <1>2, <2>1, <3>1
  <2>5. P * t \in 0 .. M - 1
    <3>1. P * t <= P * (U - 1) /\ P * t \in Nat BY <1>2, <2>1
    <3>2. P * (U - 1) = P * U - P BY <1>2
    <3>3. P * U \in Nat BY <1>2
    <3> QED BY <1>2, <3>1, <3>2, <3>3
  <2>6. (P * t + M * q) % M = P * t
    <3>1. q \in Int BY <2>1
    <3> QED BY <1>2, <2>5, <3>1, Above
  <2> QED BY <2>3, <2>4, <2>6 DEF q, t, D
<1> QED BY <1>1, <1>3, <1>4, <1>5, <1>6, <1>7, <1>8 DEF P, W, M, U, r

-----------------------------------------------------------------------------
(* The bits of one byte.                                                   *)

Before(raw, bits, i) == {j \in Begins(raw, bits, Offset(i, bits)) : j < i}
After(raw, bits, b, i) == {j \in Begins(raw, bits, b) : j > i}
Under(raw, bits, i) ==
    Sum(LowBits(raw, bits), Before(raw, bits, i))
    + Sum(HighBits(raw, bits), Straddles(raw, bits, Offset(i, bits)))

LEMMA ByteSets ==
    ASSUME NEW bits, NEW raw \in Seq(Raws(bits)), NEW b
    PROVE  /\ IsFiniteSet(Begins(raw, bits, b)) /\ IsFiniteSet(Straddles(raw, bits, b))
           /\ \A i : IsFiniteSet(Before(raw, bits, i)) /\ IsFiniteSet(After(raw, bits, b, i))
           /\ Begins(raw, bits, b) \subseteq 1..Len(raw)
           /\ Straddles(raw, bits, b) \subseteq 1..Len(raw)
<1>1. IsFiniteSet(1..Len(raw))
  <2>1. 1 \in Int /\ Len(raw) \in Int OBVIOUS
  <2> QED BY <2>1, FS_Interval
<1>2. \A T \in SUBSET (1..Len(raw)) : IsFiniteSet(T) BY <1>1, FS_Subset
<1>3. /\ \A c : Begins(raw, bits, c) \in SUBSET (1..Len(raw))
      /\ Straddles(raw, bits, b) \in SUBSET (1..Len(raw))
  BY DEF Begins, Straddles
<1>4. \A i : /\ Before(raw, bits, i) \in SUBSET (1..Len(raw))
             /\ After(raw, bits, b, i) \in SUBSET (1..Len(raw))
  BY <1>3 DEF Before, After
<1> QED BY <1>2, <1>3, <1>4

LEMMA BitsTyped ==
    ASSUME NEW bits, Wide(bits), NEW raw \in Seq(Raws(bits))
    PROVE  \A i \in 1..Len(raw) : LowBits(raw, bits)[i] \in Nat /\ HighBits(raw, bits)[i] \in Nat
<1> TAKE i \in 1..Len(raw)
<1>1. PICK s : s = Shift(i, bits) OBVIOUS
<1>2. /\ s \in 0 .. ByteBits - 1 /\ LowBits(raw, bits)[i] \in Multiples(2^s)
      /\ HighBits(raw, bits)[i] \in Nat
  BY <1>1, Component
<1>3. 2^s \in Nat \ {0} BY <1>2, WidthPowers
<1> QED BY <1>2, <1>3, MultiplesAdd

LEMMA Places ==
    ASSUME NEW bits, Wide(bits), NEW n \in Nat
    PROVE  \A j \in 1..n : /\ j \in Nat \ {0}
                          /\ Offset(j, bits) \in Nat \ {0} /\ Shift(j, bits) \in Nat
                          /\ Shift(j, bits) < ByteBits
<1> TAKE j \in 1..n
<1>1. j \in Nat \ {0} /\ ByteBits \in Nat BY ByteAssumption
<1>2. Offset(j, bits) \in Nat \ {0} /\ Shift(j, bits) \in 0 .. ByteBits - 1 BY <1>1, Place
<1> QED BY <1>1, <1>2

(* What the earlier components leave in a byte stays under the place of    *)
(* the next one.                                                           *)
LEMMA UnderFirst ==
    ASSUME NEW bits, Wide(bits), NEW raw \in Seq(Raws(bits)), 1 \in 1..Len(raw)
    PROVE  Under(raw, bits, 1) \in 0 .. 2^Shift(1, bits) - 1
<1>1. Offset(1, bits) = 1 /\ Shift(1, bits) = 0
  <2>1. /\ Offset(1, bits) \in Nat \ {0} /\ Shift(1, bits) \in 0 .. ByteBits - 1
        /\ (1 - 1) * bits = ByteBits * (Offset(1, bits) - 1) + Shift(1, bits)
    <3>1. 1 \in Nat \ {0} OBVIOUS
    <3> QED BY <3>1, Place
  <2>2. (1 - 1) * bits = 0 /\ ByteBits \in Nat \ {0} BY ByteAssumption DEF Wide
  <2> DEFINE t == Offset(1, bits) - 1
             s == Shift(1, bits)
  <2>3. t \in Nat /\ s \in Nat /\ ByteBits * t + s = 0 /\ Offset(1, bits) = t + 1 BY <2>1, <2>2
  <2> HIDE DEF t, s
  <2>4. t = 0 /\ s = 0
    <3>1. t # 0 => ByteBits * t >= 1 BY <2>2, <2>3
    <3>2. ByteBits * t \in Nat BY <2>2, <2>3
    <3> QED BY <2>3, <3>1, <3>2
  <2> QED BY <2>3, <2>4 DEF s
<1>2. Before(raw, bits, 1) = {}
  <2>1. \A j \in 1..Len(raw) : ~(j < 1) OBVIOUS
  <2> QED BY <2>1 DEF Before, Begins
<1>3. Straddles(raw, bits, 1) = {}
  <2>1. \A j \in 1..Len(raw) : Offset(j, bits) \in Nat \ {0}
    <3>1. \A j \in 1..Len(raw) : j \in Nat \ {0} OBVIOUS
    <3> QED BY <3>1, Place
  <2>2. \A j \in 1..Len(raw) : Offset(j, bits) + 1 # 1 BY <2>1
  <2> QED BY <2>2 DEF Straddles
<1>4. Sum(LowBits(raw, bits), {}) = 0 /\ Sum(HighBits(raw, bits), {}) = 0
  <2>1. IsFiniteSet({}) BY FS_EmptySet
  <2> QED BY <2>1, SumSteps
<1>5. Under(raw, bits, 1) = 0 BY <1>1, <1>2, <1>3, <1>4 DEF Under
<1>6. 2^Shift(1, bits) = 1 BY <1>1, Powers
<1>7. 0 \in 0 .. 1 - 1 OBVIOUS
<1> QED BY <1>5, <1>6, <1>7

(* Who straddles into a byte: the last of the byte before, if anyone.      *)
LEMMA StraddlesIs ==
    ASSUME NEW bits, Wide(bits), NEW raw \in Seq(Raws(bits)), NEW i \in 1..Len(raw),
           \/ Offset(i + 1, bits) = Offset(i, bits) + 1
           \/ Shift(i, bits) + bits > ByteBits
    PROVE  Straddles(raw, bits, Offset(i, bits) + 1)
             = IF Shift(i, bits) + bits > ByteBits THEN {i} ELSE {}
<1>0. /\ i \in Nat \ {0} /\ i + 1 \in Nat \ {0}
      /\ bits \in Nat /\ ByteBits \in Nat \ {0}
  BY ByteAssumption DEF Wide
<1>1. \A j \in 1..Len(raw) : j \in Nat \ {0} OBVIOUS
<1>2. \A j \in 1..Len(raw) : /\ Offset(j, bits) \in Nat /\ Shift(j, bits) \in Nat
                             /\ Shift(j, bits) < ByteBits
  BY <1>0, <1>1, Place
<1>3. \A j \in 1..Len(raw) :
        Offset(j, bits) + 1 = Offset(i, bits) + 1 => Offset(j, bits) = Offset(i, bits)
  BY <1>2
<1>4. \A j \in 1..Len(raw) : ByteBits - Shift(j, bits) < bits <=> Shift(j, bits) + bits > ByteBits
  BY <1>0, <1>2
<1>5. ASSUME NEW j \in 1..Len(raw), Offset(j, bits) = Offset(i, bits),
             Shift(j, bits) + bits > ByteBits
      PROVE  j = i
  <2>1. CASE j < i
    <3>1. Shift(j, bits) + bits <= Shift(i, bits) BY <1>0, <1>1, <1>5, <2>1, Later
    <3> QED BY <1>0, <1>2, <1>5, <3>1
  <2>2. CASE i < j
    <3>1. Shift(i, bits) + bits <= Shift(j, bits) BY <1>0, <1>1, <1>5, <2>2, Later
    <3>2. ~(Shift(i, bits) + bits > ByteBits) BY <1>0, <1>2, <3>1
    <3>3. Offset(i + 1, bits) = Offset(i, bits) + 1 BY <3>2
    <3>4. Offset(i + 1, bits) <= Offset(j, bits)
      <4>1. CASE j = i + 1
        <5>1. Offset(j, bits) \in Nat BY <1>2
        <5> QED BY <4>1, <5>1
      <4>2. CASE i + 1 < j BY <1>0, <1>1, <4>2, Later
      <4> QED BY <2>2, <4>1, <4>2
    <3> QED BY <1>2, <1>5, <3>3, <3>4
  <2> QED BY <2>1, <2>2
<1>6. CASE Shift(i, bits) + bits > ByteBits
  <2>1. i \in Straddles(raw, bits, Offset(i, bits) + 1) BY <1>4, <1>6 DEF Straddles
  <2>2. \A j \in Straddles(raw, bits, Offset(i, bits) + 1) : j = i
    BY <1>3, <1>4, <1>5 DEF Straddles
  <2> QED BY <1>6, <2>1, <2>2
<1>7. CASE ~(Shift(i, bits) + bits > ByteBits)
  <2>1. \A j \in Straddles(raw, bits, Offset(i, bits) + 1) :
           j = i /\ Shift(j, bits) + bits > ByteBits
    BY <1>3, <1>4, <1>5 DEF Straddles
  <2> QED BY <1>7, <2>1
<1> QED BY <1>6, <1>7

LEMMA UnderNext ==
    ASSUME NEW bits, Wide(bits), NEW raw \in Seq(Raws(bits)), NEW i \in 1..Len(raw),
           i + 1 \in 1..Len(raw), Under(raw, bits, i) \in 0 .. 2^Shift(i, bits) - 1
    PROVE  Under(raw, bits, i + 1) \in 0 .. 2^Shift(i + 1, bits) - 1
<1> DEFINE n == i + 1
<1>0. /\ i \in Nat \ {0} /\ n \in Nat \ {0} /\ i < n /\ n \in 1..Len(raw)
      /\ bits \in Nat /\ 1 <= bits /\ ByteBits \in Nat \ {0}
  BY ByteAssumption DEF Wide
<1>1. \A j \in 1..Len(raw) : j \in Nat \ {0} OBVIOUS
<1>2. \A j \in 1..Len(raw) : /\ Offset(j, bits) \in Nat /\ Shift(j, bits) \in Nat
                             /\ Shift(j, bits) < ByteBits
  <2>1. Len(raw) \in Nat OBVIOUS
  <2> QED BY <2>1, Places
<1> DEFINE o == Offset(i, bits)
           s == Shift(i, bits)
           Low == LowBits(raw, bits)
           High == HighBits(raw, bits)
<1>3. /\ s \in 0 .. ByteBits - 1 /\ raw[i] \in Nat /\ raw[i] <= 2^bits - 1
      /\ s + bits <= ByteBits => Low[i] = 2^s * raw[i]
      /\ s + bits > ByteBits => High[i] \in 0 .. 2^(s + bits - ByteBits) - 1
  BY Component
<1>4. /\ 2^s \in Nat \ {0} /\ 2^bits \in Nat \ {0} /\ 2^(s + bits) = 2^s * 2^bits
  BY <1>3, WidthPowers
<1>5. \A j \in 1..Len(raw) : Low[j] \in Nat /\ High[j] \in Nat BY BitsTyped
<1>6. CASE Offset(n, bits) = o /\ Shift(n, bits) = s + bits
  <2>1. Before(raw, bits, n) \ {i} = Before(raw, bits, i) /\ i \in Before(raw, bits, n)
    <3>1. \A j \in 1..Len(raw) : j < i + 1 <=> j < i \/ j = i OBVIOUS
    <3>2. i \in Begins(raw, bits, o) BY DEF Begins
    <3>3. \A j \in Begins(raw, bits, o) : j \in 1..Len(raw) BY DEF Begins
    <3> QED BY <1>0, <1>6, <3>1, <3>2, <3>3 DEF Before
  <2>2. Before(raw, bits, n) \subseteq 1..Len(raw) BY DEF Before, Begins
  <2>3. Sum(Low, Before(raw, bits, n)) = Low[i] + Sum(Low, Before(raw, bits, i))
    <3>1. IsFiniteSet(Before(raw, bits, n)) BY ByteSets
    <3>2. \A x \in Before(raw, bits, n) : Low[x] \in Int BY <1>5, <2>2
    <3> HIDE DEF Low, n
    <3>3. Sum(Low, Before(raw, bits, n)) = Low[i] + Sum(Low, Before(raw, bits, n) \ {i})
      BY <2>1, <3>1, <3>2, SumWithout
    <3> QED BY <2>1, <3>3
  <2> DEFINE A == Sum(Low, Before(raw, bits, i))
             H == Sum(High, Straddles(raw, bits, o))
  <2>4. A \in Int /\ H \in Int
    <3>1. IsFiniteSet(Before(raw, bits, i)) /\ IsFiniteSet(Straddles(raw, bits, o)) BY ByteSets
    <3>2. Before(raw, bits, i) \subseteq 1..Len(raw) /\ Straddles(raw, bits, o) \subseteq 1..Len(raw)
      BY <2>1, <2>2, ByteSets
    <3>3. \A x \in Before(raw, bits, i) : Low[x] \in Int BY <1>5, <3>2
    <3>4. \A x \in Straddles(raw, bits, o) : High[x] \in Int BY <1>5, <3>2
    <3> QED BY <3>1, <3>3, <3>4, SumTyped
  <2>5. Under(raw, bits, i) = A + H /\ Under(raw, bits, n) = (Low[i] + A) + H
    BY <1>6, <2>3 DEF Under
  <2>6. Low[i] = 2^s * raw[i]
    <3>1. s + bits <= ByteBits BY <1>0, <1>2, <1>6
    <3> QED BY <1>3, <3>1
  <2>7. 2^s * raw[i] \in Nat /\ 2^s * raw[i] <= 2^s * 2^bits - 2^s
    <3> DEFINE P == 2^s
               W == 2^bits
               r == raw[i]
    <3>1. P \in Nat \ {0} /\ W \in Nat \ {0} /\ r \in Nat /\ r <= W - 1 BY <1>3, <1>4
    <3> HIDE DEF P, W, r
    <3>2. P * r <= P * (W - 1) BY <3>1
    <3>3. P * (W - 1) = P * W - P BY <3>1
    <3>4. P * r \in Nat BY <3>1
    <3> QED BY <3>2, <3>3, <3>4 DEF P, W, r
  <2> DEFINE x == Low[i]
             y == 2^s
             z == 2^s * 2^bits
  <2>8. x \in Nat /\ x <= z - y /\ A + H \in 0 .. y - 1 /\ y \in Nat /\ z \in Nat
    <3>1. z \in Nat BY <1>4
    <3> QED BY <1>4, <2>5, <2>6, <2>7, <3>1
  <2>9. Under(raw, bits, n) = x + (A + H) BY <2>4, <2>5, <2>8
  <2>10. 2^Shift(n, bits) = z BY <1>4, <1>6
  <2> HIDE DEF A, H, x, y, z, n
  <2>11. x + (A + H) \in 0 .. z - 1 BY <2>4, <2>8
  <2> QED BY <2>9, <2>10, <2>11 DEF n
<1>7. CASE Offset(n, bits) = o + 1 /\ Shift(n, bits) = s + bits - ByteBits
  <2>1. Before(raw, bits, n) = {}
    <3>1. \A j \in 1..Len(raw) : j < n => Offset(j, bits) # o + 1
      <4> TAKE j \in 1..Len(raw)
      <4> HAVE j < n
      <4>1. Offset(j, bits) <= o
        <5>1. CASE j = i BY <1>2, <5>1
        <5>2. CASE j < i BY <1>0, <1>1, <5>2, Later
        <5> QED BY <5>1, <5>2
      <4>2. Offset(j, bits) \in Nat /\ o \in Nat BY <1>2
      <4> QED BY <4>1, <4>2
    <3> QED BY <1>7, <3>1 DEF Before, Begins
  <2>2. Straddles(raw, bits, o + 1) = IF s + bits > ByteBits THEN {i} ELSE {}
    BY <1>7, StraddlesIs
  <2>3. Sum(Low, {}) = 0 /\ Sum(High, {}) = 0
    <3>1. IsFiniteSet({}) BY FS_EmptySet
    <3> QED BY <3>1, SumSteps
  <2>4. Sum(High, {i}) = High[i]
    <3>1. IsFiniteSet({i}) BY FS_Singleton
    <3>2. High[i] \in Int BY <1>5
    <3>3. \A y \in {i} \ {i} : High[y] = 0 OBVIOUS
    <3> HIDE DEF High
    <3> QED BY <3>1, <3>2, <3>3, SumOfOne
  <2>5. Under(raw, bits, n) = 0 + Sum(High, Straddles(raw, bits, o + 1))
    BY <1>7, <2>1, <2>3 DEF Under
  <2>6. CASE s + bits > ByteBits
    <3>0. High[i] \in Int BY <1>5
    <3>1. Under(raw, bits, n) = High[i]
      <4> HIDE DEF High, o, s, n
      <4>1. 0 + High[i] = High[i] BY <3>0
      <4> QED BY <2>2, <2>4, <2>5, <2>6, <4>1
    <3> QED BY <1>3, <1>7, <2>6, <3>1
  <2>7. CASE ~(s + bits > ByteBits)
    <3>1. Under(raw, bits, n) = 0
      <4> HIDE DEF High, o, s, n
      <4>1. 0 + 0 = 0 OBVIOUS
      <4> QED BY <2>2, <2>3, <2>5, <2>7, <4>1
    <3>2. Shift(n, bits) \in 0 .. ByteBits - 1 BY <1>0, <1>2
    <3>3. 2^Shift(n, bits) \in Nat \ {0} BY <3>2, WidthPowers
    <3> QED BY <3>1, <3>3
  <2> QED BY <2>6, <2>7
<1> QED BY <1>0, <1>6, <1>7, NextPlace

LEMMA UnderAll ==
    ASSUME NEW bits, Wide(bits), NEW raw \in Seq(Raws(bits)), NEW i \in 1..Len(raw)
    PROVE  Under(raw, bits, i) \in 0 .. 2^Shift(i, bits) - 1
<1> DEFINE n == Len(raw) - 1
           G == {k \in 0 .. n : Under(raw, bits, k + 1) \in 0 .. 2^Shift(k + 1, bits) - 1}
<1>1. Len(raw) \in Nat /\ n \in Nat /\ 1 \in 1..Len(raw) OBVIOUS
<1>2. 0 \in G
  <2>1. Under(raw, bits, 1) \in 0 .. 2^Shift(1, bits) - 1 BY <1>1, UnderFirst
  <2>2. 0 + 1 = 1 /\ 0 \in 0 .. n BY <1>1
  <2> QED BY <2>1, <2>2
<1>3. ASSUME NEW k \in 1 .. n, k - 1 \in G PROVE k \in G
  <2>1. Under(raw, bits, (k - 1) + 1) \in 0 .. 2^Shift((k - 1) + 1, bits) - 1 BY <1>3
  <2>2. (k - 1) + 1 = k /\ k \in 1..Len(raw) /\ k + 1 \in 1..Len(raw) /\ k \in 0 .. n BY <1>1
  <2>3. Under(raw, bits, k) \in 0 .. 2^Shift(k, bits) - 1 BY <2>1, <2>2
  <2>4. Under(raw, bits, k + 1) \in 0 .. 2^Shift(k + 1, bits) - 1 BY <2>2, <2>3, UnderNext
  <2> QED BY <2>2, <2>4
<1> HIDE DEF G
<1>4. \A k \in 0 .. n : k \in G
  <2> HIDE DEF n
  <2> QED BY <1>1, <1>2, <1>3, UpTo
<1>5. i - 1 \in 0 .. n /\ (i - 1) + 1 = i BY <1>1
<1>6. i - 1 \in G BY <1>4, <1>5
<1>7. Under(raw, bits, (i - 1) + 1) \in 0 .. 2^Shift((i - 1) + 1, bits) - 1 BY <1>6 DEF G
<1> QED BY <1>5, <1>7

LEMMA MultiplesOfMore ==
    ASSUME NEW a \in Nat, NEW b \in Nat, a <= b, b <= 2 * ByteBits
    PROVE  Multiples(2^b) \subseteq Multiples(2^a)
<1> DEFINE c == b - a
<1>1. c \in Nat /\ a + c = b /\ a <= 2 * ByteBits /\ c <= 2 * ByteBits BY ByteAssumption
<1> HIDE DEF c
<1>2. 2^(a + c) = 2^a * 2^c BY <1>1, PowerOfSum
<1>3. 2^a \in Nat /\ 2^c \in Nat BY <1>1, Powers
<1>4. \A k \in Nat : (2^a * 2^c) * k = 2^a * (2^c * k) /\ 2^c * k \in Nat BY <1>3
<1> DEFINE A == 2^a
           C == 2^c
<1>5. ASSUME NEW x \in Multiples(2^b) PROVE x \in Multiples(A)
  <2>1. PICK k \in Nat : x = 2^b * k BY DEF Multiples
  <2>2. x = A * (C * k) /\ C * k \in Nat BY <1>1, <1>2, <1>4, <2>1
  <2> HIDE DEF A, C
  <2> QED BY <2>2 DEF Multiples
<1> QED BY <1>5

(* What the later components add to the byte a component begins in, and to *)
(* the one it straddles into.                                              *)
LEMMA AfterInByte ==
    ASSUME NEW bits, Wide(bits), NEW raw \in Seq(Raws(bits)), NEW i \in 1..Len(raw),
           NEW s, s = Shift(i, bits)
    PROVE  /\ s + bits <= ByteBits =>
                Sum(LowBits(raw, bits), After(raw, bits, Offset(i, bits), i)) \in Multiples(2^(s + bits))
           /\ s + bits > ByteBits => After(raw, bits, Offset(i, bits), i) = {}
           /\ s + bits > ByteBits =>
                Sum(LowBits(raw, bits), Begins(raw, bits, Offset(i, bits) + 1))
                  \in Multiples(2^(s + bits - ByteBits))
<1> DEFINE o == Offset(i, bits)
           Low == LowBits(raw, bits)
<1>0. bits \in Nat /\ 1 <= bits /\ bits <= ByteBits /\ ByteBits \in Nat \ {0}
  BY ByteAssumption DEF Wide
<1>1. \A j \in 1..Len(raw) : /\ j \in Nat \ {0} /\ Offset(j, bits) \in Nat \ {0}
                             /\ Shift(j, bits) \in Nat /\ Shift(j, bits) < ByteBits
  <2>1. Len(raw) \in Nat OBVIOUS
  <2> QED BY <2>1, Places
<1>2. s \in Nat /\ s < ByteBits /\ o \in Nat BY <1>1
<1>3. \A j \in 1..Len(raw) : Low[j] \in Multiples(2^Shift(j, bits)) BY Component
<1>4. \A j \in After(raw, bits, o, i) :
        j \in 1..Len(raw) /\ i < j /\ Offset(j, bits) = o /\ s + bits <= Shift(j, bits)
  <2> TAKE j \in After(raw, bits, o, i)
  <2>1. j \in 1..Len(raw) /\ i < j /\ Offset(j, bits) = o BY DEF After, Begins
  <2>2. i \in Nat \ {0} /\ j \in Nat \ {0} BY <1>1, <2>1
  <2>3. Shift(i, bits) + bits <= Shift(j, bits) BY <2>1, <2>2, Later
  <2> QED BY <2>1, <2>3
<1>5. ASSUME s + bits <= ByteBits PROVE Sum(Low, After(raw, bits, o, i)) \in Multiples(2^(s + bits))
  <2>1. s + bits \in Nat /\ s + bits <= 2 * ByteBits BY <1>0, <1>2, <1>5
  <2>2. ASSUME NEW j \in After(raw, bits, o, i) PROVE Low[j] \in Multiples(2^(s + bits))
    <3> DEFINE t == Shift(j, bits)
    <3>1. t \in Nat /\ t <= 2 * ByteBits /\ s + bits <= t BY <1>0, <1>1, <1>4
    <3>2. Low[j] \in Multiples(2^t) BY <1>3, <1>4
    <3> HIDE DEF t, Low
    <3>3. Multiples(2^t) \subseteq Multiples(2^(s + bits)) BY <2>1, <3>1, MultiplesOfMore
    <3> QED BY <3>2, <3>3
  <2>3. 2^(s + bits) \in Nat \ {0} BY <2>1, Powers
  <2>4. IsFiniteSet(After(raw, bits, o, i)) BY ByteSets
  <2> HIDE DEF Low, o
  <2> QED BY <2>2, <2>3, <2>4, SumOfMultiples
<1>6. ASSUME s + bits > ByteBits PROVE After(raw, bits, o, i) = {}
  <2>1. \A j \in After(raw, bits, o, i) : FALSE BY <1>0, <1>1, <1>2, <1>4, <1>6
  <2> QED BY <2>1
<1>7. ASSUME s + bits > ByteBits
      PROVE  Sum(Low, Begins(raw, bits, o + 1)) \in Multiples(2^(s + bits - ByteBits))
  <2>1. /\ s + bits - ByteBits \in Nat /\ s + bits - ByteBits <= 2 * ByteBits
    BY <1>0, <1>2, <1>7
  <2>2. ASSUME NEW j \in Begins(raw, bits, o + 1)
        PROVE  j \in 1..Len(raw) /\ s + bits - ByteBits <= Shift(j, bits)
    <3>1. j \in 1..Len(raw) /\ Offset(j, bits) = o + 1 BY DEF Begins
    <3>2. i \in Nat \ {0} /\ j \in Nat \ {0} BY <1>1, <3>1
    <3>3. i < j
      <4>1. i # j BY <1>1, <3>1
      <4>2. ~(j < i)
        <5> SUFFICES ASSUME j < i PROVE FALSE OBVIOUS
        <5>1. Offset(j, bits) <= o BY <3>2, Later
        <5> QED BY <1>2, <3>1, <5>1
      <4> QED BY <3>2, <4>1, <4>2
    <3>4. Shift(i, bits) + bits - ByteBits <= Shift(j, bits) BY <3>1, <3>2, <3>3, Later
    <3> QED BY <3>1, <3>4
  <2> DEFINE u == s + bits - ByteBits
  <2>3. ASSUME NEW j \in Begins(raw, bits, o + 1) PROVE Low[j] \in Multiples(2^u)
    <3> DEFINE t == Shift(j, bits)
    <3>1. t \in Nat /\ t <= 2 * ByteBits /\ u <= t BY <1>0, <1>1, <2>2
    <3>2. Low[j] \in Multiples(2^t) BY <1>3, <2>2
    <3> HIDE DEF t, Low, u
    <3>3. Multiples(2^t) \subseteq Multiples(2^u) BY <2>1, <3>1, MultiplesOfMore DEF u
    <3> QED BY <3>2, <3>3
  <2>4. 2^u \in Nat \ {0} BY <2>1, Powers
  <2>5. IsFiniteSet(Begins(raw, bits, o + 1)) BY ByteSets
  <2> HIDE DEF Low, o, u
  <2>6. Sum(Low, Begins(raw, bits, o + 1)) \in Multiples(2^u) BY <2>3, <2>4, <2>5, SumOfMultiples
  <2> QED BY <2>6 DEF u
<1> QED BY <1>5, <1>6, <1>7

(* The byte a component begins in, and the one it straddles into.          *)
LEMMA ByteOf ==
    ASSUME NEW bits, Wide(bits), NEW raw \in Seq(Raws(bits)), NEW i \in 1..Len(raw)
    PROVE  /\ PackBits(raw, bits)[Offset(i, bits)] =
                Under(raw, bits, i) + (LowBits(raw, bits)[i]
                  + Sum(LowBits(raw, bits), After(raw, bits, Offset(i, bits), i)))
           /\ Shift(i, bits) + bits > ByteBits =>
                PackBits(raw, bits)[Offset(i, bits) + 1] =
                  Sum(LowBits(raw, bits), Begins(raw, bits, Offset(i, bits) + 1))
                  + HighBits(raw, bits)[i]
<1> DEFINE o == Offset(i, bits)
           Low == LowBits(raw, bits)
           High == HighBits(raw, bits)
           P == Begins(raw, bits, o)
           E == Before(raw, bits, i)
           L == After(raw, bits, o, i)
           H == Straddles(raw, bits, o)
<1>0. bits \in Nat /\ ByteBits \in Nat BY ByteAssumption DEF Wide
<1>1. \A j \in 1..Len(raw) : /\ j \in Nat \ {0} /\ Offset(j, bits) \in Nat \ {0}
                             /\ Shift(j, bits) \in Nat /\ Shift(j, bits) < ByteBits
  <2>1. Len(raw) \in Nat OBVIOUS
  <2> QED BY <2>1, Places
<1>2. /\ o \in 1 .. Bytes(Len(raw) * bits)
      /\ ByteBits - Shift(i, bits) < bits => o + 1 \in 1 .. Bytes(Len(raw) * bits)
  <2>1. Len(raw) \in Nat OBVIOUS
  <2> QED BY <2>1, InBytes
<1>3. \A j \in 1..Len(raw) : Low[j] \in Int /\ High[j] \in Int
  <2>1. \A j \in 1..Len(raw) : Low[j] \in Nat /\ High[j] \in Nat BY BitsTyped
  <2> QED BY <2>1
<1>4. IsFiniteSet(P) /\ IsFiniteSet(E) /\ IsFiniteSet(L) /\ IsFiniteSet(H)
      /\ P \subseteq 1..Len(raw) /\ H \subseteq 1..Len(raw)
  BY ByteSets
<1>5. /\ i \in P /\ P \ {i} = E \cup L /\ E \cap L = {} /\ E \cup L \subseteq P
  <2>1. \A j \in P : j \in Nat /\ i \in Nat BY <1>1 DEF Begins
  <2>2. i \in P BY DEF Begins
  <2>3. E = {j \in P : j < i} /\ L = {j \in P : j > i} BY DEF Before, After
  <2> HIDE DEF P, E, L
  <2>4. \A j \in P : /\ j < i \/ j > i <=> j # i
                    /\ ~(j < i /\ j > i)
    BY <2>1
  <2> QED BY <2>2, <2>3, <2>4
<1>6. /\ Sum(Low, P) = Low[i] + Sum(Low, P \ {i})
      /\ Sum(Low, E \cup L) = Sum(Low, E) + Sum(Low, L)
      /\ Sum(Low, E) \in Int /\ Sum(Low, L) \in Int /\ Sum(High, H) \in Int
  <2>1. \A x \in E \cup L : Low[x] \in Int
    <3> HIDE DEF Low, P, E, L
    <3> QED BY <1>3, <1>4, <1>5
  <2>2. \A x \in E : Low[x] \in Int
    <3> HIDE DEF Low, E, L
    <3> QED BY <2>1
  <2>3. \A x \in L : Low[x] \in Int
    <3> HIDE DEF Low, E, L
    <3> QED BY <2>1
  <2>4. \A x \in H : High[x] \in Int BY <1>3, <1>4
  <2>5. \A x \in P : Low[x] \in Int BY <1>3, <1>4
  <2> HIDE DEF Low, High, P, E, L, H
  <2>6. Sum(Low, P) = Low[i] + Sum(Low, P \ {i}) BY <1>4, <1>5, <2>5, SumWithout
  <2>7. Sum(Low, E \cup L) = Sum(Low, E) + Sum(Low, L) BY <1>4, <1>5, <2>1, SumOfUnion
  <2>8. Sum(Low, E) \in Int BY <1>4, <2>2, SumTyped
  <2>9. Sum(Low, L) \in Int BY <1>4, <2>3, SumTyped
  <2>10. Sum(High, H) \in Int BY <1>4, <2>4, SumTyped
  <2> QED BY <2>6, <2>7, <2>8, <2>9, <2>10
<1>7. \A b \in 1 .. Bytes(Len(raw) * bits) :
        PackBits(raw, bits)[b] = Sum(Low, Begins(raw, bits, b)) + Sum(High, Straddles(raw, bits, b))
  BY DEF PackBits, Sum
<1>8. PackBits(raw, bits)[o] = Under(raw, bits, i) + (Low[i] + Sum(Low, L))
  <2>1. PackBits(raw, bits)[o] = Sum(Low, P) + Sum(High, H) BY <1>2, <1>7
  <2>2. Under(raw, bits, i) = Sum(Low, E) + Sum(High, H) BY DEF Under
  <2>3. Low[i] \in Int BY <1>3
  <2>4. \A a, b, c, d \in Int : (a + (b + c)) + d = (b + d) + (a + c) OBVIOUS
  <2> HIDE DEF Low, High, P, E, L, H, o
  <2>5. Sum(Low, P) = Low[i] + (Sum(Low, E) + Sum(Low, L)) BY <1>5, <1>6
  <2> QED BY <1>6, <2>1, <2>2, <2>3, <2>4, <2>5
<1>9. ASSUME Shift(i, bits) + bits > ByteBits
      PROVE  PackBits(raw, bits)[o + 1] = Sum(Low, Begins(raw, bits, o + 1)) + High[i]
  <2>1. Shift(i, bits) \in Nat BY <1>1
  <2>2. ByteBits - Shift(i, bits) < bits BY <1>0, <1>9, <2>1
  <2>3. Straddles(raw, bits, o + 1) = {i} BY <1>9, StraddlesIs
  <2>4. Sum(High, {i}) = High[i]
    <3>1. IsFiniteSet({i}) BY FS_Singleton
    <3>2. High[i] \in Int BY <1>3
    <3>3. \A y \in {i} \ {i} : High[y] = 0 OBVIOUS
    <3> HIDE DEF High
    <3> QED BY <3>1, <3>2, <3>3, SumOfOne
  <2>5. o + 1 \in 1 .. Bytes(Len(raw) * bits) BY <1>2, <2>2
  <2>6. PackBits(raw, bits)[o + 1] =
          Sum(Low, Begins(raw, bits, o + 1)) + Sum(High, Straddles(raw, bits, o + 1))
    BY <1>7, <2>5
  <2> HIDE DEF Low, High, o
  <2> QED BY <2>3, <2>4, <2>6
<1> QED BY <1>8, <1>9

-----------------------------------------------------------------------------
(* The round trip.                                                         *)

Within(P, W, M, u, r, k, y) ==
    /\ P \in Nat \ {0} /\ W \in Nat \ {0} /\ M = P * W
    /\ u \in 0 .. P - 1 /\ r \in 0 .. W - 1 /\ k \in Nat
    /\ y = u + (P * r + M * k)

LEMMA ReadWithin ==
    ASSUME NEW P, NEW W, NEW M, NEW u, NEW r, NEW k, NEW y, Within(P, W, M, u, r, k, y)
    PROVE  (y \div P + 0) % W = r
<1> USE DEF Within
<1> DEFINE x == r + W * k
<1>1. x \in Int OBVIOUS
<1>2. u + (P * r + (P * W) * k) = u + P * x
  <2>1. \A a, b, c, d \in Nat : a * b + (a * c) * d = a * (b + c * d) OBVIOUS
  <2> QED BY <2>1
<1>3. x % W = r
  <2>1. k \in Int OBVIOUS
  <2> QED BY <2>1, Above
<1> HIDE DEF x
<1>4. (u + P * x) \div P = x BY <1>1, Above
<1>5. x + 0 = x BY <1>1
<1> QED BY <1>2, <1>3, <1>4, <1>5

Across(P, U, D, W, u, t, h, k, r, y, z) ==
    /\ P \in Nat \ {0} /\ U \in Nat \ {0} /\ D \in Nat \ {0} /\ W = U * D
    /\ u \in 0 .. P - 1 /\ t \in 0 .. U - 1 /\ h \in Nat /\ k \in Nat
    /\ r \in 0 .. W - 1 /\ r = U * h + t
    /\ y = u + (P * t + 0) /\ z = D * k + h

LEMMA ReadAcross ==
    ASSUME NEW P, NEW U, NEW D, NEW W, NEW u, NEW t, NEW h, NEW k, NEW r, NEW y, NEW z,
           Across(P, U, D, W, u, t, h, k, r, y, z)
    PROVE  (y \div P + z * U) % W = r
<1> USE DEF Across
<1>1. u + (P * t + 0) = u + P * t OBVIOUS
<1>2. (u + P * t) \div P = t
  <2>1. t \in Int OBVIOUS
  <2> QED BY <2>1, Above
<1>3. t + z * U = r + W * k
  <2>1. \A a, b, c, d, e \in Nat : e + (b * c + d) * a = (a * d + e) + (a * b) * c OBVIOUS
  <2>2. t \in Nat OBVIOUS
  <2> QED BY <2>1, <2>2
<1>4. W \in Nat \ {0} /\ k \in Int OBVIOUS
<1>5. (r + W * k) % W = r BY <1>4, Above
<1> QED BY <1>1, <1>2, <1>3, <1>5

(* The codes of any width up to a byte, packed without gaps, are read back *)
(* one by one, whether or not they straddle two bytes: PackBits and        *)
(* UnpackBits, and PQ's and ScaNN's WriteCode and ReadCode.                *)
THEOREM BitsReadBack ==
    ASSUME NEW bits, Wide(bits), NEW raw \in Seq(Raws(bits)), NEW i \in 1..Len(raw)
    PROVE  RawBits(PackBits(raw, bits), i, bits) = raw[i]
<1>1. PICK s : s = Shift(i, bits) OBVIOUS
<1>2. PICK o : o = Offset(i, bits) OBVIOUS
<1>3. PICK bytes : bytes = PackBits(raw, bits) OBVIOUS
<1>4. PICK u : u = Under(raw, bits, i) OBVIOUS
<1>5. PICK low, high : low = LowBits(raw, bits)[i] /\ high = HighBits(raw, bits)[i] OBVIOUS
<1>6. PICK P, W : P = 2^s /\ W = 2^bits OBVIOUS
<1>7. PICK r : r = raw[i] OBVIOUS
<1>8. PICK a : a = Sum(LowBits(raw, bits), After(raw, bits, o, i)) OBVIOUS
<1>10. bits \in Nat /\ ByteBits \in Nat BY ByteAssumption DEF Wide
<1>11. /\ s \in 0 .. ByteBits - 1 /\ r \in Nat /\ r <= W - 1
       /\ s + bits <= ByteBits => low = P * r
       /\ s + bits > ByteBits =>
            /\ low = P * (r % 2^(ByteBits - s))
            /\ high \in 0 .. 2^(s + bits - ByteBits) - 1
            /\ r = 2^(ByteBits - s) * high + (r % 2^(ByteBits - s))
            /\ r % 2^(ByteBits - s) \in 0 .. 2^(ByteBits - s) - 1
  BY <1>1, <1>5, <1>6, <1>7, Component
<1>12. /\ P \in Nat \ {0} /\ W \in Nat \ {0} /\ 2^(s + bits) = P * W
       /\ 2^(ByteBits - s) \in Nat \ {0}
       /\ s + bits > ByteBits =>
            /\ 2^(s + bits - ByteBits) \in Nat \ {0}
            /\ W = 2^(ByteBits - s) * 2^(s + bits - ByteBits)
  BY <1>6, <1>11, WidthPowers
<1>13. u \in 0 .. P - 1 BY <1>1, <1>4, <1>6, UnderAll
<1>14. /\ bytes[o] = u + (low + a)
       /\ s + bits > ByteBits =>
            bytes[o + 1] = Sum(LowBits(raw, bits), Begins(raw, bits, o + 1)) + high
  BY <1>1, <1>2, <1>3, <1>4, <1>5, <1>8, ByteOf
<1>15. /\ s + bits <= ByteBits => a \in Multiples(2^(s + bits))
       /\ s + bits > ByteBits =>
            /\ After(raw, bits, o, i) = {}
            /\ Sum(LowBits(raw, bits), Begins(raw, bits, o + 1)) \in Multiples(2^(s + bits - ByteBits))
  BY <1>1, <1>2, <1>8, AfterInByte
<1>16. RawBits(bytes, i, bits) =
         (bytes[o] \div P + (IF ByteBits - s < bits THEN bytes[o + 1] * 2^(ByteBits - s) ELSE 0)) % W
  BY <1>1, <1>2, <1>6 DEF RawBits
<1>17. ByteBits - s < bits <=> s + bits > ByteBits BY <1>10, <1>11
<1>18. s + bits <= ByteBits \/ s + bits > ByteBits BY <1>10, <1>11
<1>19. CASE s + bits <= ByteBits
  <2>1. a \in Multiples(P * W) BY <1>12, <1>15, <1>19
  <2>2. PICK M : M = P * W OBVIOUS
  <2>3. PICK k \in Nat : a = M * k BY <2>1, <2>2 DEF Multiples
  <2>8. PICK y : y = bytes[o] OBVIOUS
  <2>9. y = u + (P * r + M * k) BY <1>11, <1>14, <1>19, <2>3, <2>8
  <2>4. ~(ByteBits - s < bits) BY <1>10, <1>11, <1>19
  <2>5. RawBits(bytes, i, bits) = (bytes[o] \div P + 0) % W BY <1>16, <2>4
  <2>6. r \in 0 .. W - 1 BY <1>11, <1>12
  <2>7. (y \div P + 0) % W = r
    <3>1. P \in Nat \ {0} /\ W \in Nat \ {0} BY <1>12
    <3>2. Within(P, W, M, u, r, k, y) BY <1>13, <2>2, <2>6, <2>9, <3>1 DEF Within
    <3> QED BY <3>2, ReadWithin
  <2> QED BY <1>3, <1>7, <2>5, <2>7, <2>8
<1>20. CASE s + bits > ByteBits
  <2>1. PICK U, D : U = 2^(ByteBits - s) /\ D = 2^(s + bits - ByteBits) OBVIOUS
  <2>2. PICK t : t = r % U OBVIOUS
  <2>3. /\ low = P * t /\ high \in 0 .. D - 1 /\ r = U * high + t /\ t \in 0 .. U - 1
    BY <1>11, <1>20, <2>1, <2>2
  <2>4. U \in Nat \ {0} /\ D \in Nat \ {0} /\ W = U * D BY <1>12, <1>20, <2>1
  <2>5. a = 0
    <3>1. IsFiniteSet({}) BY FS_EmptySet
    <3>2. Sum(LowBits(raw, bits), {}) = 0 BY <3>1, SumSteps
    <3> QED BY <1>8, <1>15, <1>20, <3>2
  <2>6. PICK k \in Nat : Sum(LowBits(raw, bits), Begins(raw, bits, o + 1)) = D * k
    BY <1>15, <1>20, <2>1 DEF Multiples
  <2>12. PICK y, z : y = bytes[o] /\ z = bytes[o + 1] OBVIOUS
  <2>7. y = u + (P * t + 0) /\ z = D * k + high
    BY <1>14, <1>20, <2>3, <2>5, <2>6, <2>12
  <2>8. RawBits(bytes, i, bits) = (bytes[o] \div P + bytes[o + 1] * U) % W
    BY <1>16, <1>17, <1>20, <2>1
  <2>9. r \in 0 .. W - 1 /\ high \in Nat
    <3>1. W - 1 \in Int BY <1>12
    <3> QED BY <1>11, <1>12, <2>3, <2>4, <3>1
  <2>10. (y \div P + z * U) % W = r
    <3>1. P \in Nat \ {0} BY <1>12
    <3>2. high \in Nat /\ t \in 0 .. U - 1 /\ r = U * high + t BY <2>3, <2>9
    <3>3. Across(P, U, D, W, u, t, high, k, r, y, z)
      BY <1>13, <2>4, <2>7, <2>9, <3>1, <3>2 DEF Across
    <3> QED BY <3>3, ReadAcross
  <2> QED BY <1>3, <1>7, <2>8, <2>10, <2>12
<1> QED BY <1>18, <1>19, <1>20

-----------------------------------------------------------------------------
(* Vectors.                                                                *)

VectorsOf(n) == [1..n -> Int]

LEMMA SumIsOver == ASSUME NEW f PROVE SumFunction(f) = Sum(f, DOMAIN f)
BY DEF SumFunction, Sum

LEMMA Interval == ASSUME NEW n \in Nat PROVE IsFiniteSet(1..n)
<1>1. 1 \in Int /\ n \in Int OBVIOUS
<1> QED BY <1>1, FS_Interval

LEMMA VectorLen ==
    ASSUME NEW n \in Nat, NEW u \in VectorsOf(n)
    PROVE  Len(u) = n /\ u \in Seq(Int) /\ \A i \in 1..n : u[i] \in Int
<1>1. u \in Seq(Int) BY DEF VectorsOf
<1>2. DOMAIN u = 1..n /\ DOMAIN u = 1..Len(u) /\ Len(u) \in Nat BY <1>1 DEF VectorsOf
<1>3. Len(u) = n BY <1>2
<1> QED BY <1>1, <1>3 DEF VectorsOf

LEMMA DotIs ==
    ASSUME NEW n \in Nat, NEW u \in VectorsOf(n), NEW v \in VectorsOf(n)
    PROVE  /\ Dot(u, v) = Sum([i \in 1..n |-> u[i] * v[i]], 1..n)
           /\ Dot(u, v) \in Int /\ Dot(u, v) = Dot(v, u)
<1>1. Len(u) = n /\ Len(v) = n BY VectorLen
<1>2. \A i \in 1..n : u[i] \in Int /\ v[i] \in Int BY VectorLen
<1>3. \A i \in 1..n : u[i] * v[i] \in Int /\ u[i] * v[i] = v[i] * u[i] BY <1>2
<1> DEFINE f == [i \in 1..n |-> u[i] * v[i]]
           g == [i \in 1..n |-> v[i] * u[i]]
<1>4. DOMAIN f = 1..n /\ \A i \in 1..n : f[i] \in Int /\ f[i] = g[i] BY <1>3
<1>5. f = g BY <1>3
<1>6. Dot(u, v) = SumFunction(f) /\ Dot(v, u) = SumFunction(g) BY <1>1 DEF Dot
<1> HIDE DEF f, g
<1>7. SumFunction(f) = Sum(f, 1..n) BY <1>4, SumIsOver
<1>8. Sum(f, 1..n) \in Int BY <1>4, Interval, SumTyped
<1> QED BY <1>5, <1>6, <1>7, <1>8 DEF f

LEMMA MinusIs ==
    ASSUME NEW n \in Nat, NEW u \in VectorsOf(n), NEW v \in VectorsOf(n)
    PROVE  /\ Minus(u, v) \in VectorsOf(n)
           /\ \A i \in 1..n : Minus(u, v)[i] = u[i] - v[i]
<1>1. Len(u) = n BY VectorLen
<1>2. \A i \in 1..n : u[i] \in Int /\ v[i] \in Int BY VectorLen
<1>3. Minus(u, v) = [i \in 1..n |-> u[i] - v[i]] BY <1>1 DEF Minus
<1>4. \A i \in 1..n : u[i] - v[i] \in Int BY <1>2
<1> QED BY <1>3, <1>4 DEF VectorsOf

LEMMA DistSymmetric ==
    ASSUME NEW n \in Nat, NEW u \in VectorsOf(n), NEW v \in VectorsOf(n), NEW metric
    PROVE  VecDist(metric, u, v) = VecDist(metric, v, u)
<1>1. NormSq(Minus(u, v)) = NormSq(Minus(v, u))
  <2> DEFINE x == Minus(u, v)
             y == Minus(v, u)
             f == [i \in 1..n |-> x[i] * x[i]]
             g == [i \in 1..n |-> y[i] * y[i]]
  <2>1. /\ x \in VectorsOf(n) /\ y \in VectorsOf(n)
        /\ \A i \in 1..n : x[i] = u[i] - v[i] /\ y[i] = v[i] - u[i]
    BY MinusIs
  <2>2. \A i \in 1..n : u[i] \in Int /\ v[i] \in Int BY VectorLen
  <2> HIDE DEF x, y
  <2>3. \A a, b \in Int : (a - b) * (a - b) = (b - a) * (b - a) OBVIOUS
  <2>4. \A i \in 1..n : x[i] * x[i] = y[i] * y[i] BY <2>1, <2>2, <2>3
  <2>5. f = g BY <2>4
  <2>6. Dot(x, x) = Sum(f, 1..n) /\ Dot(y, y) = Sum(g, 1..n) BY <2>1, DotIs
  <2> HIDE DEF f, g
  <2> QED BY <2>5, <2>6 DEF NormSq, x, y
<1>2. Dot(u, v) = Dot(v, u) BY DotIs
<1> QED BY <1>1, <1>2 DEF VecDist

LEMMA DistToItself ==
    ASSUME NEW n \in Nat, NEW u \in VectorsOf(n)
    PROVE  VecDist("l2sq", u, u) = 0
<1> DEFINE x == Minus(u, u)
           f == [i \in 1..n |-> x[i] * x[i]]
<1>1. x \in VectorsOf(n) /\ \A i \in 1..n : x[i] = u[i] - u[i] BY MinusIs
<1>2. \A i \in 1..n : u[i] \in Int BY VectorLen
<1>3. \A i \in 1..n : x[i] = 0 BY <1>1, <1>2
<1> HIDE DEF x
<1>4. \A i \in 1..n : f[i] = 0 BY <1>3
<1>5. Dot(x, x) = Sum(f, 1..n) BY <1>1, DotIs
<1> HIDE DEF f
<1>6. Sum(f, 1..n) = 0 BY <1>4, Interval, SumOfZeroes
<1> QED BY <1>5, <1>6 DEF VecDist, NormSq, x

LEMMA FirstLeast ==
    ASSUME NEW n \in Nat, NEW F, \A c \in 0 .. n : F[c] \in Int
    PROVE  \E c \in 0 .. n : /\ \A d \in 0 .. n : F[c] <= F[d]
                             /\ \A d \in 0 .. c - 1 : F[c] < F[d]
<1> DEFINE First(k, c) == /\ \A d \in 0 .. k : F[c] <= F[d]
                          /\ \A d \in 0 .. c - 1 : F[c] < F[d]
           G == {k \in 0 .. n : \E c \in 0 .. k : First(k, c)}
<1>1. 0 \in G
  <2>1. F[0] \in Int /\ 0 \in 0 .. n OBVIOUS
  <2>2. 0 .. 0 = {0} /\ 0 .. 0 - 1 = {} OBVIOUS
  <2>3. First(0, 0) BY <2>1, <2>2
  <2> QED BY <2>1, <2>2, <2>3
<1>2. ASSUME NEW k \in 1 .. n, k - 1 \in G PROVE k \in G
  <2>1. PICK c \in 0 .. k - 1 : First(k - 1, c) BY <1>2
  <2>2. /\ k \in Nat /\ k \in 0 .. n /\ c \in 0 .. k /\ c < k
        /\ \A d \in 0 .. k : d \in 0 .. k - 1 \/ d = k
    OBVIOUS
  <2>3. F[c] \in Int /\ F[k] \in Int /\ \A d \in 0 .. k : F[d] \in Int BY <2>2
  <2>4. CASE F[c] <= F[k]
    <3>1. First(k, c) BY <2>1, <2>2, <2>4
    <3> QED BY <2>2, <3>1
  <2>5. CASE F[k] < F[c]
    <3>1. \A d \in 0 .. k - 1 : F[c] <= F[d] /\ F[d] \in Int BY <2>1, <2>2, <2>3
    <3>2. \A d \in 0 .. k - 1 : F[k] < F[d] BY <2>3, <2>5, <3>1
    <3>3. \A d \in 0 .. k : F[k] <= F[d] BY <2>2, <2>3, <3>2
    <3>4. First(k, k) BY <3>2, <3>3
    <3> QED BY <2>2, <3>4
  <2> QED BY <2>3, <2>4, <2>5
<1> HIDE DEF G
<1>3. \A k \in 0 .. n : k \in G BY <1>1, <1>2, UpTo
<1>4. n \in G BY <1>3
<1> QED BY <1>4 DEF G

-----------------------------------------------------------------------------
(* PQ and ScaNN.                                                           *)

SlotsFit(q) ==
    /\ q.dim \in Nat /\ q.m \in Nat \ {0} /\ q.dim % q.m = 0
PqShape(q) ==
    /\ IsPq(q) /\ SlotsFit(q) /\ Wide(q.bits) /\ q.metric \in {"l2sq", "ip"}
    /\ \A s \in 1..q.m, c \in Centroids(q) : q.book[s][c] \in VectorsOf(SubDim(q))
    /\ q.kind = "pq" => q.table = CrossTable(q, q.book)
    /\ q.kind = "scann" => q.eta \in Int

LEMMA SlotsLie ==
    ASSUME NEW q, SlotsFit(q)
    PROVE  /\ SubDim(q) \in Nat /\ q.dim = q.m * SubDim(q)
           /\ \A s \in 1..q.m : /\ (s - 1) * SubDim(q) \in Nat
                                /\ s * SubDim(q) = (s - 1) * SubDim(q) + SubDim(q)
                                /\ s * SubDim(q) <= q.dim
<1>1. PICK dim, m : dim = q.dim /\ m = q.m OBVIOUS
<1>2. dim \in Nat /\ m \in Nat \ {0} /\ dim % m = 0 BY <1>1 DEF SlotsFit
<1>3. PICK d : d = dim \div m OBVIOUS
<1>4. d \in Nat /\ dim = m * d
  <2>1. dim \in Int /\ dim = m * (dim \div m) + (dim % m) BY <1>2, Parts
  <2>2. d \in Nat BY <1>2, <1>3
  <2>3. m * d \in Nat BY <1>2, <2>2
  <2>4. dim = m * d + 0 BY <1>2, <1>3, <2>1
  <2> QED BY <2>2, <2>3, <2>4
<1>5. ASSUME NEW s \in 1..m
      PROVE  (s - 1) * d \in Nat /\ s * d = (s - 1) * d + d /\ s * d <= dim
  <2>1. (s - 1) * d \in Nat /\ s * d = (s - 1) * d + d BY <1>2, <1>4
  <2>2. s * d <= m * d BY <1>2, <1>4
  <2> QED BY <1>4, <2>1, <2>2
<1> QED BY <1>1, <1>3, <1>4, <1>5 DEF SubDim

LEMMA SubIs ==
    ASSUME NEW q, SlotsFit(q), NEW v \in VectorsOf(q.dim), NEW s \in 1..q.m
    PROVE  /\ Sub(q, v, s) \in VectorsOf(SubDim(q))
           /\ \A j \in 1..SubDim(q) : Sub(q, v, s)[j] = v[(s - 1) * SubDim(q) + j]
<1>1. PICK d, a, b, x : d = SubDim(q) /\ a = (s - 1) * d /\ b = s * d /\ x = SubSeq(v, a + 1, b)
  OBVIOUS
<1>2. d \in Nat /\ a \in Nat /\ b = a + d /\ b <= q.dim /\ q.dim \in Nat
  BY <1>1, SlotsLie DEF SlotsFit
<1>3. \A i \in a + 1 .. b : v[i] \in Int
  <2>1. \A i \in a + 1 .. b : i \in 1..q.dim BY <1>2
  <2> QED BY <2>1 DEF VectorsOf
<1>4. a + 1 \in Int /\ b \in Int BY <1>2
<1>5. /\ x \in Seq(Int)
      /\ Len(x) = IF a + 1 <= b THEN b - (a + 1) + 1 ELSE 0
      /\ \A i \in 1 .. b - (a + 1) + 1 : x[i] = v[(a + 1) + i - 1]
  BY <1>1, <1>3, <1>4, SubSeqProperties
<1>6. Len(x) = d /\ b - (a + 1) + 1 = d BY <1>2, <1>5
<1>7. \A i \in 1..d : x[i] = v[a + i]
  <2>1. \A i \in 1..d : (a + 1) + i - 1 = a + i BY <1>2
  <2> QED BY <1>5, <1>6, <2>1
<1>8. x \in VectorsOf(d)
  <2>1. DOMAIN x = 1..d /\ x = [i \in 1..d |-> x[i]] /\ \A i \in 1..d : x[i] \in Int
    BY <1>5, <1>6
  <2> QED BY <2>1 DEF VectorsOf
<1>9. Sub(q, v, s) = x BY <1>1 DEF Sub
<1> QED BY <1>1, <1>7, <1>8, <1>9

LEMMA BookTyped ==
    ASSUME NEW q, SlotsFit(q), NEW V, V \subseteq VectorsOf(q.dim), NEW samples \in Seq(V),
           Centroids(q) \subseteq Nat, NEW s \in 1..q.m, NEW c \in Centroids(q)
    PROVE  Book(q, samples)[s][c] \in VectorsOf(SubDim(q))
<1>1. Book(q, samples)[s][c] = SlotBook(q, samples, s)[c] BY DEF Book
<1>2. c \in Nat OBVIOUS
<1>3. CASE samples = <<>>
  <2>1. SlotBook(q, samples, s)[c] = Zero(SubDim(q)) BY <1>3 DEF SlotBook
  <2>2. Zero(SubDim(q)) \in VectorsOf(SubDim(q)) BY DEF Zero, VectorsOf
  <2> QED BY <1>1, <2>1, <2>2
<1>4. CASE samples # <<>>
  <2>1. Len(samples) \in Nat /\ Len(samples) # 0 BY <1>4
  <2>2. \A i \in 1..Len(samples) : samples[i] \in VectorsOf(q.dim) OBVIOUS
  <2>3. \A i \in 1..Len(samples) : Sub(q, samples[i], s) \in VectorsOf(SubDim(q)) BY <2>2, SubIs
  <2>4. \/ SlotBook(q, samples, s)[c] = Sub(q, samples[1], s)
        \/ c < Len(samples) /\ SlotBook(q, samples, s)[c] = Sub(q, samples[c + 1], s)
    BY <1>4 DEF SlotBook
  <2>5. 1 \in 1..Len(samples) /\ (c < Len(samples) => c + 1 \in 1..Len(samples))
    BY <1>2, <2>1
  <2> QED BY <1>1, <2>3, <2>4, <2>5
<1> QED BY <1>3, <1>4

LEMMA CentroidsAre ==
    ASSUME NEW q, Wide(q.bits)
    PROVE  /\ 2^q.bits \in Nat \ {0} /\ 2^q.bits - 1 \in Nat
           /\ Centroids(q) = Raws(q.bits) /\ Centroids(q) \subseteq Nat
<1>1. q.bits \in Nat /\ q.bits <= 2 * ByteBits BY ByteAssumption DEF Wide
<1>2. 2^q.bits \in Nat \ {0} BY <1>1, Powers
<1>3. 2^q.bits - 1 \in Nat BY <1>2
<1> QED BY <1>2, <1>3 DEF Centroids, Raws

LEMMA CostTyped ==
    ASSUME NEW q, PqShape(q), NEW s \in 1..q.m, NEW c \in Centroids(q),
           NEW x \in VectorsOf(SubDim(q))
    PROVE  CentroidCost(q, x, q.book[s][c]) \in Int
<1>1. PICK n, cen : n = SubDim(q) /\ cen = q.book[s][c] OBVIOUS
<1>2. n \in Nat /\ cen \in VectorsOf(n) /\ x \in VectorsOf(n) BY <1>1, SlotsLie DEF PqShape
<1>3. PICK r : r = Minus(x, cen) OBVIOUS
<1>4. r \in VectorsOf(n) BY <1>2, <1>3, MinusIs
<1>5. PICK rr, rx, xx : rr = NormSq(r) /\ rx = Dot(r, x) /\ xx = NormSq(x) OBVIOUS
<1>6. rr \in Int /\ rx \in Int /\ xx \in Int BY <1>2, <1>4, <1>5, DotIs DEF NormSq
<1>7. CASE q.kind = "pq" BY <1>1, <1>3, <1>5, <1>6, <1>7 DEF CentroidCost
<1>8. CASE q.kind = "scann"
  <2>1. PICK eta : eta = q.eta OBVIOUS
  <2>2. eta \in Int BY <1>8, <2>1 DEF PqShape
  <2>3. (eta - 1) * rx * rx + rr * xx \in Int BY <1>6, <2>2
  <2>4. CentroidCost(q, x, cen) = IF xx = 0 THEN rr ELSE (eta - 1) * rx * rx + rr * xx
    BY <1>3, <1>5, <1>8, <2>1 DEF CentroidCost, AnisoCost
  <2> QED BY <1>1, <1>6, <2>3, <2>4
<1> QED BY <1>7, <1>8 DEF PqShape, IsPq

LEMMA NearestIs ==
    ASSUME NEW q, PqShape(q), NEW s \in 1..q.m, NEW x \in VectorsOf(SubDim(q))
    PROVE  NearestCentroid(q, s, x) \in Centroids(q)
<1> DEFINE F == [c \in Centroids(q) |-> CentroidCost(q, x, q.book[s][c])]
           First(c) == /\ \A d \in Centroids(q) : F[c] <= F[d]
                       /\ \A d \in 0 .. c - 1 : F[c] < F[d]
           n == 2^q.bits - 1
<1>1. Centroids(q) = 0 .. n /\ n \in Nat BY CentroidsAre DEF PqShape, Centroids
<1>2. \A c \in 0 .. n : F[c] \in Int BY <1>1, CostTyped
<1>3. \A c \in Centroids(q) : F[c] = CentroidCost(q, x, q.book[s][c]) OBVIOUS
<1>4. \A c \in Centroids(q) : \A d \in 0 .. c - 1 : d \in Centroids(q)
  <2> HIDE DEF n
  <2> QED BY <1>1
<1> HIDE DEF F, n
<1>5. \E c \in 0 .. n : First(c)
  <2>1. \E c \in 0 .. n : /\ \A d \in 0 .. n : F[c] <= F[d]
                          /\ \A d \in 0 .. c - 1 : F[c] < F[d]
    BY <1>1, <1>2, FirstLeast
  <2> QED BY <1>1, <2>1
<1> DEFINE Wins(c) ==
      /\ \A d \in Centroids(q) : CentroidCost(q, x, q.book[s][c]) <= CentroidCost(q, x, q.book[s][d])
      /\ \A d \in 0 .. c - 1 : CentroidCost(q, x, q.book[s][c]) < CentroidCost(q, x, q.book[s][d])
<1>6. \E c \in Centroids(q) : Wins(c)
  <2>1. PICK c \in Centroids(q) : First(c) BY <1>1, <1>5
  <2>2. Wins(c) BY <1>3, <1>4, <2>1
  <2> QED BY <2>2
<1>7. NearestCentroid(q, s, x) = CHOOSE c \in Centroids(q) : Wins(c) BY DEF NearestCentroid
<1> HIDE DEF Wins
<1>8. (CHOOSE c \in Centroids(q) : Wins(c)) \in Centroids(q) BY <1>6
<1> QED BY <1>7, <1>8

(* What Encode writes is what ReadCode reads: the nearest centroids.       *)
LEMMA PqCode ==
    ASSUME NEW q, PqShape(q), NEW v \in VectorsOf(q.dim), NEW s \in 1..q.m
    PROVE  /\ ReadCode(q, Encode(q, v), s) = NearestCentroid(q, s, Sub(q, v, s))
           /\ ReadCode(q, Encode(q, v), s) \in Centroids(q)
<1> DEFINE cids == [t \in 1..q.m |-> NearestCentroid(q, t, Sub(q, v, t))]
<1>1. SlotsFit(q) /\ Wide(q.bits) /\ q.m \in Nat BY DEF PqShape, SlotsFit
<1>2. \A t \in 1..q.m : NearestCentroid(q, t, Sub(q, v, t)) \in Centroids(q)
  BY <1>1, SubIs, NearestIs
<1>3. Centroids(q) = Raws(q.bits) BY <1>1, CentroidsAre
<1>4. cids \in [1..q.m -> Raws(q.bits)] BY <1>2, <1>3
<1>5. cids \in Seq(Raws(q.bits)) BY <1>1, <1>4
<1>6. Len(cids) = q.m BY <1>1
<1>7. Encode(q, v) = PackBits(cids, q.bits)
  <2>1. q.kind # "flat" /\ IsPq(q) BY DEF PqShape, IsPq
  <2>2. Encode(q, v) = PqEncode(q, v)
    <3>1. q.kind = "pq" \/ q.kind = "scann" BY <2>1 DEF IsPq
    <3> QED BY <3>1 DEF Encode, IsPq
  <2> QED BY <2>2 DEF PqEncode, WriteCodes
<1>8. cids[s] = NearestCentroid(q, s, Sub(q, v, s)) OBVIOUS
<1> HIDE DEF cids
<1>9. RawBits(PackBits(cids, q.bits), s, q.bits) = cids[s] BY <1>1, <1>5, <1>6, BitsReadBack
<1> QED BY <1>2, <1>7, <1>8, <1>9 DEF ReadCode

(* A slot of the vector that a code stands for is the centroid of the      *)
(* slot.                                                                   *)
LEMMA DecodedSub ==
    ASSUME NEW q, PqShape(q), NEW code,
           \A s \in 1..q.m : ReadCode(q, code, s) \in Centroids(q),
           NEW s \in 1..q.m
    PROVE  Sub(q, Decode(q, code), s) = q.book[s][ReadCode(q, code, s)]
<1>1. PICK n : n = SubDim(q) OBVIOUS
<1>2. /\ SlotsFit(q) /\ n \in Nat /\ q.dim = q.m * n /\ q.dim \in Nat /\ q.m \in Nat \ {0}
      /\ \A t \in 1..q.m : (t - 1) * n \in Nat /\ t * n = (t - 1) * n + n /\ t * n <= q.dim
  BY <1>1, SlotsLie DEF PqShape, SlotsFit
<1>3. \A t \in 1..q.m : q.book[t][ReadCode(q, code, t)] \in VectorsOf(n) BY <1>1 DEF PqShape
<1> DEFINE At(i) == q.book[(i - 1) \div n + 1][ReadCode(q, code, (i - 1) \div n + 1)][((i - 1) % n) + 1]
<1>4. Decode(q, code) = [i \in 1..q.dim |-> At(i)] BY <1>1 DEF Decode
<1>5. ASSUME NEW t \in 1..q.m, NEW j \in 1..n
      PROVE  /\ (t - 1) * n + j \in 1..q.dim
             /\ At((t - 1) * n + j) = q.book[t][ReadCode(q, code, t)][j]
  <2>1. PICK i : i = (t - 1) * n + j OBVIOUS
  <2>2. i \in 1..q.dim /\ n \in Nat \ {0} BY <1>2, <2>1
  <2>3. i - 1 = (j - 1) + n * (t - 1) BY <1>2, <2>1
  <2>4. j - 1 \in 0 .. n - 1 /\ t - 1 \in Int BY <1>2
  <2>5. ((j - 1) + n * (t - 1)) \div n = t - 1 /\ ((j - 1) + n * (t - 1)) % n = j - 1
    BY <2>2, <2>4, Above
  <2>6. (i - 1) \div n + 1 = t /\ ((i - 1) % n) + 1 = j
    <3>1. (t - 1) + 1 = t /\ (j - 1) + 1 = j BY <1>2
    <3> QED BY <2>3, <2>5, <3>1
  <2> QED BY <2>1, <2>2, <2>6
<1>6. \A i \in 1..q.dim : \E t \in 1..q.m, j \in 1..n : i = (t - 1) * n + j
  <2> TAKE i \in 1..q.dim
  <2>0. n \in Nat \ {0}
    <3>1. SUFFICES ASSUME n = 0 PROVE FALSE BY <1>2
    <3>2. q.m * 0 = 0 BY <1>2
    <3> QED BY <1>2, <3>1, <3>2
  <2>1. PICK t, j : t = (i - 1) \div n + 1 /\ j = ((i - 1) % n) + 1 OBVIOUS
  <2>2. i - 1 \in Nat /\ i - 1 \in Int /\ i \in Int BY <1>2
  <2>3. /\ (i - 1) \div n \in Nat /\ (i - 1) % n \in 0 .. n - 1
        /\ i - 1 = n * ((i - 1) \div n) + ((i - 1) % n)
    BY <2>0, <2>2, Parts
  <2>4. t \in Nat \ {0} /\ j \in 1..n /\ i = (t - 1) * n + j
    <3>1. PICK x, y : x = (i - 1) \div n /\ y = (i - 1) % n OBVIOUS
    <3>2. x \in Nat /\ y \in 0 .. n - 1 /\ i - 1 = n * x + y /\ t = x + 1 /\ j = y + 1
      BY <2>1, <2>3, <3>1
    <3>3. n * x \in Nat /\ (t - 1) * n = n * x BY <1>2, <3>2
    <3> QED BY <1>2, <2>2, <3>2, <3>3
  <2>5. t \in 1..q.m
    <3>1. SUFFICES ASSUME q.m <= t - 1 PROVE FALSE BY <1>2, <2>4
    <3>2. q.m * n <= (t - 1) * n BY <1>2, <2>4, <3>1
    <3>3. (t - 1) * n \in Int /\ q.m * n \in Int BY <1>2, <2>4
    <3> QED BY <1>2, <2>4, <3>2, <3>3
  <2> QED BY <2>4, <2>5
<1> HIDE DEF At
<1>7. \A i \in 1..q.dim : At(i) \in Int
  <2> TAKE i \in 1..q.dim
  <2>1. PICK t \in 1..q.m, j \in 1..n : i = (t - 1) * n + j BY <1>6
  <2>2. At(i) = q.book[t][ReadCode(q, code, t)][j] BY <1>5, <2>1
  <2> QED BY <1>3, <2>2 DEF VectorsOf
<1>8. Decode(q, code) \in VectorsOf(q.dim) BY <1>4, <1>7 DEF VectorsOf
<1>9. PICK x, y : x = Sub(q, Decode(q, code), s) /\ y = q.book[s][ReadCode(q, code, s)] OBVIOUS
<1>10. /\ x \in VectorsOf(n) /\ y \in VectorsOf(n)
       /\ \A j \in 1..n : x[j] = Decode(q, code)[(s - 1) * n + j]
  BY <1>1, <1>2, <1>3, <1>8, <1>9, SubIs
<1>11. \A j \in 1..n : x[j] = y[j]
  <2> TAKE j \in 1..n
  <2>1. (s - 1) * n + j \in 1..q.dim /\ At((s - 1) * n + j) = y[j] BY <1>5, <1>9
  <2>2. PICK i : i = (s - 1) * n + j OBVIOUS
  <2>3. Decode(q, code)[i] = At(i) BY <1>4, <2>1, <2>2
  <2> QED BY <1>10, <2>1, <2>2, <2>3
<1>12. x = [j \in 1..n |-> x[j]] /\ y = [j \in 1..n |-> y[j]] BY <1>10 DEF VectorsOf
<1>13. x = y BY <1>11, <1>12
<1> QED BY <1>9, <1>13

(* A code's distance to another is its estimate for what the other stands  *)
(* for.                                                                    *)
LEMMA PqAgrees ==
    ASSUME NEW q, PqShape(q), NEW a, NEW b,
           \A s \in 1..q.m : ReadCode(q, a, s) \in Centroids(q) /\ ReadCode(q, b, s) \in Centroids(q),
           q.kind = "pq" /\ q.metric = "ip" =>
             \A s \in 1..q.m : ReadCode(q, a, s) # ReadCode(q, b, s)
    PROVE  CodeDistance(q, a, b) = EstimateDistance(q, a, PreprocessQuery(q, Decode(q, b)))
<1>1. PICK x : x = Decode(q, b) OBVIOUS
<1>2. IsPq(q) /\ (q.kind = "pq" \/ q.kind = "scann") BY DEF PqShape, IsPq
<1> DEFINE A(s) == ReadCode(q, a, s)
           B(s) == ReadCode(q, b, s)
           Between(s) == VecDist(q.metric, q.book[s][A(s)], q.book[s][B(s)])
           lut == PqTable(q, x)
           est == [s \in 1..q.m |-> lut[s][A(s)]]
<1>3. EstimateDistance(q, a, PreprocessQuery(q, x)) = <<SumFunction(est), 1>>
  <2>1. PreprocessQuery(q, x) = lut BY <1>2 DEF PreprocessQuery, IsPq
  <2>2. EstimateDistance(q, a, lut) = <<PqSum(q, a, lut), 1>> BY <1>2 DEF EstimateDistance, IsPq
  <2> QED BY <2>1, <2>2 DEF PqSum
<1>4. \A s \in 1..q.m : est[s] = Between(s)
  <2> TAKE s \in 1..q.m
  <2>1. A(s) \in Centroids(q) /\ B(s) \in Centroids(q) OBVIOUS
  <2>2. lut[s][A(s)] = VecDist(q.metric, Sub(q, x, s), q.book[s][A(s)]) BY <2>1 DEF PqTable
  <2>3. Sub(q, x, s) = q.book[s][B(s)] BY <1>1, DecodedSub
  <2>4. PICK n, u, v : n = SubDim(q) /\ u = q.book[s][A(s)] /\ v = q.book[s][B(s)] OBVIOUS
  <2>5. n \in Nat /\ u \in VectorsOf(n) /\ v \in VectorsOf(n) BY <2>1, <2>4, SlotsLie DEF PqShape
  <2>6. VecDist(q.metric, v, u) = VecDist(q.metric, u, v) BY <2>5, DistSymmetric
  <2> QED BY <2>2, <2>3, <2>4, <2>6
<1>5. CASE q.kind = "scann"
  <2>1. CodeDistance(q, a, b) = <<SumFunction([s \in 1..q.m |-> Between(s)]), 1>>
    BY <1>5 DEF CodeDistance, ScannCodeDistance
  <2>2. est = [s \in 1..q.m |-> Between(s)] BY <1>4
  <2> HIDE DEF est
  <2> QED BY <1>1, <1>3, <2>1, <2>2
<1>6. CASE q.kind = "pq"
  <2> DEFINE Entry(s) == IF q.table # <<>> THEN q.table[s][A(s)][B(s)] ELSE Between(s)
  <2>1. CodeDistance(q, a, b) = <<SumFunction([s \in 1..q.m |-> Entry(s)]), 1>>
    BY <1>6 DEF CodeDistance, PqCodeDistance
  <2>2. ASSUME NEW s \in 1..q.m PROVE Entry(s) = Between(s)
    <3>1. A(s) \in Centroids(q) /\ B(s) \in Centroids(q) OBVIOUS
    <3>2. q.table[s][A(s)][B(s)] = IF A(s) = B(s) THEN 0 ELSE Between(s)
      <4>1. q.table = CrossTable(q, q.book) BY <1>6 DEF PqShape
      <4>2. CrossTable(q, q.book)[s] = [c \in Centroids(q) |-> [d \in Centroids(q) |->
               IF c = d THEN 0 ELSE VecDist(q.metric, q.book[s][c], q.book[s][d])]]
        BY DEF CrossTable
      <4> QED BY <3>1, <4>1, <4>2
    <3>3. A(s) = B(s) => Between(s) = 0
      <4> SUFFICES ASSUME A(s) = B(s) PROVE Between(s) = 0 OBVIOUS
      <4>1. q.metric = "l2sq" BY <1>6 DEF PqShape
      <4>2. PICK n, u : n = SubDim(q) /\ u = q.book[s][A(s)] OBVIOUS
      <4>3. n \in Nat /\ u \in VectorsOf(n) BY <3>1, <4>2, SlotsLie DEF PqShape
      <4>4. VecDist("l2sq", u, u) = 0 BY <4>3, DistToItself
      <4> QED BY <4>1, <4>2, <4>4
    <3> HIDE DEF A, B, Between
    <3> QED BY <3>2, <3>3
  <2>3. est = [s \in 1..q.m |-> Entry(s)] BY <1>4, <2>2
  <2> HIDE DEF est, Entry
  <2> QED BY <1>1, <1>3, <2>1, <2>3
<1> QED BY <1>2, <1>5, <1>6

-----------------------------------------------------------------------------
(* FLAT.                                                                   *)

LEMMA AbsIs ==
    ASSUME NEW x \in Int
    PROVE  Abs(x) \in Nat /\ (x >= 0 => Abs(x) = x) /\ (x <= 0 => Abs(x) = -x)
BY DEF Abs

LEMMA AbsSumIs ==
    ASSUME NEW n \in Nat, NEW v \in VectorsOf(n)
    PROVE  AbsSum(v) = Sum([i \in 1..n |-> Abs(v[i])], 1..n) /\ AbsSum(v) \in Int
<1> DEFINE f == [i \in 1..n |-> Abs(v[i])]
<1>1. Len(v) = n /\ \A i \in 1..n : v[i] \in Int BY VectorLen
<1>2. \A i \in 1..n : f[i] \in Int
  <2> TAKE i \in 1..n
  <2>1. Abs(v[i]) \in Nat BY <1>1, AbsIs
  <2> QED BY <2>1
<1>3. AbsSum(v) = SumFunction(f) BY <1>1 DEF AbsSum
<1>4. DOMAIN f = 1..n OBVIOUS
<1> HIDE DEF f
<1>5. SumFunction(f) = Sum(f, 1..n) BY <1>4, SumIsOver
<1>6. Sum(f, 1..n) \in Int BY <1>2, Interval, SumTyped
<1> QED BY <1>3, <1>5, <1>6 DEF f

(* What there is to know of a vector on an axis.                           *)
LEMMA AxisIs ==
    ASSUME NEW n \in Nat, NEW u \in VectorsOf(n), NEW v \in VectorsOf(n), NEW k \in 1..n,
           \A i \in 1..n : i # k => v[i] = 0
    PROVE  Dot(u, v) = u[k] * v[k] /\ AbsSum(v) = Abs(v[k])
<1>1. \A i \in 1..n : u[i] \in Int /\ v[i] \in Int BY VectorLen
<1> DEFINE f == [i \in 1..n |-> u[i] * v[i]]
           g == [i \in 1..n |-> Abs(v[i])]
<1>2. f[k] = u[k] * v[k] /\ f[k] \in Int /\ g[k] = Abs(v[k]) /\ g[k] \in Int
  <2>1. Abs(v[k]) \in Nat BY <1>1, AbsIs
  <2> QED BY <1>1, <2>1
<1>3. \A i \in (1..n) \ {k} : f[i] = 0 /\ g[i] = 0
  <2> TAKE i \in (1..n) \ {k}
  <2>1. v[i] = 0 /\ u[i] \in Int BY <1>1
  <2>2. Abs(0) = 0 /\ u[i] * 0 = 0 BY <2>1 DEF Abs
  <2> QED BY <2>1, <2>2
<1>4. Dot(u, v) = Sum(f, 1..n) BY DotIs
<1>5. AbsSum(v) = Sum(g, 1..n) BY AbsSumIs
<1> HIDE DEF f, g
<1>6. Sum(f, 1..n) = f[k] /\ Sum(g, 1..n) = g[k] BY <1>2, <1>3, Interval, SumOfOne
<1> QED BY <1>2, <1>4, <1>5, <1>6

LEMMA CosineAgrees ==
    ASSUME NEW n \in Nat, NEW a \in VectorsOf(n), NEW b \in VectorsOf(n), OnAxis(n, b)
    PROVE  SameFraction(Cosine(Dot(a, b), AbsSum(a) * AbsSum(b)), Cosine(Dot(a, Unit(b)), AbsSum(a)))
<1>1. PICK k \in 1..n : \A i \in 1..n : i # k => b[i] = 0 BY DEF OnAxis
<1>2. PICK x, y, N, u : x = a[k] /\ y = b[k] /\ N = AbsSum(a) /\ u = Unit(b) OBVIOUS
<1>3. x \in Int /\ y \in Int /\ N \in Int BY <1>2, VectorLen, AbsSumIs
<1>4. Dot(a, b) = x * y /\ AbsSum(b) = Abs(y) BY <1>1, <1>2, AxisIs
<1>5. PICK z : z = IF y > 0 THEN 1 ELSE IF y < 0 THEN -1 ELSE 0 OBVIOUS
<1>6. u \in VectorsOf(n) /\ u[k] = z /\ \A i \in 1..n : i # k => u[i] = 0
  <2>1. Len(b) = n BY VectorLen
  <2>2. u = [i \in 1..n |-> IF b[i] > 0 THEN 1 ELSE IF b[i] < 0 THEN -1 ELSE 0]
    BY <1>2, <2>1 DEF Unit
  <2>3. u \in VectorsOf(n) BY <2>2 DEF VectorsOf
  <2>4. u[k] = z BY <1>2, <1>5, <2>2
  <2> QED BY <1>1, <2>2, <2>3, <2>4
<1>7. Dot(a, u) = x * z BY <1>2, <1>6, AxisIs
<1>8. \A d, m \in Int : m # 0 => Cosine(d, m)[1] = m - d /\ Cosine(d, m)[2] = m
  <2> TAKE d, m \in Int
  <2> HAVE m # 0
  <2>1. Cosine(d, m) = <<1 * m + (-d), m>> BY DEF Cosine, Whole
  <2> QED BY <2>1
<1>9. \A d : Cosine(d, 0)[1] = 1 /\ Cosine(d, 0)[2] = 1 BY DEF Cosine
<1>10. CASE N = 0
  <2>1. Abs(y) \in Nat BY <1>3, AbsIs
  <2>2. N * Abs(y) = 0 BY <1>10, <2>1
  <2> QED BY <1>2, <1>4, <1>9, <1>10, <2>2 DEF SameFraction
<1>11. CASE N # 0 /\ y = 0
  <2>1. Abs(y) = 0 /\ z = 0 BY <1>5, <1>11 DEF Abs
  <2>2. N * Abs(y) = 0 /\ x * y = 0 /\ x * z = 0 BY <1>3, <1>11, <2>1
  <2>3. Cosine(x * z, N)[1] = N /\ Cosine(x * z, N)[2] = N
    <3>1. 0 \in Int /\ N - 0 = N BY <1>3
    <3> QED BY <1>3, <1>8, <1>11, <2>2, <3>1
  <2>4. 1 * N = N * 1 BY <1>3
  <2>5. Cosine(x * y, N * Abs(y))[1] = 1 /\ Cosine(x * y, N * Abs(y))[2] = 1 BY <1>9, <2>2
  <2>6. SameFraction(Cosine(x * y, N * Abs(y)), Cosine(x * z, N)) BY <2>3, <2>4, <2>5 DEF SameFraction
  <2> QED BY <1>2, <1>4, <1>7, <2>6
<1>12. CASE N # 0 /\ y # 0
  <2>1. PICK m : m = Abs(y) OBVIOUS
  <2>2. m \in Nat \ {0} /\ z \in Int /\ y = z * m
    <3>1. CASE y > 0 BY <1>3, <1>5, <2>1, <3>1 DEF Abs
    <3>2. CASE y < 0 BY <1>3, <1>5, <2>1, <3>2 DEF Abs
    <3> QED BY <1>3, <1>12, <3>1, <3>2
  <2>3. N * m \in Int /\ N * m # 0 BY <1>3, <1>12, <2>2
  <2>4. x * y \in Int /\ x * z \in Int /\ x * y = (x * z) * m BY <1>3, <2>2
  <2>5. Cosine(x * y, N * m)[1] = N * m - x * y /\ Cosine(x * y, N * m)[2] = N * m
    BY <1>8, <2>3, <2>4
  <2>6. Cosine(x * z, N)[1] = N - x * z /\ Cosine(x * z, N)[2] = N BY <1>3, <1>8, <1>12, <2>4
  <2>7. (N * m - (x * z) * m) * N = (N - x * z) * (N * m)
    <3>1. \A c, d, e \in Int : (c * e - d * e) * c = (c - d) * (c * e) OBVIOUS
    <3> QED BY <1>3, <2>2, <2>4, <3>1
  <2>8. SameFraction(Cosine(x * y, N * m), Cosine(x * z, N))
    <3>1. PICK f, g : f = Cosine(x * y, N * m) /\ g = Cosine(x * z, N) OBVIOUS
    <3>2. f[1] = N * m - (x * z) * m /\ f[2] = N * m /\ g[1] = N - x * z /\ g[2] = N
      BY <2>4, <2>5, <2>6, <3>1
    <3>3. f[1] * g[2] = g[1] * f[2] BY <2>7, <3>2
    <3> QED BY <3>1, <3>3 DEF SameFraction
  <2> QED BY <1>2, <1>4, <1>7, <2>1, <2>8
<1> QED BY <1>10, <1>11, <1>12

LEMMA FlatAgrees ==
    ASSUME NEW q, q.kind = "flat", NEW n \in Nat, NEW a \in VectorsOf(n), NEW b \in VectorsOf(n),
           q.metric = "cosine" => OnAxis(n, b)
    PROVE  SameFraction(CodeDistance(q, a, b), EstimateDistance(q, a, PreprocessQuery(q, b)))
<1>1. /\ CodeDistance(q, a, b) = FlatCodeDistance(q, a, b)
      /\ PreprocessQuery(q, b) = Effective(q, b)
      /\ EstimateDistance(q, a, Effective(q, b)) = FlatEstimate(q, a, Effective(q, b))
  BY DEF CodeDistance, PreprocessQuery, EstimateDistance, FlatQuery, IsPq
<1>2. CASE q.metric = "cosine"
  <2>1. SameFraction(Cosine(Dot(a, b), AbsSum(a) * AbsSum(b)), Cosine(Dot(a, Unit(b)), AbsSum(a)))
    BY <1>2, CosineAgrees
  <2> QED BY <1>1, <1>2, <2>1 DEF FlatCodeDistance, FlatEstimate, Effective
<1>3. CASE q.metric # "cosine"
  <2>1. FlatCodeDistance(q, a, b) = FlatEstimate(q, a, Effective(q, b))
    BY <1>3 DEF FlatCodeDistance, FlatEstimate, Effective
  <2> QED BY <1>1, <2>1 DEF SameFraction
<1> QED BY <1>2, <1>3

-----------------------------------------------------------------------------
(* RaBitQ.                                                                 *)

LEMMA MaxAbsIs ==
    ASSUME NEW n \in Nat \ {0}, NEW r \in VectorsOf(n)
    PROVE  MaxAbs(r) \in Nat /\ \A i \in 1..n : Abs(r[i]) <= MaxAbs(r)
<1>1. Len(r) = n /\ \A i \in 1..n : r[i] \in Int BY VectorLen
<1>2. \A i \in 1..n : Abs(r[i]) \in Nat BY <1>1, AbsIs
<1> DEFINE F == [c \in 0 .. n - 1 |-> -Abs(r[c + 1])]
           m == n - 1
<1>3. m \in Nat /\ \A c \in 0 .. m : c + 1 \in 1..n OBVIOUS
<1>4. \A c \in 0 .. m : F[c] \in Int /\ F[c] = -Abs(r[c + 1])
  <2> TAKE c \in 0 .. m
  <2>1. Abs(r[c + 1]) \in Nat BY <1>2, <1>3
  <2> QED BY <2>1
<1> HIDE DEF F
<1>5. \E c \in 0 .. m : \A d \in 0 .. m : F[c] <= F[d]
  <2> HIDE DEF m
  <2> QED BY <1>3, <1>4, FirstLeast
<1>6. PICK c \in 0 .. m : \A d \in 0 .. m : F[c] <= F[d] BY <1>5
<1>7. \A i \in 1..n : Abs(r[i]) <= Abs(r[c + 1])
  <2> TAKE i \in 1..n
  <2>1. i - 1 \in 0 .. m /\ (i - 1) + 1 = i OBVIOUS
  <2>2. F[c] <= F[i - 1] /\ F[i - 1] = -Abs(r[i]) /\ F[c] = -Abs(r[c + 1]) BY <1>4, <1>6, <2>1
  <2>3. Abs(r[i]) \in Nat /\ Abs(r[c + 1]) \in Nat BY <1>2, <1>3
  <2> QED BY <2>2, <2>3
<1> DEFINE S == {Abs(r[i]) : i \in 1..n}
<1>8. \E a \in S : \A i \in 1..n : Abs(r[i]) <= a BY <1>3, <1>7
<1>9. MaxAbs(r) = CHOOSE a \in S : \A i \in 1..n : Abs(r[i]) <= a BY <1>1 DEF MaxAbs
<1> HIDE DEF S
<1>10. MaxAbs(r) \in S /\ \A i \in 1..n : Abs(r[i]) <= MaxAbs(r) BY <1>8, <1>9
<1> QED BY <1>2, <1>10 DEF S

(* lrint is off by half at most.                                           *)
LEMMA RoundedIs ==
    ASSUME NEW num \in Int, NEW den \in Nat \ {0}
    PROVE  /\ Rounded(num, den) \in Int
           /\ 2 * (num - Rounded(num, den) * den) <= den
           /\ -den <= 2 * (num - Rounded(num, den) * den)
<1>1. PICK a, b : a = num \div den /\ b = num % den OBVIOUS
<1>2. a \in Int /\ b \in 0 .. den - 1 /\ num = den * a + b BY <1>1, Parts
<1>3. \/ Rounded(num, den) = a /\ 2 * b <= den
      \/ Rounded(num, den) = a + 1 /\ 2 * b >= den
  <2>1. Rounded(num, den) = IF 2 * b < den \/ (2 * b = den /\ a % 2 = 0) THEN a ELSE a + 1
    BY <1>1 DEF Rounded
  <2>2. 2 * b \in Int BY <1>2
  <2> QED BY <2>1, <2>2
<1>4. num - a * den = b /\ num - (a + 1) * den = b - den
  <2>1. a * den = den * a /\ (a + 1) * den = den * a + den /\ den * a \in Int BY <1>2
  <2> QED BY <1>2, <2>1
<1>5. CASE Rounded(num, den) = a /\ 2 * b <= den BY <1>2, <1>4, <1>5
<1>6. CASE Rounded(num, den) = a + 1 /\ 2 * b >= den
  <2>1. num - Rounded(num, den) * den = b - den BY <1>4, <1>6
  <2>2. a + 1 \in Int BY <1>2
  <2>3. 2 * (b - den) <= den /\ -den <= 2 * (b - den) BY <1>2, <1>6
  <2> QED BY <1>6, <2>1, <2>2, <2>3
<1> QED BY <1>3, <1>5, <1>6

(* The level times the step is within half a step.  At the upper end the   *)
(* rounding goes one level too far when the residual is the largest, and   *)
(* the clamp takes it back; at the lower end it never does.                *)
LEMMA LevelIs ==
    ASSUME NEW n \in Nat \ {0}, NEW r \in VectorsOf(n), NEW i \in 1..n,
           NEW bits, Wide(bits), bits > 1, NEW H, H = 2^(bits - 1), NEW A, A = MaxAbs(r)
    PROVE  /\ H \in Nat \ {0} /\ 2^bits = 2 * H
           /\ Level(r, i, bits) \in -H .. H - 1
           /\ 2 * Abs(r[i] * (2 * H - 1) - (2 * A) * Level(r, i, bits)) <= 2 * A
<1>1. H \in Nat \ {0} /\ 2^bits = 2 * H
  <2>1. PICK c : c = bits - 1 OBVIOUS
  <2>2. c \in Nat /\ c + 1 = bits /\ c <= 2 * ByteBits BY <2>1, ByteAssumption DEF Wide
  <2> QED BY <2>1, <2>2, Powers
<1>2. PICK x, L : x = r[i] /\ L = Level(r, i, bits) OBVIOUS
<1>3. A \in Nat /\ x \in Int /\ Abs(x) <= A BY <1>2, MaxAbsIs, VectorLen
<1>4. x <= A /\ -A <= x BY <1>3 DEF Abs
<1>5. CASE A = 0
  <2>1. L = 0 BY <1>2, <1>5 DEF Level
  <2>2. x = 0 BY <1>3, <1>4, <1>5
  <2>3. x * (2 * H - 1) - (2 * A) * L = 0 BY <1>1, <1>5, <2>1, <2>2
  <2>4. Abs(0) = 0 BY DEF Abs
  <2>5. L \in -H .. H - 1 BY <1>1, <2>1
  <2>6. 2 * Abs(x * (2 * H - 1) - (2 * A) * L) = 0 BY <2>3, <2>4
  <2> QED BY <1>1, <1>2, <1>5, <2>5, <2>6
<1>6. CASE A # 0
  <2>1. PICK num, m : num = x * (2 * H - 1) /\ m = Rounded(num, 2 * A) OBVIOUS
  <2>2. num \in Int /\ 2 * A \in Nat \ {0} BY <1>1, <1>3, <1>6, <2>1
  <2>3. m \in Int /\ 2 * (num - m * (2 * A)) <= 2 * A /\ -(2 * A) <= 2 * (num - m * (2 * A))
    BY <2>1, <2>2, RoundedIs
  <2>4. PICK p : p = A * m OBVIOUS
  <2>5. p \in Int /\ m * (2 * A) = 2 * p /\ num - 2 * p <= A /\ -A <= num - 2 * p
    <3>1. p \in Int /\ m * (2 * A) = 2 * p BY <1>3, <2>3, <2>4
    <3>2. 2 * (num - 2 * p) <= 2 * A /\ -(2 * A) <= 2 * (num - 2 * p) BY <2>3, <3>1
    <3> QED BY <1>3, <2>2, <3>1, <3>2
  <2>6. PICK ah : ah = A * H OBVIOUS
  <2>7. ah \in Nat /\ A * (2 * H - 1) = 2 * ah - A
    BY <1>1, <1>3, <2>6
  <2>8. num <= 2 * ah - A /\ A - 2 * ah <= num
    <3>1. PICK k : k = 2 * H - 1 OBVIOUS
    <3>2. k \in Nat BY <1>1, <3>1
    <3>3. x * k <= A * k /\ (-A) * k <= x * k BY <1>3, <1>4, <3>2
    <3>4. (-A) * k = -(A * k) BY <1>3, <3>2
    <3>5. A * k = 2 * ah - A /\ num = x * k BY <2>1, <2>7, <3>1
    <3> QED BY <1>3, <2>2, <2>7, <3>3, <3>4, <3>5
  <2>9. m <= H
    <3>1. SUFFICES ASSUME H + 1 <= m PROVE FALSE BY <1>1, <2>3
    <3>2. A * (H + 1) <= A * m BY <1>1, <1>3, <2>3, <3>1
    <3>3. A * (H + 1) = ah + A BY <1>1, <1>3, <2>6
    <3>4. ah + A <= p BY <2>4, <3>2, <3>3
    <3> QED BY <1>3, <1>6, <2>2, <2>5, <2>7, <2>8, <3>4
  <2>10. -H <= m
    <3>1. SUFFICES ASSUME m <= -H - 1 PROVE FALSE BY <1>1, <2>3
    <3>2. A * m <= A * (-H - 1) BY <1>1, <1>3, <2>3, <3>1
    <3>3. A * (-H - 1) = -ah - A BY <1>1, <1>3, <2>6
    <3>4. p <= -ah - A BY <2>4, <3>2, <3>3
    <3> QED BY <1>3, <1>6, <2>2, <2>5, <2>7, <2>8, <3>4
  <2>11. L = IF m > H - 1 THEN H - 1 ELSE IF m < -H THEN -H ELSE m
    <3>1. Level(r, i, bits) =
            IF MaxAbs(r) = 0 THEN 0
            ELSE LET k == Rounded(r[i] * (2^bits - 1), 2 * MaxAbs(r))
                 IN  IF k > 2^(bits - 1) - 1 THEN 2^(bits - 1) - 1
                     ELSE IF k < -(2^(bits - 1)) THEN -(2^(bits - 1)) ELSE k
      BY DEF Level
    <3>2. Rounded(r[i] * (2^bits - 1), 2 * MaxAbs(r)) = m BY <1>1, <1>2, <2>1
    <3> QED BY <1>2, <1>6, <3>1, <3>2
  <2>12. CASE m = H
    <3>1. L = H - 1 BY <1>1, <2>3, <2>11, <2>12
    <3>2. p = ah BY <2>4, <2>6, <2>12
    <3>3. (2 * A) * L = 2 * ah - 2 * A BY <1>1, <1>3, <2>6, <3>1
    <3>4. num = 2 * ah - A BY <1>3, <2>2, <2>5, <2>7, <2>8, <3>2
    <3>5. num - (2 * A) * L = A BY <1>3, <2>7, <3>3, <3>4
    <3>6. Abs(A) = A /\ L \in -H .. H - 1 BY <1>1, <1>3, <3>1 DEF Abs
    <3> QED BY <1>1, <1>2, <1>3, <2>1, <3>5, <3>6
  <2>13. CASE m # H
    <3>1. m <= H - 1 BY <1>1, <2>3, <2>9, <2>13
    <3>2. L = m /\ L \in -H .. H - 1 BY <1>1, <2>3, <2>10, <2>11, <3>1
    <3>3. (2 * A) * L = 2 * p BY <1>3, <2>3, <2>4, <3>2
    <3>4. Abs(num - 2 * p) <= A
      <4>1. PICK e : e = num - 2 * p OBVIOUS
      <4>2. e \in Int /\ e <= A /\ -A <= e BY <2>2, <2>5, <4>1
      <4>3. Abs(e) <= A BY <1>3, <4>2 DEF Abs
      <4> QED BY <4>1, <4>3
    <3>5. Abs(num - 2 * p) \in Int
      <4>1. num - 2 * p \in Int BY <2>2, <2>5
      <4>2. Abs(num - 2 * p) \in Nat BY <4>1, AbsIs
      <4> QED BY <4>2
    <3>6. 2 * Abs(num - 2 * p) <= 2 * A BY <1>3, <3>4, <3>5
    <3> QED BY <1>1, <1>2, <2>1, <3>2, <3>3, <3>6
  <2> QED BY <2>12, <2>13
<1> QED BY <1>5, <1>6

Sign(H, W, x) == IF x >= H THEN x - W ELSE x

LEMMA SignedBack ==
    ASSUME NEW H \in Nat \ {0}, NEW W, W = 2 * H, NEW L \in -H .. H - 1
    PROVE  /\ L % W \in 0 .. W - 1
           /\ Sign(H, W, L % W) = L
<1>1. W \in Nat \ {0} /\ L \in Int OBVIOUS
<1>2. CASE L >= 0
  <2>1. L \in 0 .. W - 1 /\ 0 \in Int BY <1>2
  <2>2. (L + W * 0) % W = L BY <1>1, <2>1, Above
  <2>3. L + W * 0 = L BY <1>1
  <2>4. L % W = L BY <2>2, <2>3
  <2> QED BY <1>1, <2>1, <2>4 DEF Sign
<1>3. CASE L < 0
  <2>1. PICK M : M = L + W OBVIOUS
  <2>2. M \in 0 .. W - 1 /\ M >= H /\ -1 \in Int /\ M - W = L BY <1>1, <1>3, <2>1
  <2>3. (M + W * (-1)) % W = M BY <1>1, <2>2, Above
  <2>4. M + W * (-1) = L BY <1>1, <2>1
  <2>5. L % W = M BY <2>3, <2>4
  <2> QED BY <1>1, <2>2, <2>5 DEF Sign
<1> QED BY <1>1, <1>2, <1>3

RotateTyped(n) == \A v \in VectorsOf(n) : Rotate(v) \in VectorsOf(n)
RabitqShape(q) ==
    /\ q.kind = "rabitq" /\ q.dim \in Nat \ {0} /\ Wide(q.bits)
    /\ q.centroid \in VectorsOf(q.dim)

LEMMA EffectiveTyped ==
    ASSUME NEW q, NEW n \in Nat, NEW v \in VectorsOf(n)
    PROVE  Effective(q, v) \in VectorsOf(n)
<1>1. Len(v) = n BY VectorLen
<1>2. Unit(v) = [i \in 1..n |-> IF v[i] > 0 THEN 1 ELSE IF v[i] < 0 THEN -1 ELSE 0]
  BY <1>1 DEF Unit
<1>3. Unit(v) \in VectorsOf(n) BY <1>2 DEF VectorsOf
<1> QED BY <1>3 DEF Effective

LEMMA MeanTyped ==
    ASSUME NEW q, q.dim \in Nat, NEW V, V \subseteq VectorsOf(q.dim), NEW samples \in Seq(V)
    PROVE  MeanOf(q, samples) \in VectorsOf(q.dim)
<1> DEFINE n == Len(samples)
           Column(k) == [i \in 1..n |-> Effective(q, samples[i])[k]]
           Mean(k) == IF samples = <<>> THEN 0 ELSE SumFunction(Column(k)) \div n
<1>1. n \in Nat /\ (samples # <<>> => n \in Nat \ {0}) OBVIOUS
<1>2. \A i \in 1..n : Effective(q, samples[i]) \in VectorsOf(q.dim)
  <2> TAKE i \in 1..n
  <2>1. samples[i] \in VectorsOf(q.dim) OBVIOUS
  <2> QED BY <2>1, EffectiveTyped
<1>3. ASSUME NEW k \in 1..q.dim PROVE Mean(k) \in Int
  <2> DEFINE f == Column(k)
  <2>1. DOMAIN f = 1..n /\ \A i \in 1..n : f[i] \in Int BY <1>2 DEF VectorsOf
  <2> HIDE DEF f, n
  <2>2. SumFunction(f) = Sum(f, 1..n) BY <2>1, SumIsOver
  <2>3. Sum(f, 1..n) \in Int BY <1>1, <2>1, Interval, SumTyped
  <2>4. SumFunction(f) \in Int BY <2>2, <2>3
  <2>5. samples # <<>> => SumFunction(f) \div n \in Int BY <1>1, <2>4
  <2> QED BY <2>5 DEF f
<1>4. MeanOf(q, samples) = [k \in 1..q.dim |-> Mean(k)] BY DEF MeanOf
<1> HIDE DEF Mean
<1> QED BY <1>3, <1>4 DEF VectorsOf

LEMMA RabitqAgrees ==
    ASSUME NEW q, RabitqShape(q), q.bits > 1, RotateTyped(q.dim),
           NEW v \in VectorsOf(q.dim), NEW i \in 1..q.dim, NEW code, code = Encode(q, v)
    PROVE  2 * Abs(Residual(q, v)[i] * code.scale[2] - code.scale[1] * LevelOf(q, code, i))
             <= code.scale[1]
<1>1. PICK n, bits, r : n = q.dim /\ bits = q.bits /\ r = Residual(q, v) OBVIOUS
<1>2. n \in Nat \ {0} /\ n \in Nat /\ Wide(bits) /\ bits > 1 BY <1>1 DEF RabitqShape
<1>3. r \in VectorsOf(n)
  <2>1. PICK u, c : u = Effective(q, v) /\ c = q.centroid OBVIOUS
  <2>2. u \in VectorsOf(n) /\ c \in VectorsOf(n)
    BY <1>1, <1>2, <2>1, EffectiveTyped DEF RabitqShape
  <2>3. Minus(u, c) \in VectorsOf(n) BY <1>2, <2>2, MinusIs
  <2> QED BY <1>1, <2>1, <2>3 DEF Residual, RotateTyped
<1>4. PICK H, A : H = 2^(bits - 1) /\ A = MaxAbs(r) OBVIOUS
<1>5. \A k \in 1..n : /\ H \in Nat \ {0} /\ 2^bits = 2 * H
                      /\ Level(r, k, bits) \in -H .. H - 1
                      /\ 2 * Abs(r[k] * (2 * H - 1) - (2 * A) * Level(r, k, bits)) <= 2 * A
  BY <1>2, <1>3, <1>4, LevelIs
<1>6. H \in Nat \ {0} /\ 2^bits = 2 * H BY <1>1, <1>5
<1> DEFINE raw == [k \in 1..n |-> Level(r, k, bits) % 2^bits]
<1>7. raw \in Seq(Raws(bits)) /\ Len(raw) = n
  <2>1. \A k \in 1..n : Level(r, k, bits) % 2^bits \in Raws(bits)
    <3> TAKE k \in 1..n
    <3>1. PICK L, W : L = Level(r, k, bits) /\ W = 2^bits OBVIOUS
    <3>2. L \in -H .. H - 1 /\ W = 2 * H BY <1>5, <1>6, <3>1
    <3>3. L % W \in 0 .. W - 1 BY <1>6, <3>2, SignedBack
    <3> QED BY <3>1, <3>3 DEF Raws
  <2>2. raw \in [1..n -> Raws(bits)] BY <2>1
  <2> QED BY <1>2, <2>2
<1>8. code.bytes = PackBits(raw, bits) /\ code.scale = <<2 * A, 2^bits - 1>>
  <2>1. code = RabitqEncode(q, v) BY DEF RabitqShape, Encode, IsPq
  <2>2. bits # 1 BY <1>2
  <2>3. [k \in 1..n |-> IF bits = 1 THEN IF r[k] > 0 THEN 1 ELSE 0
                        ELSE Level(r, k, bits) % 2^bits] = raw
    BY <2>2
  <2>4. RabitqEncode(q, v).bytes =
          PackBits([k \in 1..n |-> IF bits = 1 THEN IF r[k] > 0 THEN 1 ELSE 0
                                   ELSE Level(r, k, bits) % 2^bits], bits)
    BY <1>1 DEF RabitqEncode
  <2>5. RabitqEncode(q, v).scale = <<2 * A, 2^bits - 1>>
    BY <1>1, <1>4, <2>2 DEF RabitqEncode
  <2> HIDE DEF raw
  <2> QED BY <2>1, <2>3, <2>4, <2>5
<1>9. LevelOf(q, code, i) = Level(r, i, bits)
  <2>1. PICK L, W, x : L = Level(r, i, bits) /\ W = 2^bits /\ x = raw[i] OBVIOUS
  <2>2. x = L % W BY <1>1, <2>1
  <2>3. RawBits(code.bytes, i, bits) = x
    <3> HIDE DEF raw
    <3>1. i \in 1..Len(raw) BY <1>1, <1>7
    <3>2. RawBits(PackBits(raw, bits), i, bits) = raw[i] BY <1>2, <1>7, <3>1, BitsReadBack
    <3> QED BY <1>8, <2>1, <3>2
  <2>4. LevelOf(q, code, i) = Sign(H, W, x)
    <3>1. bits # 1 BY <1>2
    <3> QED BY <1>1, <1>4, <2>1, <2>3, <3>1 DEF LevelOf, UnpackBits, SignExtended, Sign
  <2>5. L \in -H .. H - 1 /\ W = 2 * H BY <1>1, <1>5, <1>6, <2>1
  <2>6. Sign(H, W, L % W) = L BY <1>6, <2>5, SignedBack
  <2> QED BY <2>1, <2>2, <2>4, <2>6
<1>10. code.scale[1] = 2 * A /\ code.scale[2] = 2 * H - 1 BY <1>6, <1>8
<1>11. 2 * Abs(r[i] * (2 * H - 1) - (2 * A) * Level(r, i, bits)) <= 2 * A BY <1>1, <1>5
<1> QED BY <1>1, <1>9, <1>10, <1>11

-----------------------------------------------------------------------------
(* The quantizers.                                                         *)

Kinds == {"flat", "rabitq", "pq", "scann"}
Made(o) == CreateQuantizer(ParseMetric(o), Dim, o)

LEMMA KindAccepted ==
    ASSUME NEW class, NEW o, InitAccepts(class, Dim, o)
    PROVE  Kind(o) \in Kinds /\ Kind(o) \notin RefusedKinds(class)
<1>1. QuantizerAccepts(ParseMetric(o), Dim, o) BY DEF InitAccepts
<1>2. Kind(o) \in Kinds BY <1>1 DEF QuantizerAccepts, Kinds
<1> QED BY <1>2 DEF InitAccepts

(* The constructors.                                                       *)
LEMMA MadeFacts ==
    ASSUME NEW o, Kind(o) \in Kinds
    PROVE  /\ Kind(o) = "flat" => Made(o) = NewFlat(ParseMetric(o), Dim)
           /\ Kind(o) = "rabitq" => Made(o) = NewRabitq(ParseMetric(o), Dim, o)
           /\ Kind(o) = "pq" => Made(o) = NewPq(ParseMetric(o), Dim, o)
           /\ Kind(o) = "scann" => Made(o) = NewScann(ParseMetric(o), Dim, o)
           /\ Made(o).kind = Kind(o)
<1>1. CASE Kind(o) = "flat" BY <1>1 DEF Made, CreateQuantizer, NewFlat
<1>2. CASE Kind(o) = "rabitq" BY <1>2 DEF Made, CreateQuantizer, NewRabitq
<1>3. CASE Kind(o) = "pq" BY <1>3 DEF Made, CreateQuantizer, NewPq
<1>4. CASE Kind(o) = "scann" BY <1>4 DEF Made, CreateQuantizer, NewScann
<1> QED BY <1>1, <1>2, <1>3, <1>4 DEF Kinds

(* Deserialize takes nothing from the quantizer it is called on but its    *)
(* kind.                                                                   *)
LEMMA RestoredByKind ==
    ASSUME NEW p, NEW q, p.kind = q.kind, q.kind \in Kinds, NEW b
    PROVE  Deserialize(p, b) = Deserialize(q, b)
<1>1. CASE q.kind = "flat" BY <1>1 DEF Deserialize, FlatRestored
<1>2. CASE q.kind = "rabitq" BY <1>2 DEF Deserialize, RabitqRestored
<1>3. CASE q.kind = "pq" BY <1>3 DEF Deserialize, PqRestored
<1>4. CASE q.kind = "scann" BY <1>4 DEF Deserialize, ScannRestored
<1> QED BY <1>1, <1>2, <1>3, <1>4 DEF Kinds

(* A quantizer that its blob gives back, and that is ready for codes.      *)
Settled(q) ==
    /\ q.kind \in Kinds /\ Serialize(q).kind = q.kind
    /\ Deserialize(q, Serialize(q)) = q
    /\ q.kind # "flat" => q.trained

LEMMA TrainedSettled ==
    ASSUME NEW o, Kind(o) \in Kinds, NEW samples, NEW q, q = Train(Made(o), samples)
    PROVE  /\ Settled(q) /\ q.kind = Kind(o) /\ CodeSize(q) = CodeSize(Made(o))
           /\ q.kind = "flat" => CodeSize(q) = <<Dim, "floats">>
<1> DEFINE metric == ParseMetric(o)
           p == Made(o)
<1>1. CASE Kind(o) = "flat"
  <2>1. p = [kind |-> "flat", metric |-> metric, dim |-> Dim] BY <1>1, MadeFacts DEF NewFlat
  <2> HIDE DEF p, metric
  <2>2. q = p BY <2>1 DEF Train, p
  <2>3. Deserialize(q, Serialize(q)) = q /\ Serialize(q).kind = q.kind
    BY <2>1, <2>2 DEF Deserialize, Serialize, FlatBlob, FlatRestored
  <2>4. q.kind = "flat" /\ q.dim = Dim BY <2>1, <2>2
  <2>5. CodeSize(q) = <<Dim, "floats">> BY <2>4 DEF CodeSize, IsPq
  <2>6. Settled(q) BY <2>3, <2>4 DEF Settled, Kinds
  <2> QED BY <1>1, <2>2, <2>4, <2>5, <2>6 DEF p
<1>2. CASE Kind(o) = "rabitq"
  <2> DEFINE bits == Option(o, "bits", 3)
             c == MeanOf(p, samples)
  <2>1. p = [kind |-> "rabitq", metric |-> metric, dim |-> Dim, bits |-> bits,
             centroid |-> Zero(Dim), normSq |-> 0, trained |-> FALSE]
    BY <1>2, MadeFacts DEF NewRabitq
  <2> HIDE DEF p, metric, bits, c
  <2>2. q = [p EXCEPT !.trained = TRUE, !.centroid = c, !.normSq = NormSq(c)]
    BY <2>1 DEF Train, RabitqTrain, p, c
  <2>3. q = [kind |-> "rabitq", metric |-> metric, dim |-> Dim, bits |-> bits,
             centroid |-> c, normSq |-> NormSq(c), trained |-> TRUE]
    BY <2>1, <2>2
  <2> DEFINE b == Serialize(q)
  <2>a. b = [kind |-> "rabitq", metric |-> metric, dim |-> Dim, bits |-> bits, centroid |-> c]
    BY <2>3 DEF Serialize, RabitqBlob
  <2> HIDE DEF b
  <2>b. q.kind = "rabitq" /\ b.kind = "rabitq" BY <2>3, <2>a
  <2>c. Deserialize(q, b) = RabitqRestored(q, b) BY <2>b DEF Deserialize
  <2>d. RabitqRestored(q, b) = q BY <2>3, <2>a DEF RabitqRestored
  <2>4. Deserialize(q, b) = q /\ b.kind = q.kind BY <2>b, <2>c, <2>d
  <2>5. CodeSize(q) = CodeSize(p)
    <3>1. p.kind = "rabitq" /\ p.dim = q.dim /\ p.bits = q.bits BY <2>1, <2>3
    <3> QED BY <2>b, <3>1 DEF CodeSize, IsPq
  <2>6. Settled(q) BY <2>3, <2>4 DEF Settled, Kinds, b
  <2> QED BY <1>2, <2>3, <2>5, <2>6 DEF p
<1>3. CASE Kind(o) = "pq"
  <2> DEFINE m == Slots(o, Dim)
             bits == Option(o, "bits", ByteBits)
             book == Book(p, samples)
             table == CrossTable(p, book)
  <2>1. p = [kind |-> "pq", metric |-> metric, dim |-> Dim, m |-> m, bits |-> bits,
             book |-> <<>>, table |-> <<>>, trained |-> FALSE]
    BY <1>3, MadeFacts DEF NewPq
  <2> HIDE DEF p, metric, m, bits, book, table
  <2>2. q = [p EXCEPT !.trained = TRUE, !.book = book, !.table = table]
    BY <2>1 DEF Train, PqTrain, p, book, table
  <2>3. q = [kind |-> "pq", metric |-> metric, dim |-> Dim, m |-> m, bits |-> bits,
             book |-> book, table |-> table, trained |-> TRUE]
    BY <2>1, <2>2
  <2> DEFINE b == Serialize(q)
  <2>4. b = [kind |-> "pq", metric |-> metric, dim |-> Dim, m |-> m, bits |-> bits, book |-> book]
    BY <2>3 DEF Serialize, PqBlob
  <2> HIDE DEF b
  <2>5. CrossTable(b, b.book) = table
    <3>1. b.m = p.m /\ b.bits = p.bits /\ b.metric = p.metric /\ b.book = book BY <2>1, <2>4
    <3> QED BY <3>1 DEF CrossTable, Centroids, table
  <2>b. q.kind = "pq" /\ b.kind = "pq" BY <2>3, <2>4
  <2>c. Deserialize(q, b) = PqRestored(q, b) BY <2>b DEF Deserialize
  <2>d. PqRestored(q, b) = q BY <2>3, <2>4, <2>5 DEF PqRestored
  <2>7. CodeSize(q) = CodeSize(p)
    <3>1. p.kind = "pq" /\ p.m = q.m /\ p.bits = q.bits BY <2>1, <2>3
    <3> QED BY <2>b, <3>1 DEF CodeSize, IsPq
  <2>8. Settled(q) BY <2>3, <2>b, <2>c, <2>d DEF Settled, Kinds, b
  <2> QED BY <1>3, <2>3, <2>7, <2>8 DEF p
<1>4. CASE Kind(o) = "scann"
  <2> DEFINE m == Slots(o, Dim)
             bits == Option(o, "bits", ByteBits)
             eta == Option(o, "eta", 4)
             book == Book(p, samples)
  <2>1. p = [kind |-> "scann", metric |-> metric, dim |-> Dim, m |-> m, bits |-> bits,
             eta |-> eta, book |-> <<>>, trained |-> FALSE]
    BY <1>4, MadeFacts DEF NewScann
  <2> HIDE DEF p, metric, m, bits, eta, book
  <2>2. q = [p EXCEPT !.trained = TRUE, !.book = book]
    BY <2>1 DEF Train, ScannTrain, p, book
  <2>3. q = [kind |-> "scann", metric |-> metric, dim |-> Dim, m |-> m, bits |-> bits,
             eta |-> eta, book |-> book, trained |-> TRUE]
    BY <2>1, <2>2
  <2> DEFINE b == Serialize(q)
  <2>4. b = [kind |-> "scann", metric |-> metric, dim |-> Dim, m |-> m, bits |-> bits,
             eta |-> eta, book |-> book]
    BY <2>3 DEF Serialize, ScannBlob
  <2> HIDE DEF b
  <2>b. q.kind = "scann" /\ b.kind = "scann" BY <2>3, <2>4
  <2>c. Deserialize(q, b) = ScannRestored(q, b) BY <2>b DEF Deserialize
  <2>d. ScannRestored(q, b) = q BY <2>3, <2>4 DEF ScannRestored
  <2>5. CodeSize(q) = CodeSize(p)
    <3>1. p.kind = "scann" /\ p.m = q.m /\ p.bits = q.bits BY <2>1, <2>3
    <3> QED BY <2>b, <3>1 DEF CodeSize, IsPq
  <2>6. Settled(q) BY <2>3, <2>b, <2>c, <2>d DEF Settled, Kinds, b
  <2> QED BY <1>4, <2>3, <2>5, <2>6 DEF p
<1> QED BY <1>1, <1>2, <1>3, <1>4 DEF Kinds

-----------------------------------------------------------------------------
(* Cores and facades, field by field.                                      *)

Celled(class) == class \in {"ivf", "spann"}
CoreWith(class, p, size, cells, codes) ==
    IF Celled(class)
    THEN [params |-> p, dim |-> Dim, codeSize |-> size, codes |-> codes, centroids |-> cells]
    ELSE [params |-> p, dim |-> Dim, codeSize |-> size, codes |-> codes]
CoreParams(class, o) ==
    CASE class = "hnsw" -> [HnswParams(o) EXCEPT !.efc = Larger(@, HnswParams(o).m)]
      [] class = "ivf" -> [IvfParams(o) EXCEPT !.nprobe = Smaller(@, IvfParams(o).nlist)]
      [] class = "spann" -> [SpannParams(o) EXCEPT !.nprobe = Smaller(@, SpannParams(o).nlist),
                                                   !.replicas = Smaller(@, SpannParams(o).nlist),
                                                   !.closure = Larger(@, 100)]
      [] class = "diskann" -> DiskannParams(o)
      [] class = "aisaq" -> [AisaqParams(o) EXCEPT !.L = Larger(@, AisaqParams(o).R),
                                                   !.alpha = Larger(@, 100)]
IndexWith(class, metric, params, rerank, q, core, rows, tombstones) ==
    [status |-> "open", class |-> class, metric |-> metric, params |-> params,
     rerank |-> rerank, quantizer |-> q, core |-> core, rows |-> rows, tombstones |-> tombstones]

LEMMA CellCoreIs ==
    ASSUME NEW p, NEW q
    PROVE  /\ CellCore(p, q) = CoreWith("ivf", p, CodeSize(q), <<>>, <<>>)
           /\ CellCore(p, q) = CoreWith("spann", p, CodeSize(q), <<>>, <<>>)
<1> DEFINE size == CodeSize(q)
           c == [params |-> p, dim |-> Dim, codeSize |-> size, codes |-> <<>>]
           w == [params |-> p, dim |-> Dim, codeSize |-> size, codes |-> <<>>, centroids |-> <<>>]
           cells == [centroids |-> <<>>]
<1>1. CellCore(p, q) = Joined(cells, c) BY DEF CellCore, Core
<1>2. CoreWith("ivf", p, size, <<>>, <<>>) = w /\ CoreWith("spann", p, size, <<>>, <<>>) = w
  BY DEF CoreWith, Celled
<1> HIDE DEF size
<1>3. DOMAIN cells = {"centroids"} /\ DOMAIN c = {"params", "dim", "codeSize", "codes"}
      /\ DOMAIN w = DOMAIN cells \cup DOMAIN c
  OBVIOUS
<1>4. \A key \in DOMAIN w : w[key] = IF key \in DOMAIN cells THEN cells[key] ELSE c[key] OBVIOUS
<1>5. w = [key \in DOMAIN w |-> w[key]] OBVIOUS
<1> HIDE DEF c, w, cells
<1>6. Joined(cells, c) = w BY <1>3, <1>4, <1>5 DEF Joined
<1> QED BY <1>1, <1>2, <1>6 DEF size

LEMMA FreshIndex ==
    ASSUME NEW class \in Classes, NEW o
    PROVE  InitFromOptions(class, o) =
           IndexWith(class, ParseMetric(o), ParseCoreParams(class, o), ParseRerankMultiple(o), Made(o),
                     CoreWith(class, CoreParams(class, o), CodeSize(Made(o)), <<>>, <<>>), {}, {})
<1> DEFINE q == Made(o)
<1>0. q = CreateQuantizer(ParseMetric(o), Dim, o) BY DEF Made
<1> HIDE DEF q
<1>1. CASE class = "hnsw"
  <2>1. InitFromOptions(class, o) = HnswIndex(o, q) BY <1>0, <1>1 DEF InitFromOptions
  <2>2. ParseCoreParams(class, o) = HnswParams(o) BY <1>1 DEF ParseCoreParams
  <2>3. HnswCore(HnswParams(o), q) = CoreWith(class, CoreParams(class, o), CodeSize(q), <<>>, <<>>)
    BY <1>1 DEF HnswCore, Core, CoreWith, CoreParams, Celled
  <2> QED BY <1>1, <2>1, <2>2, <2>3 DEF HnswIndex, Facade, IndexWith, q
<1>2. CASE class = "ivf"
  <2>1. InitFromOptions(class, o) = IvfIndex(o, q) BY <1>0, <1>2 DEF InitFromOptions
  <2>2. ParseCoreParams(class, o) = IvfParams(o) BY <1>2 DEF ParseCoreParams
  <2>3. IvfCore(IvfParams(o), q) = CoreWith(class, CoreParams(class, o), CodeSize(q), <<>>, <<>>)
    BY <1>2, CellCoreIs DEF IvfCore, CoreParams
  <2> QED BY <1>2, <2>1, <2>2, <2>3 DEF IvfIndex, Facade, IndexWith, q
<1>3. CASE class = "spann"
  <2>1. InitFromOptions(class, o) = SpannIndex(o, q) BY <1>0, <1>3 DEF InitFromOptions
  <2>2. ParseCoreParams(class, o) = SpannParams(o) BY <1>3 DEF ParseCoreParams
  <2>3. SpannCore(SpannParams(o), q) = CoreWith(class, CoreParams(class, o), CodeSize(q), <<>>, <<>>)
    BY <1>3, CellCoreIs DEF SpannCore, CoreParams
  <2> QED BY <1>3, <2>1, <2>2, <2>3 DEF SpannIndex, Facade, IndexWith, q
<1>4. CASE class = "diskann"
  <2>1. InitFromOptions(class, o) = DiskannIndex(o, q) BY <1>0, <1>4 DEF InitFromOptions
  <2>2. ParseCoreParams(class, o) = DiskannParams(o) BY <1>4 DEF ParseCoreParams
  <2>3. DiskannCore(DiskannParams(o), q) = CoreWith(class, CoreParams(class, o), CodeSize(q), <<>>, <<>>)
    BY <1>4 DEF DiskannCore, Core, CoreWith, CoreParams, Celled
  <2> QED BY <1>4, <2>1, <2>2, <2>3 DEF DiskannIndex, Facade, IndexWith, q
<1>5. CASE class = "aisaq"
  <2>1. InitFromOptions(class, o) = AisaqIndex(o, q) BY <1>0, <1>5 DEF InitFromOptions
  <2>2. ParseCoreParams(class, o) = AisaqParams(o) BY <1>5 DEF ParseCoreParams
  <2>3. AisaqCore(AisaqParams(o), q) = CoreWith(class, CoreParams(class, o), CodeSize(q), <<>>, <<>>)
    BY <1>5 DEF AisaqCore, Core, CoreWith, CoreParams, Celled
  <2> QED BY <1>5, <2>1, <2>2, <2>3 DEF AisaqIndex, Facade, IndexWith, q
<1> QED BY <1>1, <1>2, <1>3, <1>4, <1>5 DEF Classes

LEMMA CentroidsTrained ==
    ASSUME NEW class, NEW p, NEW size, NEW samples
    PROVE  TrainCentroids(CoreWith(class, p, size, <<>>, <<>>), samples) =
           CoreWith(class, p, size, samples, <<>>)
<1>1. CASE Celled(class) BY <1>1 DEF TrainCentroids, CoreWith
<1>2. CASE ~Celled(class) BY <1>2 DEF TrainCentroids, CoreWith
<1> QED BY <1>1, <1>2

LEMMA CodesOfCore ==
    ASSUME NEW class, NEW p, NEW size, NEW cells, NEW codes, NEW new
    PROVE  LET c == CoreWith(class, p, size, cells, codes)
           IN  /\ [c EXCEPT !.codes = new] = CoreWith(class, p, size, cells, new)
               /\ c.codes = codes /\ c.codeSize = size /\ c.params = p /\ c.dim = Dim
               /\ Celled(class) => c.centroids = cells
               /\ c # Refused
<1>1. CASE Celled(class)
  <2> DEFINE c == CoreWith(class, p, size, cells, codes)
  <2>1. c = [params |-> p, dim |-> Dim, codeSize |-> size, codes |-> codes, centroids |-> cells]
    BY <1>1 DEF CoreWith
  <2>2. CoreWith(class, p, size, cells, new) =
        [params |-> p, dim |-> Dim, codeSize |-> size, codes |-> new, centroids |-> cells]
    BY <1>1 DEF CoreWith
  <2>3. "codes" \in DOMAIN c /\ "codes" \notin DOMAIN Refused BY <2>1 DEF Refused
  <2> HIDE DEF c
  <2>4. [c EXCEPT !.codes = new] = CoreWith(class, p, size, cells, new) BY <2>1, <2>2
  <2>5. c.codes = codes /\ c.codeSize = size /\ c.params = p /\ c.dim = Dim /\ c.centroids = cells
    BY <2>1
  <2>6. c # Refused BY <2>3
  <2> QED BY <2>4, <2>5, <2>6 DEF c
<1>2. CASE ~Celled(class)
  <2> DEFINE c == CoreWith(class, p, size, cells, codes)
  <2>1. c = [params |-> p, dim |-> Dim, codeSize |-> size, codes |-> codes]
    BY <1>2 DEF CoreWith
  <2>2. CoreWith(class, p, size, cells, new) =
        [params |-> p, dim |-> Dim, codeSize |-> size, codes |-> new]
    BY <1>2 DEF CoreWith
  <2>3. "codes" \in DOMAIN c /\ "codes" \notin DOMAIN Refused BY <2>1 DEF Refused
  <2> HIDE DEF c
  <2>4. [c EXCEPT !.codes = new] = CoreWith(class, p, size, cells, new) BY <2>1, <2>2
  <2>5. c.codes = codes /\ c.codeSize = size /\ c.params = p /\ c.dim = Dim BY <2>1
  <2>6. c # Refused BY <2>3
  <2> QED BY <1>2, <2>4, <2>5, <2>6 DEF c
<1> QED BY <1>1, <1>2

-----------------------------------------------------------------------------
(* The stream of a class, and a core read from the state of another.       *)

Magic(class) ==
    CASE class = "hnsw" -> "VNDXHNW2" [] class = "ivf" -> "VNDXIVF1"
      [] class = "spann" -> "VNDXSPN2" [] class = "diskann" -> "VISNDDDV2"
      [] class = "aisaq" -> "SQAIDAIS1"
CoreState(class, c) ==
    CASE class = "hnsw" -> HnswState(c) [] class = "ivf" -> IvfState(c)
      [] class = "spann" -> SpannState(c) [] class = "diskann" -> DiskannState(c)
      [] class = "aisaq" -> AisaqState(c)
CoreRestored(class, c, b) ==
    CASE class = "hnsw" -> HnswRestored(c, b) [] class = "ivf" -> IvfRestored(c, b)
      [] class = "spann" -> SpannRestored(c, b) [] class = "diskann" -> DiskannRestored(c, b)
      [] class = "aisaq" -> AisaqRestored(c, b)

LEMMA StreamOfClass ==
    ASSUME NEW ix, ix.class \in Classes
    PROVE  WriteStateStream(ix) = Stream(Magic(ix.class), ix, CoreState(ix.class, ix.core))
<1>1. CASE ix.class = "hnsw" BY <1>1 DEF WriteStateStream, Magic, CoreState, HnswStream
<1>2. CASE ix.class = "ivf" BY <1>2 DEF WriteStateStream, Magic, CoreState, IvfStream
<1>3. CASE ix.class = "spann" BY <1>3 DEF WriteStateStream, Magic, CoreState, SpannStream
<1>4. CASE ix.class = "diskann" BY <1>4 DEF WriteStateStream, Magic, CoreState, DiskannStream
<1>5. CASE ix.class = "aisaq" BY <1>5 DEF WriteStateStream, Magic, CoreState, AisaqStream
<1> QED BY <1>1, <1>2, <1>3, <1>4, <1>5 DEF Classes

LEMMA ReadOfClass ==
    ASSUME NEW ix, ix.class \in Classes, NEW s
    PROVE  ReadStateStream(ix, s) =
           IF Readable(ix, s, Magic(ix.class))
           THEN Taken(ix, s, CoreRestored(ix.class, ix.core, s.core)) ELSE Refused
<1>1. CASE ix.class = "hnsw" BY <1>1 DEF ReadStateStream, Magic, CoreRestored, HnswRead
<1>2. CASE ix.class = "ivf" BY <1>2 DEF ReadStateStream, Magic, CoreRestored, IvfRead
<1>3. CASE ix.class = "spann" BY <1>3 DEF ReadStateStream, Magic, CoreRestored, SpannRead
<1>4. CASE ix.class = "diskann" BY <1>4 DEF ReadStateStream, Magic, CoreRestored, DiskannRead
<1>5. CASE ix.class = "aisaq" BY <1>5 DEF ReadStateStream, Magic, CoreRestored, AisaqRead
<1> QED BY <1>1, <1>2, <1>3, <1>4, <1>5 DEF Classes

LEMMA IvfStateFields ==
    ASSUME NEW class, Celled(class), NEW p, NEW size, NEW cells, NEW codes
    PROVE  LET b == CoreState(class, CoreWith(class, p, size, cells, codes))
           IN  /\ b.nlist = p.nlist /\ b.dim = Dim /\ b.centroids = cells /\ b.codes = codes
               /\ class = "spann" => b.replicas = p.replicas /\ b.closure = p.closure
<1> DEFINE c == CoreWith(class, p, size, cells, codes)
           ivf == IvfState(c)
           more == [replicas |-> c.params.replicas, closure |-> c.params.closure]
<1>1. c.params = p /\ c.dim = Dim /\ c.centroids = cells /\ c.codes = codes
  BY CodesOfCore
<1> HIDE DEF c
<1>2. /\ ivf.nlist = p.nlist /\ ivf.dim = Dim /\ ivf.centroids = cells /\ ivf.codes = codes
      /\ DOMAIN ivf = {"nlist", "dim", "centroids", "codes"}
  BY <1>1 DEF IvfState
<1>3. /\ more.replicas = p.replicas /\ more.closure = p.closure
      /\ DOMAIN more = {"replicas", "closure"}
  BY <1>1
<1>4. CASE class = "ivf" BY <1>2, <1>4 DEF CoreState, c
<1>5. CASE class = "spann"
  <2>1. CoreState(class, c) = Joined(more, ivf) BY <1>5 DEF CoreState, SpannState
  <2> DEFINE b == Joined(more, ivf)
  <2> HIDE DEF ivf, more
  <2>2. b = [key \in DOMAIN more \cup DOMAIN ivf |->
               IF key \in DOMAIN more THEN more[key] ELSE ivf[key]] BY DEF Joined
  <2> HIDE DEF b
  <2>3. \A key \in DOMAIN ivf : b[key] = ivf[key] BY <1>2, <1>3, <2>2
  <2>4. \A key \in DOMAIN more : b[key] = more[key] BY <1>2, <1>3, <2>2
  <2>5. b.nlist = p.nlist /\ b.dim = Dim /\ b.centroids = cells /\ b.codes = codes BY <1>2, <2>3
  <2>6. b.replicas = p.replicas /\ b.closure = p.closure BY <1>3, <2>4
  <2> QED BY <2>1, <2>5, <2>6 DEF b, c
<1> QED BY <1>4, <1>5 DEF Celled

(* IVF's restored core, field by field.                                    *)
ProbesRead(p0, nlist) == IF nlist # p0.nlist THEN Smaller(p0.nprobe, nlist) ELSE p0.nprobe
IvfParamsRead(p0, nlist) ==
    [p0 EXCEPT !.nlist = nlist, !.nprobe = ProbesRead(p0, nlist)]
SpannParamsRead(p0, p) ==
    [[IvfParamsRead(p0, p.nlist) EXCEPT !.replicas = Smaller(p.replicas, p.nlist)]
        EXCEPT !.closure = Larger(p.closure, 100)]

LEMMA CellsRead ==
    ASSUME NEW class, Celled(class), NEW p0, NEW size0, NEW b,
           b.dim = Dim, NEW cells, b.centroids = cells, NEW codes, b.codes = codes
    PROVE  IvfRestored(CoreWith(class, p0, size0, <<>>, <<>>), b) =
           CoreWith(class, IvfParamsRead(p0, b.nlist), size0, cells, codes)
<1> DEFINE c == CoreWith(class, p0, size0, <<>>, <<>>)
           nlist == b.nlist
           p1 == IvfParamsRead(p0, nlist)
<1>1. c = [params |-> p0, dim |-> Dim, codeSize |-> size0, codes |-> <<>>, centroids |-> <<>>]
  BY DEF CoreWith
<1>2. CoreWith(class, p1, size0, cells, codes) =
      [params |-> p1, dim |-> Dim, codeSize |-> size0, codes |-> codes, centroids |-> cells]
  BY DEF CoreWith
<1> HIDE DEF c
<1>3. c.params = p0 /\ c.dim = Dim BY <1>1
<1> DEFINE probes == ProbesRead(c.params, nlist)
<1>4. IvfRestored(c, b) = [c EXCEPT !.params.nlist = nlist, !.params.nprobe = probes,
                                    !.centroids = cells, !.codes = codes]
  BY <1>3 DEF IvfRestored, ProbesRead
<1> HIDE DEF nlist, probes
<1>5. p1 = [p0 EXCEPT !.nlist = nlist, !.nprobe = probes] BY <1>3 DEF IvfParamsRead, probes
<1> HIDE DEF p1
<1>6. IvfRestored(c, b) = [params |-> p1, dim |-> Dim, codeSize |-> size0, codes |-> codes,
                           centroids |-> cells]
  BY <1>1, <1>4, <1>5
<1> QED BY <1>2, <1>6 DEF c, nlist, p1

LEMMA SpannRead1 ==
    ASSUME NEW p0, NEW size0, NEW b, b.dim = Dim, NEW cells, b.centroids = cells,
           NEW codes, b.codes = codes, NEW p,
           b.nlist = p.nlist, b.replicas = p.replicas, b.closure = p.closure
    PROVE  SpannRestored(CoreWith("spann", p0, size0, <<>>, <<>>), b) =
           CoreWith("spann", SpannParamsRead(p0, p), size0, cells, codes)
<1> DEFINE c == CoreWith("spann", p0, size0, <<>>, <<>>)
           r == IvfRestored(c, b)
           n == IvfParamsRead(p0, p.nlist)
           replicas == Smaller(p.replicas, p.nlist)
           closure == Larger(p.closure, 100)
           p1 == SpannParamsRead(p0, p)
<1>0. Celled("spann") BY DEF Celled
<1>1. r = CoreWith("spann", n, size0, cells, codes) BY <1>0, CellsRead
<1>2. r = [params |-> n, dim |-> Dim, codeSize |-> size0, codes |-> codes, centroids |-> cells]
  BY <1>0, <1>1 DEF CoreWith
<1>3. CoreWith("spann", p1, size0, cells, codes) =
      [params |-> p1, dim |-> Dim, codeSize |-> size0, codes |-> codes, centroids |-> cells]
  BY <1>0 DEF CoreWith
<1>4. c.dim = Dim BY CodesOfCore
<1> HIDE DEF c, r
<1>5. SpannRestored(c, b) = [r EXCEPT !.params.replicas = replicas, !.params.closure = closure]
  BY <1>4 DEF SpannRestored, r
<1>6. p1 = [[n EXCEPT !.replicas = replicas] EXCEPT !.closure = closure] BY DEF SpannParamsRead
<1> HIDE DEF replicas, closure, n, p1
<1>7. SpannRestored(c, b) =
      [params |-> p1, dim |-> Dim, codeSize |-> size0, codes |-> codes, centroids |-> cells]
  BY <1>2, <1>5, <1>6
<1> QED BY <1>3, <1>7 DEF c, p1

(* What each class makes of its own state, by any parameters.              *)
ParamsRead(class, p0, p) ==
    CASE class = "hnsw" -> p0
      [] class = "ivf" -> IvfParamsRead(p0, p.nlist)
      [] class = "spann" -> SpannParamsRead(p0, p)
      [] class = "diskann" -> p
      [] class = "aisaq" -> Joined([key \in DOMAIN p \ {"lBuild"} |-> p[key]], p0)

LEMMA CoreRead ==
    ASSUME NEW class \in Classes, NEW p0, NEW size0, NEW p, NEW size, NEW cells, NEW codes,
           size0 = size \/ class = "aisaq"
    PROVE  CoreRestored(class, CoreWith(class, p0, size0, <<>>, <<>>),
                        CoreState(class, CoreWith(class, p, size, cells, codes))) =
           IF class = "hnsw" /\ p # p0 THEN Refused
           ELSE CoreWith(class, ParamsRead(class, p0, p), size, cells, codes)
<1> DEFINE c == CoreWith(class, p0, size0, <<>>, <<>>)
           w == CoreWith(class, p, size, cells, codes)
           b == CoreState(class, w)
<1>1. w.params = p /\ w.dim = Dim /\ w.codeSize = size /\ w.codes = codes
  BY CodesOfCore
<1>2. CASE class = "hnsw"
  <2>1. b.params = p /\ b.dim = Dim /\ b.codes = codes
    <3> HIDE DEF w
    <3>1. b = HnswState(w) BY <1>2 DEF CoreState
    <3> QED BY <1>1, <3>1 DEF HnswState
  <2>2. c.params = p0 /\ c.dim = Dim BY CodesOfCore
  <2>3. [c EXCEPT !.codes = codes] = CoreWith(class, p0, size0, <<>>, codes) BY CodesOfCore
  <2>4. CoreWith(class, p0, size0, <<>>, codes) = CoreWith(class, p0, size, cells, codes)
    BY <1>2 DEF CoreWith, Celled
  <2> HIDE DEF c, b
  <2>5. CoreRestored(class, c, b) = HnswRestored(c, b) BY <1>2 DEF CoreRestored
  <2>6. CASE p # p0 BY <1>2, <2>1, <2>2, <2>5, <2>6 DEF HnswRestored, c, b
  <2>7. CASE p = p0
    <3>1. HnswRestored(c, b) = [c EXCEPT !.codes = codes] BY <2>1, <2>2, <2>7 DEF HnswRestored
    <3>2. ParamsRead(class, p0, p) = p0 BY <1>2 DEF ParamsRead
    <3> QED BY <2>3, <2>4, <2>5, <2>7, <3>1, <3>2 DEF c, b
  <2> QED BY <2>6, <2>7
<1>3. CASE class = "ivf"
  <2>1. b.nlist = p.nlist /\ b.dim = Dim /\ b.centroids = cells /\ b.codes = codes
    BY <1>3, IvfStateFields DEF Celled
  <2>2. IvfRestored(c, b) = CoreWith(class, IvfParamsRead(p0, p.nlist), size0, cells, codes)
    BY <1>3, <2>1, CellsRead DEF Celled
  <2>3. CoreRestored(class, c, b) = IvfRestored(c, b) BY <1>3 DEF CoreRestored
  <2>4. ParamsRead(class, p0, p) = IvfParamsRead(p0, p.nlist) BY <1>3 DEF ParamsRead
  <2> QED BY <1>3, <2>2, <2>3, <2>4
<1>4. CASE class = "spann"
  <2>1. /\ b.nlist = p.nlist /\ b.dim = Dim /\ b.centroids = cells /\ b.codes = codes
        /\ b.replicas = p.replicas /\ b.closure = p.closure
    BY <1>4, IvfStateFields DEF Celled
  <2>2. SpannRestored(c, b) = CoreWith(class, SpannParamsRead(p0, p), size0, cells, codes)
    BY <1>4, <2>1, SpannRead1
  <2>3. CoreRestored(class, c, b) = SpannRestored(c, b) BY <1>4 DEF CoreRestored
  <2>4. ParamsRead(class, p0, p) = SpannParamsRead(p0, p) BY <1>4 DEF ParamsRead
  <2> QED BY <1>4, <2>2, <2>3, <2>4
<1>5. CASE class = "diskann"
  <2>1. b.params = p /\ b.dim = Dim /\ b.codeSize = size /\ b.codes = codes
    <3> HIDE DEF w
    <3>1. b = DiskannState(w) BY <1>5 DEF CoreState
    <3> QED BY <1>1, <3>1 DEF DiskannState
  <2>2. c = [params |-> p0, dim |-> Dim, codeSize |-> size0, codes |-> <<>>]
    BY <1>5 DEF CoreWith, Celled
  <2>3. CoreWith(class, p, size, cells, codes) =
        [params |-> p, dim |-> Dim, codeSize |-> size, codes |-> codes]
    BY <1>5 DEF CoreWith, Celled
  <2> HIDE DEF c, b
  <2>4. CoreRestored(class, c, b) = DiskannRestored(c, b) BY <1>5 DEF CoreRestored
  <2>5. DiskannRestored(c, b) = [c EXCEPT !.params = p, !.codes = codes]
    BY <1>5, <2>1, <2>2 DEF DiskannRestored
  <2> DEFINE d == [c EXCEPT !.params = p, !.codes = codes]
  <2>d. d = [c EXCEPT !.params = p, !.codes = codes] OBVIOUS
  <2> HIDE DEF d
  <2>6. d = [params |-> p, dim |-> Dim, codeSize |-> size, codes |-> codes]
    BY <1>5, <2>2, <2>d
  <2>7. ParamsRead(class, p0, p) = p BY <1>5 DEF ParamsRead
  <2> QED BY <1>5, <2>3, <2>4, <2>5, <2>d, <2>6, <2>7 DEF c, b
<1>6. CASE class = "aisaq"
  <2> DEFINE kept == [key \in DOMAIN p \ {"lBuild"} |-> p[key]]
             p1 == Joined(kept, p0)
  <2>1. b.params = kept /\ b.dim = Dim /\ b.codeSize = size /\ b.codes = codes
    <3> HIDE DEF w
    <3>1. b = AisaqState(w) BY <1>6 DEF CoreState
    <3> QED BY <1>1, <3>1 DEF AisaqState
  <2>2. c = [params |-> p0, dim |-> Dim, codeSize |-> size0, codes |-> <<>>]
    BY <1>6 DEF CoreWith, Celled
  <2>3. CoreWith(class, p1, size, cells, codes) =
        [params |-> p1, dim |-> Dim, codeSize |-> size, codes |-> codes]
    BY <1>6 DEF CoreWith, Celled
  <2>7. ParamsRead(class, p0, p) = p1 BY <1>6 DEF ParamsRead
  <2> HIDE DEF c, b, kept
  <2>4. CoreRestored(class, c, b) = AisaqRestored(c, b) BY <1>6 DEF CoreRestored
  <2>5. AisaqRestored(c, b) = [c EXCEPT !.params = p1, !.codeSize = size, !.codes = codes]
    <3>1. c.params = p0 /\ c.dim = Dim BY <2>2
    <3>2. Joined(b.params, c.params) = p1 BY <2>1, <3>1
    <3> QED BY <2>1, <3>1, <3>2 DEF AisaqRestored
  <2> HIDE DEF p1
  <2> DEFINE d == [c EXCEPT !.params = p1, !.codeSize = size, !.codes = codes]
  <2>d. d = [c EXCEPT !.params = p1, !.codeSize = size, !.codes = codes] OBVIOUS
  <2> HIDE DEF d
  <2>6. d = [params |-> p1, dim |-> Dim, codeSize |-> size, codes |-> codes]
    BY <2>2, <2>d
  <2> QED BY <1>6, <2>3, <2>4, <2>5, <2>d, <2>6, <2>7 DEF c, b
<1> QED BY <1>2, <1>3, <1>4, <1>5, <1>6 DEF Classes

-----------------------------------------------------------------------------
(* A whole index read by a constructor that is given options o.            *)

LEMMA ReadBack ==
    ASSUME NEW class \in Classes, NEW o, Kind(o) \in Kinds,
           NEW q, Settled(q), NEW metric, NEW params, NEW rerank, NEW p, NEW cells, NEW codes,
           NEW rows, NEW tombstones,
           class = "aisaq" \/ (Kind(o) = q.kind => CodeSize(Made(o)) = CodeSize(q)),
           NEW ix, ix = IndexWith(class, metric, params, rerank, q,
                                  CoreWith(class, p, CodeSize(q), cells, codes), rows, tombstones)
    PROVE  ReadStateStream(InitFromOptions(class, o), WriteStateStream(ix)) =
           IF Kind(o) # q.kind \/ (class = "hnsw" /\ p # CoreParams(class, o)) THEN Refused
           ELSE IndexWith(class, ParseMetric(o), ParseCoreParams(class, o), Larger(1, rerank), q,
                          CoreWith(class, ParamsRead(class, CoreParams(class, o), p), CodeSize(q),
                                   cells, codes), rows, tombstones)
<1> DEFINE p0 == CoreParams(class, o)
           c0 == CoreWith(class, p0, CodeSize(Made(o)), <<>>, <<>>)
           f == InitFromOptions(class, o)
           c == CoreWith(class, p, CodeSize(q), cells, codes)
           state == CoreState(class, c)
           read == CoreRestored(class, c0, state)
           s == WriteStateStream(ix)
           new == IndexWith(class, ParseMetric(o), ParseCoreParams(class, o), Larger(1, rerank), q,
                            CoreWith(class, ParamsRead(class, p0, p), CodeSize(q), cells, codes),
                            rows, tombstones)
<1>1. f = [status |-> "open", class |-> class, metric |-> ParseMetric(o),
           params |-> ParseCoreParams(class, o), rerank |-> ParseRerankMultiple(o),
           quantizer |-> Made(o), core |-> c0, rows |-> {}, tombstones |-> {}]
  BY FreshIndex DEF IndexWith
<1>2. /\ ix.class = class /\ ix.rerank = rerank /\ ix.quantizer = q /\ ix.core = c
      /\ ix.rows = rows /\ ix.tombstones = tombstones
  BY DEF IndexWith
<1>3. s = [magic |-> Magic(class), rerank |-> rerank, quantizer |-> Serialize(q),
           core |-> state, rows |-> rows, tombstones |-> tombstones]
  <2> HIDE DEF c
  <2>1. s = Stream(Magic(class), ix, state) BY <1>2, StreamOfClass
  <2> QED BY <1>2, <2>1 DEF Stream
<1>4. Serialize(q).kind = q.kind /\ Deserialize(q, Serialize(q)) = q /\ q.kind \in Kinds BY DEF Settled
<1>5. Made(o).kind = Kind(o) BY MadeFacts
<1> HIDE DEF f, s
<1>6. ReadStateStream(f, s) = IF Readable(f, s, Magic(class)) THEN Taken(f, s, read) ELSE Refused
  <2> HIDE DEF c0, state
  <2>1. f.class = class /\ f.core = c0 /\ s.core = state BY <1>1, <1>3
  <2> QED BY <2>1, ReadOfClass
<1>7. Readable(f, s, Magic(class)) <=> Kind(o) = q.kind
  <2>1. s.magic = Magic(class) /\ s.quantizer = Serialize(q) BY <1>3
  <2>2. f.quantizer = Made(o) BY <1>1
  <2> QED BY <1>4, <1>5, <2>1, <2>2 DEF Readable, CanDeserialize
<1>8. CASE Kind(o) # q.kind BY <1>6, <1>7, <1>8 DEF f, s
<1>9. CASE Kind(o) = q.kind
  <2>1. read = IF class = "hnsw" /\ p # p0 THEN Refused
               ELSE CoreWith(class, ParamsRead(class, p0, p), CodeSize(q), cells, codes)
    BY <1>9, CoreRead
  <2>2. ReadStateStream(f, s) = Taken(f, s, read) BY <1>6, <1>7, <1>9
  <2> HIDE DEF read
  <2>3. CASE class = "hnsw" /\ p # p0
    <3>1. Taken(f, s, read) = Refused BY <2>1, <2>3 DEF Taken
    <3> QED BY <2>2, <2>3, <3>1 DEF f, s
  <2>4. CASE ~(class = "hnsw" /\ p # p0)
    <3> DEFINE core == CoreWith(class, ParamsRead(class, p0, p), CodeSize(q), cells, codes)
    <3>1. core # Refused BY CodesOfCore
    <3>2. read = core BY <2>1, <2>4
    <3> HIDE DEF core
    <3>3. s.rerank = rerank /\ s.rows = rows /\ s.tombstones = tombstones
          /\ s.quantizer = Serialize(q) /\ f.quantizer = Made(o)
      BY <1>1, <1>3
    <3>4. Deserialize(f.quantizer, s.quantizer) = q BY <1>4, <1>5, <1>9, <3>3, RestoredByKind
    <3> DEFINE least == Larger(1, rerank)
               d == Taken(f, s, read)
    <3>5. d = [f EXCEPT !.rerank = least, !.core = core, !.quantizer = q,
                        !.rows = rows, !.tombstones = tombstones]
      BY <3>1, <3>2, <3>3, <3>4 DEF Taken
    <3> HIDE DEF d, least
    <3>6. d = [status |-> "open", class |-> class, metric |-> ParseMetric(o),
               params |-> ParseCoreParams(class, o), rerank |-> least, quantizer |-> q,
               core |-> core, rows |-> rows, tombstones |-> tombstones]
      BY <1>1, <3>5
    <3>7. d = new BY <3>6 DEF IndexWith, core, least
    <3> QED BY <1>9, <2>2, <2>4, <3>7 DEF d, f, s
  <2> QED BY <2>3, <2>4
<1> QED BY <1>8, <1>9

(* With the options CREATE INDEX had, a core's parameters come back.       *)
LEMMA SmallerTwice == ASSUME NEW a, NEW b PROVE Smaller(Smaller(a, b), b) = Smaller(a, b)
BY DEF Smaller
LEMMA LargerTwice == ASSUME NEW a, NEW b PROVE Larger(Larger(a, b), b) = Larger(a, b)
BY DEF Larger

LEMMA ParamsReadBack ==
    ASSUME NEW class \in Classes, NEW o
    PROVE  ParamsRead(class, CoreParams(class, o), CoreParams(class, o)) = CoreParams(class, o)
<1> DEFINE p == CoreParams(class, o)
<1>1. CASE class \in {"hnsw", "diskann"} BY <1>1 DEF ParamsRead
<1>2. CASE class = "ivf"
  <2> DEFINE n == IvfParams(o).nlist
             x == Smaller(IvfParams(o).nprobe, n)
  <2>1. IvfParams(o) = [nlist |-> n, nprobe |-> IvfParams(o).nprobe] BY DEF IvfParams
  <2>2. p = [IvfParams(o) EXCEPT !.nprobe = x] BY <1>2 DEF CoreParams
  <2> HIDE DEF n, x
  <2>3. p = [nlist |-> n, nprobe |-> x] BY <2>1, <2>2
  <2> HIDE DEF p
  <2> DEFINE r == IvfParamsRead(p, p.nlist)
  <2>4. r = [p EXCEPT !.nlist = n, !.nprobe = x] BY <2>3 DEF IvfParamsRead, ProbesRead
  <2> HIDE DEF r
  <2>a. r = [nlist |-> n, nprobe |-> x] BY <2>3, <2>4
  <2>5. r = p BY <2>3, <2>a
  <2>6. ParamsRead(class, p, p) = r BY <1>2 DEF ParamsRead, r
  <2> QED BY <2>5, <2>6 DEF p
<1>3. CASE class = "spann"
  <2> DEFINE sp == SpannParams(o)
             n == Option(o, "nlist", 1024)
             probes == Smaller(Option(o, "nprobe", 16), n)
             copies == Smaller(Option(o, "replica_count", 8), n)
             factor == Option(o, "closure_factor", 110)
             x == Smaller(probes, n)
             y == Smaller(copies, n)
             z == Larger(factor, 100)
  <2>1. sp = [nlist |-> n, nprobe |-> probes, replicas |-> copies, closure |-> factor]
    BY DEF SpannParams
  <2>2. p = [sp EXCEPT !.nprobe = x, !.replicas = y, !.closure = z] 
    <3> HIDE DEF n, probes, copies, factor
    <3>1. sp.nlist = n /\ sp.nprobe = probes /\ sp.replicas = copies /\ sp.closure = factor
      BY <2>1
    <3> HIDE DEF sp
    <3>2. p = [sp EXCEPT !.nprobe = Smaller(sp.nprobe, sp.nlist),
                         !.replicas = Smaller(sp.replicas, sp.nlist),
                         !.closure = Larger(sp.closure, 100)]
      BY <1>3 DEF CoreParams, sp
    <3> QED BY <3>1, <3>2
  <2>0. Smaller(y, n) = y /\ Larger(z, 100) = z BY SmallerTwice, LargerTwice
  <2> HIDE DEF n, probes, copies, factor, x, y, z, sp
  <2>3. p = [nlist |-> n, nprobe |-> x, replicas |-> y, closure |-> z] BY <2>1, <2>2
  <2> HIDE DEF p
  <2> DEFINE r == IvfParamsRead(p, p.nlist)
             t == SpannParamsRead(p, p)
  <2>4. r = [p EXCEPT !.nlist = n, !.nprobe = x] BY <2>3 DEF IvfParamsRead, ProbesRead
  <2>5. t = [r EXCEPT !.replicas = y, !.closure = z] BY <2>0, <2>3 DEF SpannParamsRead
  <2> HIDE DEF r, t
  <2>a. r = [nlist |-> n, nprobe |-> x, replicas |-> y, closure |-> z] BY <2>3, <2>4
  <2>6. r = p BY <2>3, <2>a
  <2>b. t = [nlist |-> n, nprobe |-> x, replicas |-> y, closure |-> z] BY <2>a, <2>5
  <2>7. t = p BY <2>3, <2>b
  <2>8. ParamsRead(class, p, p) = t BY <1>3 DEF ParamsRead, t
  <2> QED BY <2>7, <2>8 DEF p
<1>4. CASE class = "aisaq"
  <2> DEFINE kept == [key \in DOMAIN p \ {"lBuild"} |-> p[key]]
  <2> DEFINE a == AisaqParams(o)
             wide == Larger(a.L, a.R)
             slack == Larger(a.alpha, 100)
  <2>a. p = [a EXCEPT !.L = wide, !.alpha = slack] BY <1>4 DEF CoreParams
  <2> HIDE DEF a, wide, slack
  <2>1. p = [key \in DOMAIN p |-> p[key]] BY <2>a
  <2> HIDE DEF p
  <2>2. Joined(kept, p) = p BY <2>1 DEF Joined
  <2>3. ParamsRead(class, p, p) = Joined(kept, p) BY <1>4 DEF ParamsRead
  <2> QED BY <2>2, <2>3 DEF p
<1> QED BY <1>1, <1>2, <1>3, <1>4 DEF Classes

(* Every class takes the common options by the common rules.               *)
LEMMA CommonRule ==
    ASSUME NEW class \in Classes, NEW key \in DOMAIN CommonOptions
    PROVE  OptionsFor(class)[key] = CommonOptions[key]
<1>1. \A f, g : key \in DOMAIN f => key \in DOMAIN Joined(f, g) /\ Joined(f, g)[key] = f[key]
  BY DEF Joined
<1>2. \A g : /\ key \in DOMAIN Joined(CommonOptions, g)
             /\ Joined(CommonOptions, g)[key] = CommonOptions[key]
  BY <1>1
<1>3. CASE class = "hnsw" BY <1>2, <1>3 DEF OptionsFor, HnswOptions
<1>4. CASE class = "ivf" BY <1>2, <1>4 DEF OptionsFor, IvfOptions
<1>5. CASE class = "spann"
  <2>1. key \in DOMAIN IvfOptions /\ IvfOptions[key] = CommonOptions[key] BY <1>2 DEF IvfOptions
  <2>2. OptionsFor(class) = SpannOptions BY <1>5 DEF OptionsFor
  <2> QED BY <1>1, <2>1, <2>2 DEF SpannOptions
<1>6. CASE class = "diskann" BY <1>2, <1>6 DEF OptionsFor, DiskannOptions
<1>7. CASE class = "aisaq"
  <2> DEFINE f == Joined(CommonOptions, [k \in AisaqInts |-> SomeInt])
  <2>1. key \in DOMAIN f /\ f[key] = CommonOptions[key] BY <1>2
  <2>2. OptionsFor(class) = AisaqOptions BY <1>7 DEF OptionsFor
  <2> HIDE DEF f
  <2>3. AisaqOptions[key] = f[key] BY <1>1, <2>1 DEF AisaqOptions, f
  <2> QED BY <2>1, <2>2, <2>3
<1> QED BY <1>3, <1>4, <1>5, <1>6, <1>7 DEF Classes

LEMMA RerankReadBack ==
    ASSUME NEW class \in Classes, NEW o, PlanAccepts(class, o)
    PROVE  Larger(1, ParseRerankMultiple(o)) = ParseRerankMultiple(o)
<1>1. CASE "rerank" \notin DOMAIN o BY <1>1 DEF ParseRerankMultiple, Option, Has, Larger
<1>2. CASE "rerank" \in DOMAIN o
  <2> DEFINE rule == OptionsFor(class)["rerank"]
  <2>1. rule = AtLeast(Int32, 1) BY CommonRule DEF CommonOptions
  <2>2. Takes(rule, o["rerank"]) BY <1>2 DEF PlanAccepts
  <2> HIDE DEF rule
  <2>3. rule.types = {"integer"} /\ rule.values = 1 .. 2^30 BY <2>1 DEF AtLeast, Int32
  <2>4. rule # Unchecked
    <3>1. Unchecked.types = {} BY DEF Unchecked
    <3>2. {"integer"} # {} OBVIOUS
    <3> QED BY <2>3, <3>1, <3>2
  <2>5. o["rerank"].v \in 1 .. 2^30 BY <2>2, <2>3, <2>4 DEF Takes
  <2>6. ParseRerankMultiple(o) = o["rerank"].v BY <1>2 DEF ParseRerankMultiple, Option, Has
  <2> DEFINE n == o["rerank"].v
  <2>7. n \in Int /\ n >= 1 BY <2>5
  <2> HIDE DEF n
  <2>8. Larger(1, n) = n BY <2>7 DEF Larger
  <2> QED BY <2>6, <2>8 DEF n
<1> QED BY <1>1, <1>2

-----------------------------------------------------------------------------
(* Building.                                                               *)

Coded(q, vs) == [r \in 1..Len(vs) |-> Encode(q, vs[r])]

Numbered(rows, codes, vs) == rows \cup (Len(codes) + 1) .. (Len(codes) + Len(vs))

LEMMA ConstructedIs ==
    ASSUME NEW class, NEW metric, NEW params, NEW rerank, NEW q, NEW p, NEW size, NEW cells,
           NEW codes, NEW rows, NEW tombstones, NEW vs,
           NEW ix, ix = IndexWith(class, metric, params, rerank, q,
                                  CoreWith(class, p, size, cells, codes), rows, tombstones)
    PROVE  Constructed(ix, vs) =
           IndexWith(class, metric, params, rerank, q,
                     CoreWith(class, p, size, cells, codes \o Coded(q, vs)),
                     Numbered(rows, codes, vs), tombstones)
<1> DEFINE c == CoreWith(class, p, size, cells, codes)
           more == codes \o Coded(q, vs)
           ids == Numbered(rows, codes, vs)
           c1 == CoreWith(class, p, size, cells, more)
           d == Constructed(ix, vs)
<1> HIDE DEF more
<1>1. c.codes = codes BY CodesOfCore
<1>e. c1 = [c EXCEPT !.codes = more] BY CodesOfCore
<1> HIDE DEF c, c1
<1>2. ix = [status |-> "open", class |-> class, metric |-> metric, params |-> params,
            rerank |-> rerank, quantizer |-> q, core |-> c, rows |-> rows,
            tombstones |-> tombstones]
  BY DEF IndexWith, c
<1>3. ix.core = c /\ ix.quantizer = q /\ ix.rows = rows BY <1>2
<1>4. ix.core.codes \o [r \in 1..Len(vs) |-> Encode(ix.quantizer, vs[r])] = more
  BY <1>1, <1>3 DEF Coded, more
<1>5. ix.rows \cup (Len(ix.core.codes) + 1) .. (Len(ix.core.codes) + Len(vs)) = ids
  BY <1>1, <1>3 DEF Numbered
<1> HIDE DEF ids
<1>6. d = [ix EXCEPT !.core.codes = more, !.rows = ids] BY <1>4, <1>5 DEF Constructed
<1> DEFINE e == [ix EXCEPT !.core.codes = more]
<1>f. d = [e EXCEPT !.rows = ids] BY <1>6
<1>g. e = [ix EXCEPT !.core = [c EXCEPT !.codes = more]] BY <1>3
<1> HIDE DEF d, e
<1>h. e = [status |-> "open", class |-> class, metric |-> metric, params |-> params,
           rerank |-> rerank, quantizer |-> q, core |-> c1, rows |-> rows,
           tombstones |-> tombstones]
  BY <1>2, <1>e, <1>g
<1>7. d = [status |-> "open", class |-> class, metric |-> metric, params |-> params,
           rerank |-> rerank, quantizer |-> q, core |-> c1, rows |-> ids,
           tombstones |-> tombstones]
  BY <1>f, <1>h
<1> QED BY <1>7 DEF IndexWith, c1, d, more, ids

Created(class, o, vs) ==
    LET fresh == InitFromOptions(class, o)
    IN  Constructed([fresh EXCEPT !.quantizer = Train(@, vs), !.core = TrainCentroids(@, vs)], vs)

LEMMA CreatedIs ==
    ASSUME NEW class \in Classes, NEW o, Kind(o) \in Kinds, NEW E, NEW vs \in Seq(E)
    PROVE  LET q == Train(Made(o), vs)
           IN  Created(class, o, vs) =
               IndexWith(class, ParseMetric(o), ParseCoreParams(class, o), ParseRerankMultiple(o), q,
                         CoreWith(class, CoreParams(class, o), CodeSize(q), vs, Coded(q, vs)),
                         1..Len(vs), {})
<1> DEFINE q == Train(Made(o), vs)
           p == CoreParams(class, o)
           size == CodeSize(Made(o))
           c0 == CoreWith(class, p, size, <<>>, <<>>)
           c1 == CoreWith(class, p, size, vs, <<>>)
           fresh == InitFromOptions(class, o)
           d == [fresh EXCEPT !.quantizer = Train(@, vs), !.core = TrainCentroids(@, vs)]
<1>1. fresh = [status |-> "open", class |-> class, metric |-> ParseMetric(o),
               params |-> ParseCoreParams(class, o), rerank |-> ParseRerankMultiple(o),
               quantizer |-> Made(o), core |-> c0, rows |-> {}, tombstones |-> {}]
  BY FreshIndex DEF IndexWith
<1>2. TrainCentroids(c0, vs) = c1 BY CentroidsTrained
<1>3. CodeSize(q) = size BY TrainedSettled
<1> HIDE DEF fresh, c0, c1, q, size
<1>4. fresh.quantizer = Made(o) /\ fresh.core = c0 BY <1>1
<1>5. d = [fresh EXCEPT !.quantizer = q, !.core = c1] BY <1>2, <1>4 DEF q
<1> HIDE DEF d
<1>6. d = [status |-> "open", class |-> class, metric |-> ParseMetric(o),
           params |-> ParseCoreParams(class, o), rerank |-> ParseRerankMultiple(o),
           quantizer |-> q, core |-> c1, rows |-> {}, tombstones |-> {}]
  BY <1>1, <1>5
<1>7. d = IndexWith(class, ParseMetric(o), ParseCoreParams(class, o), ParseRerankMultiple(o), q,
                    CoreWith(class, p, size, vs, <<>>), {}, {})
  BY <1>6 DEF IndexWith, c1
<1> DEFINE core == CoreWith(class, p, size, vs, <<>> \o Coded(q, vs))
           ids == Numbered({}, <<>>, vs)
<1>8. Constructed(d, vs) =
      IndexWith(class, ParseMetric(o), ParseCoreParams(class, o), ParseRerankMultiple(o), q,
                core, ids, {})
  <2>1. PICK codes : codes = <<>> OBVIOUS
  <2>2. PICK rows : rows = {} OBVIOUS
  <2>3. d = IndexWith(class, ParseMetric(o), ParseCoreParams(class, o), ParseRerankMultiple(o), q,
                      CoreWith(class, p, size, vs, codes), rows, rows)
    BY <1>7, <2>1, <2>2
  <2>4. Constructed(d, vs) =
        IndexWith(class, ParseMetric(o), ParseCoreParams(class, o), ParseRerankMultiple(o), q,
                  CoreWith(class, p, size, vs, codes \o Coded(q, vs)), Numbered(rows, codes, vs), rows)
    <3> HIDE DEF p
    <3> QED BY <2>3, ConstructedIs
  <2>5. core = CoreWith(class, p, size, vs, codes \o Coded(q, vs)) BY <2>1
  <2>6. ids = Numbered(rows, codes, vs) BY <2>1, <2>2
  <2> HIDE DEF core, ids
  <2> QED BY <2>2, <2>4, <2>5, <2>6
<1>9. <<>> \o Coded(q, vs) = Coded(q, vs)
  <2> DEFINE C == {Encode(q, vs[r]) : r \in 1..Len(vs)}
  <2>1. Len(vs) \in Nat OBVIOUS
  <2>2. Coded(q, vs) \in [1..Len(vs) -> C] BY DEF Coded
  <2>3. Coded(q, vs) \in Seq(C) BY <2>1, <2>2
  <2> QED BY <2>3
<1>10. Numbered({}, <<>>, vs) = 1..Len(vs)
  <2>1. Len(<<>>) = 0 /\ Len(vs) \in Nat OBVIOUS
  <2> QED BY <2>1 DEF Numbered
<1> QED BY <1>3, <1>8, <1>9, <1>10 DEF Created, d, fresh, q

-----------------------------------------------------------------------------
(* An index made with options o that knows the vectors vs and the deleted  *)
(* rows: its parameters may be others, its quantizer and codes may not.    *)

Asked(o) == \E c \in Creations : c.options = o
QuantizerOf(o, q) ==
    /\ Settled(q) /\ q.kind = Kind(o) /\ CodeSize(q) = CodeSize(Made(o))
    /\ q.kind = "flat" => CodeSize(q) = <<Dim, "floats">>
    /\ \E samples \in Seq(Vectors) : TrainSurvives(Made(o), samples) /\ q = Train(Made(o), samples)
CoreOver(class, ix, vs) ==
    CoreWith(class, ix.core.params, CodeSize(ix.quantizer), ix.core.centroids,
             Coded(ix.quantizer, vs))
Good(class, o, ix, vs, deleted) ==
    /\ ix = IndexWith(class, ix.metric, ix.params, ix.rerank, ix.quantizer, CoreOver(class, ix, vs),
                      1..Len(vs), deleted)
    /\ QuantizerOf(o, ix.quantizer)
(* Its parameters are those of the options, too.                           *)
Original(class, o, ix) ==
    /\ ix.metric = ParseMetric(o) /\ ix.params = ParseCoreParams(class, o)
    /\ ix.rerank = ParseRerankMultiple(o) /\ ix.core.params = CoreParams(class, o)

LEMMA GoodFields ==
    ASSUME NEW class, NEW o, NEW ix, NEW vs, NEW deleted, Good(class, o, ix, vs, deleted)
    PROVE  /\ ix.status = "open" /\ ix.class = class /\ ix.core = CoreOver(class, ix, vs)
           /\ ix.rows = 1..Len(vs) /\ ix.tombstones = deleted
           /\ ix.core.codes = Coded(ix.quantizer, vs) /\ ix.core.codeSize = CodeSize(ix.quantizer)
<1> DEFINE w == IndexWith(class, ix.metric, ix.params, ix.rerank, ix.quantizer,
                          CoreOver(class, ix, vs), 1..Len(vs), deleted)
<1>1. ix = w BY DEF Good
<1>2. w.status = "open" /\ w.class = class /\ w.core = CoreOver(class, ix, vs)
      /\ w.rows = 1..Len(vs) /\ w.tombstones = deleted
  BY DEF IndexWith
<1> HIDE DEF w
<1>3. ix.core = CoreOver(class, ix, vs) BY <1>1, <1>2
<1>4. ix.core.codes = Coded(ix.quantizer, vs) /\ ix.core.codeSize = CodeSize(ix.quantizer)
  <2>1. PICK p, size, cells, codes : p = ix.core.params /\ size = CodeSize(ix.quantizer)
                                     /\ cells = ix.core.centroids /\ codes = Coded(ix.quantizer, vs)
    OBVIOUS
  <2>2. ix.core = CoreWith(class, p, size, cells, codes) BY <1>3, <2>1 DEF CoreOver
  <2>3. ix.core.codes = codes /\ ix.core.codeSize = size BY <2>2, CodesOfCore
  <2> QED BY <2>1, <2>3
<1> QED BY <1>1, <1>2, <1>3, <1>4

LEMMA GoodIntro ==
    ASSUME NEW class, NEW o, NEW metric, NEW params, NEW rerank, NEW q, QuantizerOf(o, q),
           NEW p, NEW cells, NEW vs, NEW deleted,
           NEW ix, ix = IndexWith(class, metric, params, rerank, q,
                                  CoreWith(class, p, CodeSize(q), cells, Coded(q, vs)),
                                  1..Len(vs), deleted)
    PROVE  /\ Good(class, o, ix, vs, deleted)
           /\ ix.metric = metric /\ ix.params = params /\ ix.rerank = rerank /\ ix.quantizer = q
           /\ ix.core.params = p /\ (Celled(class) => ix.core.centroids = cells)
<1> DEFINE c == CoreWith(class, p, CodeSize(q), cells, Coded(q, vs))
<1>1. /\ ix.metric = metric /\ ix.params = params /\ ix.rerank = rerank /\ ix.quantizer = q
      /\ ix.core = c
  BY DEF IndexWith
<1>2. c.params = p /\ (Celled(class) => c.centroids = cells) BY CodesOfCore
<1>3. CoreWith(class, p, CodeSize(q), ix.core.centroids, Coded(q, vs)) = c
  <2>1. CASE Celled(class) BY <1>1, <1>2, <2>1
  <2>2. CASE ~Celled(class) BY <2>2 DEF CoreWith
  <2> QED BY <2>1, <2>2
<1> HIDE DEF c
<1>4. CoreOver(class, ix, vs) = c BY <1>1, <1>2, <1>3 DEF CoreOver
<1>5. ix = IndexWith(class, ix.metric, ix.params, ix.rerank, ix.quantizer, CoreOver(class, ix, vs),
                     1..Len(vs), deleted)
  BY <1>1, <1>4 DEF c
<1> QED BY <1>1, <1>2, <1>5 DEF Good

(* Restarted with the options of CREATE INDEX: what was written.           *)
LEMMA ReopenGiven ==
    ASSUME NEW class \in Classes, NEW o, PlanAccepts(class, o), InitAccepts(class, Dim, o),
           NEW ix, NEW vs, NEW deleted, Good(class, o, ix, vs, deleted), Original(class, o, ix)
    PROVE  ReadStateStream(InitFromOptions(class, o), WriteStateStream(ix)) = ix
<1> DEFINE q == ix.quantizer
           p == CoreParams(class, o)
           cells == ix.core.centroids
           codes == Coded(q, vs)
           w == IndexWith(class, ParseMetric(o), ParseCoreParams(class, o), ParseRerankMultiple(o), q,
                          CoreWith(class, p, CodeSize(q), cells, codes), 1..Len(vs), deleted)
<1>1. ix = w BY DEF Good, Original, CoreOver
<1>2. Kind(o) \in Kinds BY KindAccepted
<1>3. Settled(q) /\ q.kind = Kind(o) /\ CodeSize(Made(o)) = CodeSize(q) BY DEF Good, QuantizerOf
<1>4. Larger(1, ParseRerankMultiple(o)) = ParseRerankMultiple(o) BY RerankReadBack
<1>5. ParamsRead(class, p, p) = p BY ParamsReadBack
<1> DEFINE rows == 1..Len(vs)
<1> HIDE DEF q, p, cells, codes, rows
<1>6. ReadStateStream(InitFromOptions(class, o), WriteStateStream(ix)) =
      IF Kind(o) # q.kind \/ (class = "hnsw" /\ p # CoreParams(class, o)) THEN Refused
      ELSE IndexWith(class, ParseMetric(o), ParseCoreParams(class, o),
                     Larger(1, ParseRerankMultiple(o)), q,
                     CoreWith(class, ParamsRead(class, CoreParams(class, o), p), CodeSize(q),
                              cells, codes), rows, deleted)
  <2>1. ix = IndexWith(class, ParseMetric(o), ParseCoreParams(class, o), ParseRerankMultiple(o), q,
                       CoreWith(class, p, CodeSize(q), cells, codes), rows, deleted)
    BY <1>1 DEF rows
  <2> QED BY <1>2, <1>3, <2>1, ReadBack
<1>7. p = CoreParams(class, o) BY DEF p
<1> QED BY <1>1, <1>3, <1>4, <1>5, <1>6, <1>7 DEF rows

(* Restarted with those or with none: the codes with their quantizer.      *)
LEMMA ReopenAny ==
    ASSUME NEW class \in Classes, NEW o, InitAccepts(class, Dim, o),
           NEW o2, o2 = o \/ (class # "aisaq" /\ o2 = NoOptions), InitAccepts(class, Dim, o2),
           NEW ix, NEW vs, NEW deleted, Good(class, o, ix, vs, deleted),
           NEW new, new = ReadStateStream(InitFromOptions(class, o2), WriteStateStream(ix))
    PROVE  new = Refused \/ (Good(class, o, new, vs, deleted) /\ new.quantizer = ix.quantizer)
<1> DEFINE q == ix.quantizer
           p == ix.core.params
           cells == ix.core.centroids
           codes == Coded(q, vs)
           rows == 1..Len(vs)
<1>1. ix = IndexWith(class, ix.metric, ix.params, ix.rerank, q,
                     CoreWith(class, p, CodeSize(q), cells, codes), rows, deleted)
  BY DEF Good, CoreOver
<1>2. Kind(o2) \in Kinds BY KindAccepted
<1>3. QuantizerOf(o, q) BY DEF Good
<1>4. Kind(o2) = q.kind => CodeSize(Made(o2)) = CodeSize(q)
  <2>1. CASE o2 = o BY <1>3, <2>1 DEF QuantizerOf
  <2>2. CASE o2 = NoOptions
    <3>1. Kind(o2) = "flat" BY <2>2 DEF Kind, Option, Has, NoOptions
    <3>2. CodeSize(Made(o2)) = <<Dim, "floats">>
      <4>1. PICK t : t = Train(Made(o2), <<>>) OBVIOUS
      <4> QED BY <1>2, <3>1, <4>1, TrainedSettled
    <3> QED BY <1>3, <3>1, <3>2 DEF QuantizerOf
  <2> QED BY <2>1, <2>2
<1>5. Settled(q) BY <1>3 DEF QuantizerOf
<1> HIDE DEF q, p, cells, codes, rows
<1>6. new =
      IF Kind(o2) # q.kind \/ (class = "hnsw" /\ p # CoreParams(class, o2)) THEN Refused
      ELSE IndexWith(class, ParseMetric(o2), ParseCoreParams(class, o2), Larger(1, ix.rerank), q,
                     CoreWith(class, ParamsRead(class, CoreParams(class, o2), p), CodeSize(q),
                              cells, codes), rows, deleted)
  <2>1. PICK metric, params, rerank :
             metric = ix.metric /\ params = ix.params /\ rerank = ix.rerank
    OBVIOUS
  <2>2. ix = IndexWith(class, metric, params, rerank, q,
                       CoreWith(class, p, CodeSize(q), cells, codes), rows, deleted)
    BY <1>1, <2>1
  <2> QED BY <1>2, <1>4, <1>5, <2>1, <2>2, ReadBack
<1>7. CASE new = Refused BY <1>7
<1>8. CASE new # Refused
  <2>1. PICK metric, params, rerank, p1 :
             metric = ParseMetric(o2) /\ params = ParseCoreParams(class, o2)
             /\ rerank = Larger(1, ix.rerank)
             /\ p1 = ParamsRead(class, CoreParams(class, o2), p)
    OBVIOUS
  <2>2. new = IndexWith(class, metric, params, rerank, q,
                        CoreWith(class, p1, CodeSize(q), cells, Coded(q, vs)), 1..Len(vs), deleted)
    BY <1>6, <1>8, <2>1 DEF codes, rows
  <2>3. Good(class, o, new, vs, deleted) /\ new.quantizer = q BY <1>3, <2>2, GoodIntro
  <2> QED BY <2>3 DEF q
<1> QED BY <1>7, <1>8

(* Two indexes that differ only in what they have taken in.                *)
SameSettings(class, a, b) ==
    /\ a.metric = b.metric /\ a.params = b.params /\ a.rerank = b.rerank
    /\ a.quantizer = b.quantizer /\ a.core.params = b.core.params
    /\ Celled(class) => a.core.centroids = b.core.centroids

LEMMA CodedAppend ==
    ASSUME NEW q, NEW E, NEW vs \in Seq(E), NEW v \in E
    PROVE  Coded(q, vs) \o Coded(q, <<v>>) = Coded(q, Append(vs, v))
<1> DEFINE n == Len(vs)
           a == Coded(q, vs)
           b == Coded(q, <<v>>)
           w == Append(vs, v)
           c == Coded(q, w)
           C == {Encode(q, vs[r]) : r \in 1..n} \cup {Encode(q, v)}
<1>1. n \in Nat /\ Len(w) = n + 1 /\ w[n + 1] = v /\ \A r \in 1..n : w[r] = vs[r] OBVIOUS
<1>2. a \in Seq(C) /\ Len(a) = n /\ \A r \in 1..n : a[r] = Encode(q, vs[r])
  <2>1. a \in [1..n -> C] BY DEF Coded
  <2>2. \A r \in 1..n : a[r] = Encode(q, vs[r]) BY DEF Coded
  <2> HIDE DEF a, C
  <2> QED BY <1>1, <2>1, <2>2
<1>3. b \in Seq(C) /\ Len(b) = 1 /\ b[1] = Encode(q, v)
  <2>1. b = <<Encode(q, v)>>
    <3>1. Len(<<v>>) = 1 /\ <<v>>[1] = v OBVIOUS
    <3>2. b = [r \in 1..1 |-> Encode(q, <<v>>[r])] BY <3>1 DEF Coded
    <3>3. \A r \in 1..1 : Encode(q, <<v>>[r]) = Encode(q, v)
      <4> TAKE r \in 1..1
      <4>1. r = 1 OBVIOUS
      <4> QED BY <3>1, <4>1
    <3> HIDE DEF b
    <3>4. DOMAIN b = 1..1 /\ \A r \in 1..1 : b[r] = Encode(q, v) BY <3>2, <3>3
    <3> QED BY <3>2, <3>3, <3>4
  <2> HIDE DEF b
  <2> QED BY <2>1
<1>4. c = [r \in 1..n + 1 |-> Encode(q, w[r])] BY <1>1 DEF Coded
<1> HIDE DEF a, b, c, C, n, w
<1> DEFINE x == Encode(q, v)
           d == Append(a, x)
<1>5. a \o b = d
  <2>1. x \in C BY DEF C
  <2>2. b = <<x>> BY <1>3
  <2> HIDE DEF x
  <2> QED BY <1>2, <2>1, <2>2
<1>6. Len(d) = n + 1 /\ d[n + 1] = x /\ \A r \in 1..n : d[r] = a[r]
  <2>1. x \in C BY DEF C
  <2> HIDE DEF x
  <2> QED BY <1>1, <1>2, <2>1
<1>7. d \in Seq(C)
  <2>1. x \in C BY DEF C
  <2> HIDE DEF x
  <2> QED BY <1>2, <2>1
<1>8. d = [r \in 1..n + 1 |-> d[r]]
  <2> HIDE DEF d
  <2> QED BY <1>1, <1>6, <1>7
<1> HIDE DEF d
<1>9. \A r \in 1..n + 1 : d[r] = Encode(q, w[r])
  <2> TAKE r \in 1..n + 1
  <2>1. CASE r = n + 1 BY <1>1, <1>6, <2>1
  <2>2. CASE r # n + 1
    <3>1. r \in 1..n BY <1>1, <2>2
    <3>2. d[r] = Encode(q, vs[r]) BY <1>2, <1>6, <3>1
    <3>3. w[r] = vs[r] BY <1>1, <3>1
    <3> QED BY <3>2, <3>3
  <2> QED BY <2>1, <2>2
<1> QED BY <1>4, <1>5, <1>8, <1>9 DEF a, b, c, w

LEMMA GoodAppend ==
    ASSUME NEW class, NEW o, NEW E, NEW vs \in Seq(E), NEW v \in E, NEW deleted,
           NEW ix, Good(class, o, ix, vs, deleted), NEW new, new = Constructed(ix, <<v>>)
    PROVE  Good(class, o, new, Append(vs, v), deleted) /\ SameSettings(class, new, ix)
<1>1. PICK metric, params, rerank, q, p, cells, size, rows, codes :
        /\ metric = ix.metric /\ params = ix.params /\ rerank = ix.rerank
        /\ q = ix.quantizer /\ p = ix.core.params /\ cells = ix.core.centroids
        /\ size = CodeSize(q) /\ rows = 1..Len(vs) /\ codes = Coded(q, vs)
  OBVIOUS
<1>2. ix = IndexWith(class, metric, params, rerank, q, CoreWith(class, p, size, cells, codes),
                     rows, deleted)
  BY <1>1 DEF Good, CoreOver
<1>3. new = IndexWith(class, metric, params, rerank, q,
                      CoreWith(class, p, size, cells, codes \o Coded(q, <<v>>)),
                      Numbered(rows, codes, <<v>>), deleted)
  BY <1>2, ConstructedIs
<1>4. codes \o Coded(q, <<v>>) = Coded(q, Append(vs, v)) BY <1>1, CodedAppend
<1>5. Numbered(rows, codes, <<v>>) = 1..Len(Append(vs, v))
  <2>1. Len(vs) \in Nat /\ Len(Append(vs, v)) = Len(vs) + 1 /\ Len(<<v>>) = 1 OBVIOUS
  <2>2. Len(codes) = Len(vs) BY <1>1, <2>1 DEF Coded
  <2>3. PICK n \in Nat : n = Len(vs) BY <2>1
  <2>4. (1..n) \cup (n + 1) .. (n + 1) = 1 .. n + 1 OBVIOUS
  <2> QED BY <1>1, <2>1, <2>2, <2>3, <2>4 DEF Numbered
<1>6. QuantizerOf(o, q) BY <1>1 DEF Good
<1>7. PICK ws : ws = Append(vs, v) OBVIOUS
<1>8. new = IndexWith(class, metric, params, rerank, q,
                      CoreWith(class, p, CodeSize(q), cells, Coded(q, ws)), 1..Len(ws), deleted)
  BY <1>1, <1>3, <1>4, <1>5, <1>7
<1>9. /\ Good(class, o, new, ws, deleted)
      /\ new.metric = metric /\ new.params = params /\ new.rerank = rerank /\ new.quantizer = q
      /\ new.core.params = p /\ (Celled(class) => new.core.centroids = cells)
  BY <1>6, <1>8, GoodIntro
<1> QED BY <1>1, <1>7, <1>9 DEF SameSettings

Without(ix, r) == [ix EXCEPT !.tombstones = @ \cup {r}]

LEMMA GoodDelete ==
    ASSUME NEW class, NEW o, NEW vs, NEW deleted, NEW r,
           NEW ix, Good(class, o, ix, vs, deleted),
           NEW new, new = Without(ix, r)
    PROVE  Good(class, o, new, vs, deleted \cup {r}) /\ SameSettings(class, new, ix)
<1>1. PICK metric, params, rerank, q, p, cells, more :
        /\ metric = ix.metric /\ params = ix.params /\ rerank = ix.rerank
        /\ q = ix.quantizer /\ p = ix.core.params /\ cells = ix.core.centroids
        /\ more = deleted \cup {r}
  OBVIOUS
<1>2. ix = IndexWith(class, metric, params, rerank, q,
                     CoreWith(class, p, CodeSize(q), cells, Coded(q, vs)), 1..Len(vs), deleted)
  BY <1>1 DEF Good, CoreOver
<1>a. ix.tombstones = deleted BY GoodFields
<1>3. new = [ix EXCEPT !.tombstones = more] BY <1>1, <1>a DEF Without
<1>4. new = IndexWith(class, metric, params, rerank, q,
                      CoreWith(class, p, CodeSize(q), cells, Coded(q, vs)), 1..Len(vs), more)
  BY <1>2, <1>3 DEF IndexWith
<1>5. PICK d : d = new OBVIOUS
<1>b. d = IndexWith(class, metric, params, rerank, q,
                    CoreWith(class, p, CodeSize(q), cells, Coded(q, vs)), 1..Len(vs), more)
  BY <1>4, <1>5
<1>6. QuantizerOf(o, q) BY <1>1 DEF Good
<1>7. /\ Good(class, o, d, vs, more)
      /\ d.metric = metric /\ d.params = params /\ d.rerank = rerank /\ d.quantizer = q
      /\ d.core.params = p /\ (Celled(class) => d.core.centroids = cells)
  BY <1>b, <1>6, GoodIntro
<1> QED BY <1>1, <1>5, <1>7 DEF SameSettings

LEMMA SettingsAre ==
    ASSUME NEW class, NEW o, NEW vs, NEW deleted, NEW ix, Good(class, o, ix, vs, deleted)
    PROVE  Settings(ix) = IndexWith(class, ix.metric, ix.params, ix.rerank, ix.quantizer,
                                    CoreWith(class, ix.core.params, CodeSize(ix.quantizer),
                                             ix.core.centroids, <<>>), {}, {})
<1>1. PICK metric, params, rerank, q, p, cells, size, rows, codes :
        /\ metric = ix.metric /\ params = ix.params /\ rerank = ix.rerank
        /\ q = ix.quantizer /\ p = ix.core.params /\ cells = ix.core.centroids
        /\ size = CodeSize(q) /\ rows = 1..Len(vs) /\ codes = Coded(q, vs)
  OBVIOUS
<1> DEFINE c == CoreWith(class, p, size, cells, codes)
           c1 == CoreWith(class, p, size, cells, <<>>)
           d == Settings(ix)
           e == [ix EXCEPT !.core.codes = <<>>]
           g == [e EXCEPT !.rows = {}]
<1>2. ix = IndexWith(class, metric, params, rerank, q, c, rows, deleted)
  BY <1>1 DEF Good, CoreOver
<1>3. c1 = [c EXCEPT !.codes = <<>>] BY CodesOfCore
<1> HIDE DEF c, c1
<1>4. ix = [status |-> "open", class |-> class, metric |-> metric, params |-> params,
            rerank |-> rerank, quantizer |-> q, core |-> c, rows |-> rows,
            tombstones |-> deleted]
  BY <1>2 DEF IndexWith
<1>5. ix.core = c BY <1>4
<1>6. d = [g EXCEPT !.tombstones = {}] BY DEF Settings
<1>7. e = [ix EXCEPT !.core = [c EXCEPT !.codes = <<>>]] BY <1>5
<1> HIDE DEF d, e
<1>8. e = [status |-> "open", class |-> class, metric |-> metric, params |-> params,
           rerank |-> rerank, quantizer |-> q, core |-> c1, rows |-> rows,
           tombstones |-> deleted]
  BY <1>3, <1>4, <1>7
<1>9. g = [e EXCEPT !.rows = {}] OBVIOUS
<1> HIDE DEF g
<1>10. g = [status |-> "open", class |-> class, metric |-> metric, params |-> params,
            rerank |-> rerank, quantizer |-> q, core |-> c1, rows |-> {},
            tombstones |-> deleted]
  BY <1>8, <1>9
<1>11. d = [status |-> "open", class |-> class, metric |-> metric, params |-> params,
            rerank |-> rerank, quantizer |-> q, core |-> c1, rows |-> {},
            tombstones |-> {}]
  BY <1>6, <1>10
<1> QED BY <1>1, <1>11 DEF IndexWith, c1, d

LEMMA SettingsAgree ==
    ASSUME NEW class, NEW o, NEW vs, NEW deleted, NEW a, Good(class, o, a, vs, deleted),
           NEW ws, NEW deleted2, NEW b, Good(class, o, b, ws, deleted2), SameSettings(class, a, b)
    PROVE  Settings(a) = Settings(b)
<1> DEFINE Of(ix) == IndexWith(class, ix.metric, ix.params, ix.rerank, ix.quantizer,
                               CoreWith(class, ix.core.params, CodeSize(ix.quantizer),
                                        ix.core.centroids, <<>>), {}, {})
<1>1. Settings(a) = Of(a) BY SettingsAre
<1>2. Settings(b) = Of(b) BY SettingsAre
<1>3. Of(a) = Of(b)
  <2>1. CASE Celled(class) BY <2>1 DEF SameSettings
  <2>2. CASE ~Celled(class) BY <2>2 DEF SameSettings, CoreWith
  <2> QED BY <2>1, <2>2
<1> QED BY <1>1, <1>2, <1>3

-----------------------------------------------------------------------------
(* What accepted options and training make of a quantizer.                 *)

LEMMA MetricAccepted ==
    ASSUME NEW class \in Classes, NEW o, PlanAccepts(class, o)
    PROVE  ParseMetric(o) \in Metrics
<1>1. CASE "metric" \notin DOMAIN o BY <1>1 DEF ParseMetric, Option, Has, Metrics
<1>2. CASE "metric" \in DOMAIN o
  <2> DEFINE rule == OptionsFor(class)["metric"]
  <2>1. rule = OneOf(Metrics) BY CommonRule DEF CommonOptions
  <2>2. Takes(rule, o["metric"]) BY <1>2 DEF PlanAccepts
  <2> HIDE DEF rule
  <2>3. rule.types = {"varchar"} /\ rule.values = Metrics BY <2>1 DEF OneOf
  <2>4. rule # Unchecked
    <3>1. Unchecked.types = {} BY DEF Unchecked
    <3>2. {"varchar"} # {} OBVIOUS
    <3> QED BY <2>3, <3>1, <3>2
  <2>5. o["metric"].v \in Metrics BY <2>2, <2>3, <2>4 DEF Takes
  <2> QED BY <1>2, <2>5 DEF ParseMetric, Option, Has
<1> QED BY <1>1, <1>2

LEMMA SlotsAccepted ==
    ASSUME NEW o, PqAccepts(ParseMetric(o), Dim, o), ParseMetric(o) \in Metrics
    PROVE  /\ Wide(Option(o, "bits", ByteBits)) /\ ParseMetric(o) \in {"l2sq", "ip"}
           /\ Slots(o, Dim) \in Nat \ {0} /\ Dim % Slots(o, Dim) = 0
<1>1. ByteBits \div 2 \in 1..ByteBits /\ ByteBits \in 1..ByteBits BY ByteAssumption
<1>2. Wide(Option(o, "bits", ByteBits)) BY <1>1 DEF PqAccepts, Wide
<1>3. PICK a, W : a = SlotsAsked(o, Dim) /\ W = 2^ByteBits OBVIOUS
<1>4. W \in Nat \ {0}
  <2>1. ByteBits \in 0 .. 2 * ByteBits BY ByteAssumption
  <2> QED BY <1>3, <2>1, PowersOfTwo
<1>5. a \in Nat
  <2>1. CASE Has(o, "m")
    <3>1. o["m"].v \in 1 .. W - 1 BY <1>3, <2>1 DEF PqAccepts, InRange
    <3>2. a = o["m"].v BY <1>3, <2>1 DEF SlotsAsked, Option
    <3> QED BY <1>4, <3>1, <3>2
  <2>2. CASE ~Has(o, "m")
    <3>1. a = IF Dim >= 4 THEN Dim \div 4 ELSE 1 BY <1>3, <2>2 DEF SlotsAsked, Option
    <3>2. Dim \in Nat BY ReopenAssumption
    <3> QED BY <3>1, <3>2
  <2> QED BY <2>1, <2>2
<1>6. a % W \in Nat BY <1>4, <1>5
<1>7. Slots(o, Dim) = a % W BY <1>3 DEF Slots
<1> QED BY <1>2, <1>6, <1>7 DEF PqAccepts, Metrics

LEMMA VectorsTyped == Vectors \subseteq VectorsOf(Dim) /\ Dim \in Nat \ {0}
BY ReopenAssumption DEF VectorsOf

LEMMA TrainedPq ==
    ASSUME NEW o, Kind(o) = "pq", PqAccepts(ParseMetric(o), Dim, o), ParseMetric(o) \in Metrics,
           NEW samples \in Seq(Vectors), NEW q, q = Train(Made(o), samples)
    PROVE  PqShape(q) /\ q.dim = Dim /\ q.metric = ParseMetric(o)
<1> DEFINE metric == ParseMetric(o)
           m == Slots(o, Dim)
           bits == Option(o, "bits", ByteBits)
           p == Made(o)
           book == Book(p, samples)
           table == CrossTable(p, book)
<1>1. p = [kind |-> "pq", metric |-> metric, dim |-> Dim, m |-> m, bits |-> bits,
           book |-> <<>>, table |-> <<>>, trained |-> FALSE]
  BY MadeFacts DEF NewPq, Kinds
<1>2. Wide(bits) /\ metric \in {"l2sq", "ip"} /\ m \in Nat \ {0} /\ Dim % m = 0
  BY SlotsAccepted
<1> HIDE DEF p, metric, m, bits, book, table
<1>3. q = [p EXCEPT !.trained = TRUE, !.book = book, !.table = table]
  BY <1>1 DEF Train, PqTrain, p, book, table
<1>4. q = [kind |-> "pq", metric |-> metric, dim |-> Dim, m |-> m, bits |-> bits,
           book |-> book, table |-> table, trained |-> TRUE]
  BY <1>1, <1>3
<1>5. SubDim(q) = SubDim(p) /\ Centroids(q) = Centroids(p) /\ p.dim = Dim /\ p.m = m
  BY <1>1, <1>4 DEF SubDim, Centroids
<1>6. SlotsFit(q) /\ SlotsFit(p) BY <1>1, <1>2, <1>4, VectorsTyped DEF SlotsFit
<1>7. \A s \in 1..m, c \in Centroids(p) : book[s][c] \in VectorsOf(SubDim(p))
  <2>1. Centroids(p) \subseteq Nat BY <1>1, <1>2, CentroidsAre
  <2>2. Vectors \subseteq VectorsOf(p.dim) BY <1>5, VectorsTyped
  <2> QED BY <1>5, <1>6, <2>1, <2>2, BookTyped DEF book
<1>8. table = CrossTable(q, book) BY <1>1, <1>4 DEF CrossTable, Centroids, table
<1>9. q.kind = "pq" /\ q.m = m /\ q.bits = bits /\ q.metric = metric /\ q.book = book
      /\ q.table = table /\ q.dim = Dim
  BY <1>4
<1> QED BY <1>2, <1>5, <1>6, <1>7, <1>8, <1>9 DEF PqShape, IsPq, metric

LEMMA TrainedScann ==
    ASSUME NEW o, Kind(o) = "scann", PqAccepts(ParseMetric(o), Dim, o),
           ParseMetric(o) \in Metrics, Option(o, "eta", 4) \in Int,
           NEW samples \in Seq(Vectors), NEW q, q = Train(Made(o), samples)
    PROVE  PqShape(q) /\ q.dim = Dim /\ q.metric = ParseMetric(o)
<1> DEFINE metric == ParseMetric(o)
           m == Slots(o, Dim)
           bits == Option(o, "bits", ByteBits)
           eta == Option(o, "eta", 4)
           p == Made(o)
           book == Book(p, samples)
<1>1. p = [kind |-> "scann", metric |-> metric, dim |-> Dim, m |-> m, bits |-> bits,
           eta |-> eta, book |-> <<>>, trained |-> FALSE]
  BY MadeFacts DEF NewScann, Kinds
<1>2. Wide(bits) /\ metric \in {"l2sq", "ip"} /\ m \in Nat \ {0} /\ Dim % m = 0
  BY SlotsAccepted
<1>e. eta \in Int OBVIOUS
<1> HIDE DEF p, metric, m, bits, eta, book
<1>3. q = [p EXCEPT !.trained = TRUE, !.book = book] BY <1>1 DEF Train, ScannTrain, p, book
<1>4. q = [kind |-> "scann", metric |-> metric, dim |-> Dim, m |-> m, bits |-> bits,
           eta |-> eta, book |-> book, trained |-> TRUE]
  BY <1>1, <1>3
<1>5. SubDim(q) = SubDim(p) /\ Centroids(q) = Centroids(p) /\ p.dim = Dim /\ p.m = m
  BY <1>1, <1>4 DEF SubDim, Centroids
<1>6. SlotsFit(q) /\ SlotsFit(p) BY <1>1, <1>2, <1>4, VectorsTyped DEF SlotsFit
<1>7. \A s \in 1..m, c \in Centroids(p) : book[s][c] \in VectorsOf(SubDim(p))
  <2>1. Centroids(p) \subseteq Nat BY <1>1, <1>2, CentroidsAre
  <2>2. Vectors \subseteq VectorsOf(p.dim) BY <1>5, VectorsTyped
  <2> QED BY <1>5, <1>6, <2>1, <2>2, BookTyped DEF book
<1>9. q.kind = "scann" /\ q.m = m /\ q.bits = bits /\ q.metric = metric /\ q.book = book
      /\ q.eta = eta /\ q.dim = Dim
  BY <1>4
<1> QED BY <1>2, <1>e, <1>5, <1>6, <1>7, <1>9 DEF PqShape, IsPq, metric

LEMMA TrainedRabitq ==
    ASSUME NEW o, Kind(o) = "rabitq", RabitqAccepts(o),
           NEW samples \in Seq(Vectors), NEW q, q = Train(Made(o), samples)
    PROVE  RabitqShape(q) /\ q.dim = Dim
<1> DEFINE bits == Option(o, "bits", 3)
           metric == ParseMetric(o)
           p == Made(o)
           c == MeanOf(p, samples)
           norm == NormSq(c)
<1>1. p = [kind |-> "rabitq", metric |-> metric, dim |-> Dim, bits |-> bits,
           centroid |-> Zero(Dim), normSq |-> 0, trained |-> FALSE]
  BY MadeFacts DEF NewRabitq, Kinds
<1>2. Wide(bits) BY DEF RabitqAccepts, SupportedBits, Wide
<1> HIDE DEF p, metric, bits, c, norm
<1>3. q = [p EXCEPT !.trained = TRUE, !.centroid = c, !.normSq = norm]
  BY <1>1 DEF Train, RabitqTrain, p, c, norm
<1>4. q = [kind |-> "rabitq", metric |-> metric, dim |-> Dim, bits |-> bits,
           centroid |-> c, normSq |-> norm, trained |-> TRUE]
  BY <1>1, <1>3
<1>5. c \in VectorsOf(Dim)
  <2>1. p.dim = Dim /\ Dim \in Nat /\ Vectors \subseteq VectorsOf(p.dim) BY <1>1, VectorsTyped
  <2>2. MeanOf(p, samples) \in VectorsOf(p.dim) BY <2>1, MeanTyped
  <2> QED BY <2>1, <2>2 DEF c
<1> QED BY <1>2, <1>4, <1>5, VectorsTyped DEF RabitqShape

LEMMA TrainedFlat ==
    ASSUME NEW o, Kind(o) = "flat", NEW samples, NEW q, q = Train(Made(o), samples)
    PROVE  q.kind = "flat" /\ q.metric = ParseMetric(o)
<1> DEFINE metric == ParseMetric(o)
           p == Made(o)
<1>1. p = [kind |-> "flat", metric |-> metric, dim |-> Dim] BY MadeFacts DEF NewFlat, Kinds
<1> HIDE DEF p, metric
<1>2. q = p BY <1>1 DEF Train, p
<1> QED BY <1>1, <1>2 DEF metric

(* The distances of a quantizer that CREATE INDEX trained.                 *)
LEMMA TrainedAgrees ==
    ASSUME NEW class \in Classes, NEW o, PlanAccepts(class, o), InitAccepts(class, Dim, o), Asked(o),
           NEW q, QuantizerOf(o, q), RotateTyped(Dim), NEW x \in Vectors, NEW y \in Vectors,
           NEW a, a = Encode(q, x), NEW b, b = Encode(q, y)
    PROVE  IF q.kind = "rabitq"
           THEN q.bits > 1 =>
                  \A i \in 1..Dim : 2 * Abs(Residual(q, x)[i] * a.scale[2]
                                            - a.scale[1] * LevelOf(q, a, i)) <= a.scale[1]
           ELSE (q.kind = "pq" /\ q.metric = "ip" => ~SharesCentroid(q, a, b)) =>
                  SameFraction(CodeDistance(q, a, b),
                               EstimateDistance(q, a, PreprocessQuery(q, StandsFor(q, b))))
<1>1. ParseMetric(o) \in Metrics BY MetricAccepted
<1>2. QuantizerAccepts(ParseMetric(o), Dim, o) BY DEF InitAccepts
<1>3. PICK samples \in Seq(Vectors) : q = Train(Made(o), samples) BY DEF QuantizerOf
<1>4. q.kind = Kind(o) /\ Kind(o) \in Kinds BY KindAccepted DEF QuantizerOf
<1>5. x \in VectorsOf(Dim) /\ y \in VectorsOf(Dim) /\ Dim \in Nat \ {0} BY VectorsTyped
<1>6. PICK c \in Creations : c.options = o BY DEF Asked
<1>7. CASE q.kind = "rabitq"
  <2>1. RabitqAccepts(o) BY <1>2, <1>4, <1>7 DEF QuantizerAccepts
  <2>2. RabitqShape(q) /\ q.dim = Dim BY <1>3, <1>4, <1>7, <2>1, TrainedRabitq
  <2>3. ASSUME q.bits > 1, NEW i \in 1..Dim
        PROVE  2 * Abs(Residual(q, x)[i] * a.scale[2] - a.scale[1] * LevelOf(q, a, i)) <= a.scale[1]
    BY <1>5, <2>2, <2>3, RabitqAgrees
  <2> QED BY <1>7, <2>3
<1>8. CASE q.kind = "flat"
  <2>1. q.metric = ParseMetric(o) BY <1>3, <1>4, <1>8, TrainedFlat
  <2>2. a = x /\ b = y BY <1>8 DEF Encode, IsPq
  <2>3. q.metric = "cosine" => OnAxis(Dim, y) BY <1>6, <2>1, AxisVectors
  <2>4. Dim \in Nat BY <1>5
  <2>5. SameFraction(CodeDistance(q, x, y), EstimateDistance(q, x, PreprocessQuery(q, y)))
    BY <1>5, <1>8, <2>3, <2>4, FlatAgrees
  <2>6. StandsFor(q, b) = y BY <1>8, <2>2 DEF StandsFor
  <2> QED BY <1>8, <2>2, <2>5, <2>6
<1>9. CASE q.kind \in {"pq", "scann"}
  <2>1. PqAccepts(ParseMetric(o), Dim, o)
    BY <1>2, <1>4, <1>9 DEF QuantizerAccepts, ScannAccepts
  <2>2. Option(o, "eta", 4) \in Int BY <1>6, WholeEta
  <2>3. PqShape(q) /\ q.dim = Dim
    BY <1>1, <1>3, <1>4, <1>9, <2>1, <2>2, TrainedPq, TrainedScann
  <2>4. \A s \in 1..q.m : ReadCode(q, a, s) \in Centroids(q) /\ ReadCode(q, b, s) \in Centroids(q)
    BY <1>5, <2>3, PqCode
  <2>5. ASSUME q.kind = "pq" /\ q.metric = "ip" => ~SharesCentroid(q, a, b)
        PROVE  SameFraction(CodeDistance(q, a, b),
                            EstimateDistance(q, a, PreprocessQuery(q, StandsFor(q, b))))
    <3>1. q.kind = "pq" /\ q.metric = "ip" =>
            \A s \in 1..q.m : ReadCode(q, a, s) # ReadCode(q, b, s)
      BY <2>5 DEF SharesCentroid
    <3>2. CodeDistance(q, a, b) = EstimateDistance(q, a, PreprocessQuery(q, Decode(q, b)))
      BY <2>3, <2>4, <3>1, PqAgrees
    <3>3. StandsFor(q, b) = Decode(q, b) BY <1>9 DEF StandsFor
    <3> QED BY <3>2, <3>3 DEF SameFraction
  <2> QED BY <1>9, <2>5
<1> QED BY <1>4, <1>7, <1>8, <1>9 DEF Kinds

-----------------------------------------------------------------------------
(* The invariant.                                                          *)

Extends(ws, vs) == Len(vs) <= Len(ws) /\ \A r \in 1..Len(vs) : ws[r] = vs[r]

TypeRows == vecs \in Seq(Vectors) /\ given \in BOOLEAN
BeforeCreate ==
    catalog = None => index \in {None, Crashed} /\ gone = {} /\ file = None /\ built = None
Accepted ==
    catalog # None =>
        /\ catalog.class \in Classes /\ index \notin {None, Crashed}
        /\ PlanAccepts(catalog.class, catalog.options)
        /\ InitAccepts(catalog.class, Dim, catalog.options)
        /\ Asked(catalog.options)
IndexIsGood ==
    index \in {None, Crashed, Refused} \/ Good(catalog.class, catalog.options, index, vecs, gone)
FileIsGood ==
    /\ built # None => file # None
    /\ file # None =>
         /\ file.vecs \in Seq(Vectors)
         /\ Good(catalog.class, catalog.options, built, file.vecs, file.gone)
         /\ file.stream = WriteStateStream(built)
         /\ file.options = IF catalog.class = "aisaq" THEN catalog.options ELSE NoOptions
FileIsOlder ==
    file # None /\ index # Refused => index.quantizer = built.quantizer /\ Extends(vecs, file.vecs)
OptionsAreKept ==
    catalog # None /\ Faithful =>
        /\ index # Refused
        /\ Original(catalog.class, catalog.options, index)
        /\ file # None => SameSettings(catalog.class, index, built)

RInv == /\ TypeRows /\ BeforeCreate /\ Accepted /\ IndexIsGood /\ FileIsGood
        /\ FileIsOlder /\ OptionsAreKept

LEMMA Statuses ==
    /\ None.status = "none" /\ Refused.status = "refused" /\ Crashed.status = "crashed"
    /\ None # Refused /\ Crashed \notin {None, Refused}
<1>1. None.status = "none" /\ Refused.status = "refused" /\ Crashed.status = "crashed"
  BY DEF None, Refused, Crashed
<1> QED BY <1>1

LEMMA OpenIsGood ==
    ASSUME RInv, IsOpen
    PROVE  /\ catalog # None /\ index \notin {None, Crashed, Refused}
           /\ Good(catalog.class, catalog.options, index, vecs, gone)
<1>1. index \notin {None, Crashed, Refused} BY Statuses DEF IsOpen
<1>2. catalog # None BY <1>1 DEF RInv, BeforeCreate
<1> QED BY <1>1, <1>2 DEF RInv, IndexIsGood

(* CREATE INDEX that the training survives.                                *)
LEMMA BuildKeeps ==
    ASSUME RInv, Create, index' # Crashed
    PROVE  RInv'
<1>1. /\ catalog = None /\ index = None /\ gone = {} /\ file = None /\ built = None
      /\ vecs \in Seq(Vectors) /\ given \in BOOLEAN
      /\ UNCHANGED <<vecs, gone, file, built, given>>
  BY DEF RInv, TypeRows, BeforeCreate, Create
<1>2. PICK c \in Creations :
         /\ PlanAccepts(c.class, c.options) /\ InitAccepts(c.class, Dim, c.options)
         /\ TrainSurvives(InitFromOptions(c.class, c.options).quantizer, vecs)
         /\ catalog' = [status |-> "created", class |-> c.class, options |-> c.options]
         /\ index' = Created(c.class, c.options, vecs)
  BY DEF Create, Created
<1>3. PICK class, o : class = c.class /\ o = c.options OBVIOUS
<1>4. class \in Classes BY <1>3, ReopenAssumption
<1>5. catalog'.status = "created" /\ catalog'.class = class /\ catalog'.options = o BY <1>2, <1>3
<1>6. catalog' # None BY <1>5, Statuses
<1>7. PICK vs, new : vs = vecs /\ new = index' OBVIOUS
<1>8. PICK q : q = Train(Made(o), vs) OBVIOUS
<1>9. Kind(o) \in Kinds BY <1>2, <1>3, KindAccepted
<1>10. new = IndexWith(class, ParseMetric(o), ParseCoreParams(class, o), ParseRerankMultiple(o), q,
                       CoreWith(class, CoreParams(class, o), CodeSize(q), vs, Coded(q, vs)),
                       1..Len(vs), {})
  <2>1. new = Created(class, o, vs) BY <1>2, <1>3, <1>7
  <2>2. vs \in Seq(Vectors) BY <1>1, <1>7
  <2> QED BY <1>4, <1>8, <1>9, <2>1, <2>2, CreatedIs
<1>11. QuantizerOf(o, q)
  <2>1. vs \in Seq(Vectors) BY <1>1, <1>7
  <2>2. InitFromOptions(class, o).quantizer = Made(o)
    BY <1>4, <1>9, FreshIndex DEF IndexWith
  <2>3. TrainSurvives(Made(o), vs) BY <1>2, <1>3, <1>7, <2>2
  <2> QED BY <1>8, <1>9, <2>1, <2>3, TrainedSettled DEF QuantizerOf
<1>12. PICK metric, params, rerank, p, none :
         /\ metric = ParseMetric(o) /\ params = ParseCoreParams(class, o)
         /\ rerank = ParseRerankMultiple(o) /\ p = CoreParams(class, o) /\ none = {}
  OBVIOUS
<1>13. /\ Good(class, o, new, vs, none)
       /\ new.metric = metric /\ new.params = params /\ new.rerank = rerank
       /\ new.core.params = p
  <2>1. new = IndexWith(class, metric, params, rerank, q,
                        CoreWith(class, p, CodeSize(q), vs, Coded(q, vs)), 1..Len(vs), none)
    BY <1>10, <1>12
  <2> QED BY <1>11, <2>1, GoodIntro
<1>14. Good(class, o, new, vs, {}) /\ Original(class, o, new) BY <1>12, <1>13 DEF Original
<1>15. new.status = "open" BY <1>14, GoodFields
<1>16. index' \notin {None, Crashed, Refused} BY <1>7, <1>15, Statuses
<1>17. TypeRows' /\ BeforeCreate' /\ FileIsGood' /\ FileIsOlder'
  BY <1>1, <1>6 DEF TypeRows, BeforeCreate, FileIsGood, FileIsOlder
<1>18. Accepted'
  <2>1. Asked(o) BY <1>3 DEF Asked
  <2> QED BY <1>2, <1>3, <1>4, <1>5, <1>16, <2>1 DEF Accepted
<1>19. IndexIsGood' BY <1>1, <1>5, <1>7, <1>14 DEF IndexIsGood
<1>20. OptionsAreKept' BY <1>1, <1>5, <1>7, <1>14, <1>16 DEF OptionsAreKept
<1> QED BY <1>17, <1>18, <1>19, <1>20 DEF RInv

LEMMA CreateKeeps ==
    ASSUME RInv, Create
    PROVE  RInv'
<1>1. CASE index' # Crashed BY <1>1, BuildKeeps
<1>2. CASE index' = Crashed
  <2>1. /\ catalog = None /\ index = None /\ gone = {} /\ file = None /\ built = None
        /\ UNCHANGED <<vecs, gone, file, built, given>>
    BY DEF RInv, BeforeCreate, Create
  <2>2. catalog' = None
    <3>1. PICK c \in Creations :
             /\ InitAccepts(c.class, Dim, c.options)
             /\ UNCHANGED catalog \/ index' = Created(c.class, c.options, vecs)
      BY DEF Create, Created
    <3>2. PICK class, o, vs : class = c.class /\ o = c.options /\ vs = vecs OBVIOUS
    <3>3. Created(class, o, vs).status = "open"
      <4>1. class \in Classes /\ vs \in Seq(Vectors)
        BY <3>2, ReopenAssumption DEF RInv, TypeRows
      <4>2. CASE Kind(o) \in Kinds BY <4>1, <4>2, CreatedIs DEF IndexWith
      <4>3. Kind(o) \in Kinds BY <3>1, <3>2, KindAccepted
      <4> QED BY <4>2, <4>3
    <3> QED BY <1>2, <2>1, <3>1, <3>2, <3>3, Statuses
  <2>3. file' = None /\ built' = None BY <2>1
  <2> QED BY <1>2, <2>1, <2>2, <2>3, Statuses
          DEF RInv, TypeRows, BeforeCreate, Accepted, IndexIsGood, FileIsGood,
              FileIsOlder, OptionsAreKept
<1> QED BY <1>1, <1>2

LEMMA RecoverKeeps ==
    ASSUME RInv, Recover
    PROVE  RInv'
<1>1. index = Crashed /\ index' = None /\ UNCHANGED <<catalog, vecs, gone, file, built, given>>
  BY DEF Recover
<1>2. catalog = None BY <1>1 DEF RInv, Accepted
<1>3. file = None /\ built = None /\ gone = {} BY <1>2 DEF RInv, BeforeCreate
<1> QED BY <1>1, <1>2, <1>3
        DEF RInv, TypeRows, BeforeCreate, Accepted, IndexIsGood, FileIsGood, FileIsOlder,
            OptionsAreKept

LEMMA InsertKeeps ==
    ASSUME RInv, NEW v \in Vectors, Insert(v)
    PROVE  RInv'
<1>1. /\ vecs \in Seq(Vectors) /\ given \in BOOLEAN /\ vecs' = Append(vecs, v)
      /\ UNCHANGED <<catalog, gone, file, built, given>>
      /\ index = None \/ IsOpen
      /\ index' = IF IsOpen THEN Constructed(index, <<v>>) ELSE index
  BY DEF RInv, TypeRows, Insert
<1>2. TypeRows' BY <1>1 DEF TypeRows
<1>3. CASE ~IsOpen
  <2>1. index = None /\ index' = None BY <1>1, <1>3
  <2>2. catalog = None BY <2>1 DEF RInv, Accepted
  <2>3. file = None /\ built = None /\ gone = {} BY <2>2 DEF RInv, BeforeCreate
  <2> QED BY <1>1, <1>2, <2>1, <2>2, <2>3
          DEF RInv, BeforeCreate, Accepted, IndexIsGood, FileIsGood, FileIsOlder, OptionsAreKept
<1>4. CASE IsOpen
  <2>1. PICK class, o, vs, deleted, ix, new :
           /\ class = catalog.class /\ o = catalog.options /\ vs = vecs /\ deleted = gone
           /\ ix = index /\ new = index'
    OBVIOUS
  <2>2. catalog # None /\ index # Refused /\ Good(class, o, ix, vs, deleted)
    BY <1>4, <2>1, OpenIsGood
  <2>3. Good(class, o, new, Append(vs, v), deleted) /\ SameSettings(class, new, ix)
    <3>1. new = Constructed(ix, <<v>>) BY <1>1, <1>4, <2>1
    <3>2. vs \in Seq(Vectors) BY <1>1, <2>1
    <3> QED BY <2>2, <3>1, <3>2, GoodAppend
  <2>4. new.status = "open"
    <3>1. PICK ws : ws = Append(vs, v) OBVIOUS
    <3>2. Good(class, o, new, ws, deleted) BY <2>3, <3>1
    <3> QED BY <3>2, GoodFields
  <2>5. index' \notin {None, Crashed, Refused} BY <2>1, <2>4, Statuses
  <2>6. Accepted' /\ BeforeCreate'
    BY <1>1, <2>2, <2>5 DEF RInv, Accepted, BeforeCreate
  <2>7. IndexIsGood' BY <1>1, <2>1, <2>3 DEF IndexIsGood
  <2>8. FileIsGood' BY <1>1 DEF RInv, FileIsGood
  <2>9. FileIsOlder'
    <3> SUFFICES ASSUME file # None
                 PROVE  new.quantizer = built.quantizer /\ Extends(Append(vecs, v), file.vecs)
      BY <1>1, <2>1 DEF FileIsOlder
    <3>1. ix.quantizer = built.quantizer /\ Extends(vecs, file.vecs)
      BY <2>1, <2>2 DEF RInv, FileIsOlder
    <3>2. Extends(Append(vecs, v), file.vecs)
      <4>1. file.vecs \in Seq(Vectors) BY DEF RInv, FileIsGood
      <4>2. PICK fs \in Seq(Vectors) : fs = file.vecs BY <4>1
      <4>3. Extends(vecs, fs) BY <3>1, <4>2
      <4>4. Len(fs) \in Nat /\ Len(vecs) \in Nat /\ Len(Append(vecs, v)) = Len(vecs) + 1
        BY <1>1
      <4>5. \A r \in 1..Len(vecs) : Append(vecs, v)[r] = vecs[r] BY <1>1
      <4>6. Extends(Append(vecs, v), fs) BY <4>3, <4>4, <4>5 DEF Extends
      <4> QED BY <4>2, <4>6
    <3> QED BY <2>3, <3>1, <3>2 DEF SameSettings
  <2>10. OptionsAreKept'
    <3> SUFFICES ASSUME Faithful'
                 PROVE  /\ Original(class, o, new)
                        /\ file # None => SameSettings(class, new, built)
      BY <1>1, <2>1, <2>5 DEF OptionsAreKept
    <3>1. Faithful BY <1>1 DEF Faithful
    <3>2. Original(class, o, ix) /\ (file # None => SameSettings(class, ix, built))
      BY <2>1, <2>2, <3>1 DEF RInv, OptionsAreKept
    <3> QED BY <2>3, <3>2 DEF SameSettings, Original
  <2> QED BY <1>2, <2>6, <2>7, <2>8, <2>9, <2>10 DEF RInv
<1> QED BY <1>3, <1>4

LEMMA DeleteKeeps ==
    ASSUME RInv, NEW r \in 1..Len(vecs), Delete(r)
    PROVE  RInv'
<1>1. /\ IsOpen /\ gone' = gone \cup {r} /\ UNCHANGED <<catalog, vecs, file, built, given>>
      /\ index' = IF r \in index.rows THEN [index EXCEPT !.tombstones = @ \cup {r}] ELSE index
  BY DEF Delete
<1>2. PICK class, o, vs, deleted, ix, new :
         /\ class = catalog.class /\ o = catalog.options /\ vs = vecs /\ deleted = gone
         /\ ix = index /\ new = index'
  OBVIOUS
<1>3. catalog # None /\ index # Refused /\ Good(class, o, ix, vs, deleted)
  BY <1>1, <1>2, OpenIsGood
<1>4. Good(class, o, new, vs, deleted \cup {r}) /\ SameSettings(class, new, ix)
  <2>1. ix.rows = 1..Len(vs) BY <1>3, GoodFields
  <2>2. new = Without(ix, r) BY <1>1, <1>2, <2>1 DEF Without
  <2> QED BY <1>3, <2>2, GoodDelete
<1>5. new.status = "open"
  <2>1. PICK more : more = deleted \cup {r} OBVIOUS
  <2>2. Good(class, o, new, vs, more) BY <1>4, <2>1
  <2> QED BY <2>2, GoodFields
<1>6. index' \notin {None, Crashed, Refused} BY <1>2, <1>5, Statuses
<1>7. TypeRows' /\ Accepted' /\ BeforeCreate' /\ FileIsGood'
  BY <1>1, <1>3, <1>6 DEF RInv, TypeRows, Accepted, BeforeCreate, FileIsGood
<1>8. IndexIsGood' BY <1>1, <1>2, <1>4 DEF IndexIsGood
<1>9. FileIsOlder'
  <2>1. new.quantizer = ix.quantizer BY <1>4 DEF SameSettings
  <2> QED BY <1>1, <1>2, <1>3, <2>1 DEF RInv, FileIsOlder
<1>10. OptionsAreKept'
  <2> SUFFICES ASSUME Faithful'
               PROVE  /\ Original(class, o, new)
                      /\ file # None => SameSettings(class, new, built)
    BY <1>1, <1>2, <1>6 DEF OptionsAreKept
  <2>1. Faithful BY <1>1 DEF Faithful
  <2>2. Original(class, o, ix) /\ (file # None => SameSettings(class, ix, built))
    BY <1>2, <1>3, <2>1 DEF RInv, OptionsAreKept
  <2> QED BY <1>4, <2>2 DEF SameSettings, Original
<1> QED BY <1>7, <1>8, <1>9, <1>10 DEF RInv

LEMMA PersistKeeps ==
    ASSUME RInv, Persist
    PROVE  RInv'
<1>1. /\ IsOpen /\ built' = index /\ UNCHANGED <<index, catalog, vecs, gone, given>>
      /\ file' = [status |-> "written", stream |-> WriteStateStream(index),
                  options |-> IF catalog.class = "aisaq" THEN catalog.options ELSE NoOptions,
                  vecs |-> vecs, gone |-> gone]
  BY DEF Persist
<1>2. /\ catalog # None /\ index \notin {None, Crashed, Refused}
      /\ Good(catalog.class, catalog.options, index, vecs, gone)
  BY <1>1, OpenIsGood
<1>3. /\ file'.status = "written" /\ file'.vecs = vecs /\ file'.gone = gone
      /\ file'.stream = WriteStateStream(index)
      /\ file'.options = IF catalog.class = "aisaq" THEN catalog.options ELSE NoOptions
  BY <1>1
<1>4. file' # None BY <1>3, Statuses
<1>5. TypeRows' /\ Accepted' /\ BeforeCreate' /\ IndexIsGood'
  BY <1>1, <1>2 DEF RInv, TypeRows, Accepted, BeforeCreate, IndexIsGood
<1>6. FileIsGood' BY <1>1, <1>2, <1>3, <1>4 DEF RInv, TypeRows, FileIsGood
<1>7. FileIsOlder'
  <2>1. Len(vecs) \in Nat BY DEF RInv, TypeRows
  <2>2. Extends(vecs, vecs) BY <2>1 DEF Extends
  <2> QED BY <1>1, <1>3, <2>2 DEF FileIsOlder
<1>8. OptionsAreKept'
  <2>1. Faithful' => Faithful BY <1>1 DEF Faithful
  <2> QED BY <1>1, <1>2, <2>1 DEF RInv, OptionsAreKept, SameSettings
<1> QED BY <1>5, <1>6, <1>7, <1>8 DEF RInv

LEMMA RestartKeeps ==
    ASSUME RInv, NEW kept \in BOOLEAN, Restart(kept)
    PROVE  RInv'
<1>1. /\ file # None /\ given' = (given /\ kept) /\ vecs' = file.vecs /\ gone' = file.gone
      /\ UNCHANGED <<catalog, file, built>>
  BY DEF Restart
<1>2. catalog # None BY <1>1 DEF RInv, BeforeCreate
<1>3. PICK class, o, o2, vs, deleted, ix, new :
         /\ class = catalog.class /\ o = catalog.options /\ vs = file.vecs /\ deleted = file.gone
         /\ o2 = OptionsOf(catalog.class, kept) /\ ix = built /\ new = index'
  OBVIOUS
<1>4. class \in Classes /\ PlanAccepts(class, o) /\ InitAccepts(class, Dim, o)
  BY <1>2, <1>3 DEF RInv, Accepted
<1>5. /\ vs \in Seq(Vectors) /\ Good(class, o, ix, vs, deleted)
      /\ file.stream = WriteStateStream(ix)
      /\ file.options = IF class = "aisaq" THEN o ELSE NoOptions
  BY <1>1, <1>3 DEF RInv, FileIsGood
<1>6. o2 = o \/ (class # "aisaq" /\ ~kept /\ o2 = NoOptions)
  <2>1. CASE kept BY <1>3, <1>5, <2>1 DEF OptionsOf
  <2>2. CASE ~kept BY <1>3, <1>5, <2>2 DEF OptionsOf
  <2> QED BY <2>1, <2>2
<1>7. new = IF InitAccepts(class, Dim, o2)
            THEN ReadStateStream(InitFromOptions(class, o2), WriteStateStream(ix)) ELSE Refused
  BY <1>3, <1>5 DEF Restart
<1>8. new = Refused \/ (Good(class, o, new, vs, deleted) /\ new.quantizer = ix.quantizer)
  <2>1. CASE ~InitAccepts(class, Dim, o2) BY <1>7, <2>1
  <2>2. CASE InitAccepts(class, Dim, o2)
    <3>1. new = ReadStateStream(InitFromOptions(class, o2), WriteStateStream(ix)) BY <1>7, <2>2
    <3> QED BY <1>4, <1>5, <1>6, <2>2, <3>1, ReopenAny
  <2> QED BY <2>1, <2>2
<1>9. new \notin {None, Crashed}
  <2>1. CASE new = Refused BY <2>1, Statuses
  <2>2. CASE new # Refused
    <3>1. new.status = "open" BY <1>8, <2>2, GoodFields
    <3> QED BY <3>1, Statuses
  <2> QED BY <2>1, <2>2
<1>10. TypeRows' BY <1>1, <1>3, <1>5 DEF RInv, TypeRows
<1>11. Accepted' /\ BeforeCreate' BY <1>1, <1>2, <1>3, <1>9 DEF RInv, Accepted, BeforeCreate
<1>12. IndexIsGood' BY <1>1, <1>3, <1>8 DEF IndexIsGood
<1>13. FileIsGood' BY <1>1 DEF RInv, FileIsGood
<1>14. FileIsOlder'
  <2>1. Len(vs) \in Nat BY <1>5
  <2>2. Extends(vs, vs) BY <2>1 DEF Extends
  <2> QED BY <1>1, <1>3, <1>8, <2>2 DEF FileIsOlder
<1>15. OptionsAreKept'
  <2> SUFFICES ASSUME Faithful'
               PROVE  /\ new # Refused /\ Original(class, o, new)
                      /\ SameSettings(class, new, ix)
    BY <1>1, <1>3 DEF OptionsAreKept
  <2>1. Faithful /\ (kept \/ class = "aisaq") BY <1>1, <1>3 DEF Faithful
  <2>2. o2 = o BY <1>6, <2>1
  <2>3. Original(class, o, index) /\ SameSettings(class, index, ix)
    BY <1>1, <1>2, <1>3, <2>1 DEF RInv, OptionsAreKept
  <2>4. Original(class, o, ix) BY <2>3 DEF Original, SameSettings
  <2>5. new = ReadStateStream(InitFromOptions(class, o), WriteStateStream(ix))
    BY <1>4, <1>7, <2>2
  <2>6. new = ix BY <1>4, <1>5, <2>4, <2>5, ReopenGiven
  <2>7. ix.status = "open" BY <1>5, GoodFields
  <2> QED BY <2>4, <2>6, <2>7, Statuses DEF SameSettings
<1> QED BY <1>10, <1>11, <1>12, <1>13, <1>14, <1>15 DEF RInv

LEMMA RInvHolds == Spec => []RInv
<1>1. Init => RInv
  <2> SUFFICES ASSUME Init PROVE RInv OBVIOUS
  <2>1. /\ index = None /\ catalog = None /\ vecs = <<>> /\ gone = {}
        /\ file = None /\ built = None /\ given = TRUE
    BY DEF Init
  <2> QED BY <2>1 DEF RInv, TypeRows, BeforeCreate, Accepted, IndexIsGood, FileIsGood,
                      FileIsOlder, OptionsAreKept
<1>2. RInv /\ [Next]_vars => RInv'
  <2> SUFFICES ASSUME RInv, [Next]_vars PROVE RInv' OBVIOUS
  <2>0. CASE Recover BY <2>0, RecoverKeeps
  <2>1. CASE Create BY <2>1, CreateKeeps
  <2>2. CASE Persist BY <2>2, PersistKeeps
  <2>3. CASE \E v \in Vectors : Insert(v) BY <2>3, InsertKeeps
  <2>4. CASE \E r \in 1..Len(vecs) : Delete(r) BY <2>4, DeleteKeeps
  <2>5. CASE \E kept \in BOOLEAN : Restart(kept) BY <2>5, RestartKeeps
  <2>6. CASE UNCHANGED vars
    BY <2>6 DEF vars, RInv, TypeRows, BeforeCreate, Accepted, IndexIsGood, FileIsGood,
                FileIsOlder, OptionsAreKept, Faithful
  <2> QED BY <2>0, <2>1, <2>2, <2>3, <2>4, <2>5, <2>6 DEF Next
<1> QED BY <1>1, <1>2, PTL DEF Spec

(* For every class, accepted options, rows and sequence of inserts,        *)
(* deletes, checkpoints and restarts: a restart that is given the options  *)
(* of CREATE INDEX, or finds those AiSAQ stored, opens the index, with the *)
(* facade, quantizer, parameters and centroids that were written, and it   *)
(* knows the table's rows and the deleted ones.  ScaNN on a table with no  *)
(* row is not among them: it writes nothing, as it crashes in CREATE INDEX *)
(* (TrainSurvives).                                                        *)
THEOREM WrittenIsReopened == Spec => []ReopensAsWritten
<1>1. RInv => ReopensAsWritten
  <2> SUFFICES ASSUME RInv, file # None, Faithful
               PROVE  /\ index # Refused /\ Settings(index) = Settings(built)
                      /\ index.rows = 1..Len(vecs) /\ index.tombstones = gone
    BY DEF ReopensAsWritten
  <2>1. catalog # None BY DEF RInv, BeforeCreate
  <2>2. index \notin {None, Crashed, Refused} BY <2>1 DEF RInv, Accepted, OptionsAreKept
  <2>3. PICK class, o, vs, deleted, a, ws, deleted2, b :
           /\ class = catalog.class /\ o = catalog.options /\ vs = vecs /\ deleted = gone
           /\ a = index /\ ws = file.vecs /\ deleted2 = file.gone /\ b = built
    OBVIOUS
  <2>4. Good(class, o, a, vs, deleted) BY <2>2, <2>3 DEF RInv, IndexIsGood
  <2>5. Good(class, o, b, ws, deleted2) BY <2>3 DEF RInv, FileIsGood
  <2>6. SameSettings(class, a, b) BY <2>1, <2>3 DEF RInv, OptionsAreKept
  <2>7. Settings(a) = Settings(b) BY <2>4, <2>5, <2>6, SettingsAgree
  <2>8. a.rows = 1..Len(vs) /\ a.tombstones = deleted BY <2>4, GoodFields
  <2> QED BY <2>2, <2>3, <2>7, <2>8
<1> QED BY <1>1, RInvHolds, PTL

(* Whatever options restarts are given, with every dimension, codebook,    *)
(* rotation and width of a byte: an index that opens reads each code with  *)
(* the quantizer that wrote it, and its core cuts codes of that one's      *)
(* size.  No index with an untrained ScaNN opens (TrainSurvives).          *)
THEOREM CodesKeepTheirQuantizer == Spec => []CodesAreRead
<1>1. RInv => CodesAreRead
  <2> SUFFICES ASSUME RInv, IsOpen
               PROVE  LET q == index.quantizer
                          codes == index.core.codes
                      IN  /\ index.core.codeSize = CodeSize(q)
                          /\ q.kind # "flat" => q.trained
                          /\ Len(codes) = Len(vecs)
                          /\ \A r \in 1..Len(vecs) : codes[r] = Encode(q, vecs[r])
                          /\ built # None =>
                               \A v \in Vectors :
                                 \A r \in 1..Smaller(Len(built.core.codes), Len(codes)) :
                                  EstimateDistance(q, codes[r], PreprocessQuery(q, v)) =
                                  EstimateDistance(built.quantizer, built.core.codes[r],
                                                   PreprocessQuery(built.quantizer, v))
    BY DEF CodesAreRead
  <2>1. PICK class, o, vs, deleted, ix :
           /\ class = catalog.class /\ o = catalog.options /\ vs = vecs /\ deleted = gone
           /\ ix = index
    OBVIOUS
  <2>2. index # Refused /\ Good(class, o, ix, vs, deleted) BY <2>1, OpenIsGood
  <2>3. ix.core.codes = Coded(ix.quantizer, vs) /\ ix.core.codeSize = CodeSize(ix.quantizer)
    BY <2>2, GoodFields
  <2>4. ix.quantizer.kind # "flat" => ix.quantizer.trained
    BY <2>2 DEF Good, QuantizerOf, Settled
  <2>5. Len(vs) \in Nat BY <2>1 DEF RInv, TypeRows
  <2>6. Len(ix.core.codes) = Len(vs) BY <2>3, <2>5 DEF Coded
  <2>7. \A r \in 1..Len(vs) : ix.core.codes[r] = Encode(ix.quantizer, vs[r]) BY <2>3 DEF Coded
  <2>8. ASSUME built # None, NEW v \in Vectors,
               NEW r \in 1..Smaller(Len(built.core.codes), Len(ix.core.codes))
        PROVE  EstimateDistance(ix.quantizer, ix.core.codes[r], PreprocessQuery(ix.quantizer, v)) =
               EstimateDistance(built.quantizer, built.core.codes[r],
                                PreprocessQuery(built.quantizer, v))
    <3>1. PICK ws, deleted2, b : ws = file.vecs /\ deleted2 = file.gone /\ b = built OBVIOUS
    <3>2. file # None /\ ws \in Seq(Vectors) /\ Good(class, o, b, ws, deleted2)
      BY <2>1, <2>8, <3>1 DEF RInv, FileIsGood
    <3>3. b.core.codes = Coded(b.quantizer, ws) BY <3>2, GoodFields
    <3>4. ix.quantizer = b.quantizer /\ Extends(vs, ws)
      BY <2>1, <2>2, <3>1, <3>2 DEF RInv, FileIsOlder
    <3>5. Len(ws) \in Nat /\ Len(b.core.codes) = Len(ws) BY <3>2, <3>3 DEF Coded
    <3>6. r \in 1..Len(ws) /\ r \in 1..Len(vs)
      <4>1. Len(ws) <= Len(vs) BY <3>4 DEF Extends
      <4>2. Smaller(Len(b.core.codes), Len(ix.core.codes)) = Len(ws)
        BY <2>6, <3>5, <4>1 DEF Smaller
      <4> QED BY <2>5, <2>8, <3>1, <3>5, <4>1, <4>2
    <3>7. b.core.codes[r] = Encode(b.quantizer, ws[r]) BY <3>3, <3>6 DEF Coded
    <3>8. ws[r] = vs[r] BY <3>4, <3>6 DEF Extends
    <3>9. ix.core.codes[r] = b.core.codes[r] BY <2>7, <3>4, <3>6, <3>7, <3>8
    <3> QED BY <3>1, <3>4, <3>9
  <2> QED BY <2>1, <2>3, <2>4, <2>6, <2>7, <2>8
<1> QED BY <1>1, RInvHolds, PTL

(* The codes of an index agree on the distances of its rows, for every     *)
(* dimension, width of a byte, options, rotation of vectors of integers    *)
(* and history: FLAT's, PQ's and ScaNN's distance of two codes is the      *)
(* estimate for the vector the other stands for (for PQ under "ip" only    *)
(* where no slot of the two shares a centroid), and RaBitQ's code of 2     *)
(* bits and more is within half a step of the rotated residual in every    *)
(* component.                                                              *)
THEOREM DistancesOfCodesAgree ==
    ASSUME RotateTyped(Dim)
    PROVE  Spec => []DistancesAgree
<1>1. RInv => DistancesAgree
  <2> SUFFICES ASSUME RInv, IsOpen, NEW r \in 1..Len(vecs), NEW s \in 1..Len(vecs)
               PROVE  LET q == index.quantizer
                          a == index.core.codes[r]
                          b == index.core.codes[s]
                      IN  IF q.kind = "rabitq"
                          THEN q.bits > 1 =>
                               \A i \in 1..Dim : 2 * Abs(Residual(q, vecs[r])[i] * a.scale[2]
                                                         - a.scale[1] * LevelOf(q, a, i)) <= a.scale[1]
                          ELSE (q.kind = "pq" /\ q.metric = "ip" => ~SharesCentroid(q, a, b)) =>
                               SameFraction(CodeDistance(q, a, b),
                                            EstimateDistance(q, a, PreprocessQuery(q, StandsFor(q, b))))
    BY DEF DistancesAgree
  <2>1. PICK class, o, vs, deleted, ix, q, x, y, a, b :
           /\ class = catalog.class /\ o = catalog.options /\ vs = vecs /\ deleted = gone
           /\ ix = index /\ q = index.quantizer /\ x = vecs[r] /\ y = vecs[s]
           /\ a = index.core.codes[r] /\ b = index.core.codes[s]
    OBVIOUS
  <2>2. catalog # None /\ Good(class, o, ix, vs, deleted) BY <2>1, OpenIsGood
  <2>3. class \in Classes /\ PlanAccepts(class, o) /\ InitAccepts(class, Dim, o) /\ Asked(o)
    BY <2>1, <2>2 DEF RInv, Accepted
  <2>4. QuantizerOf(o, q) BY <2>1, <2>2 DEF Good
  <2>5. ix.core.codes = Coded(q, vs) BY <2>1, <2>2, GoodFields
  <2>6. a = Encode(q, x) /\ b = Encode(q, y) BY <2>1, <2>5 DEF Coded
  <2>7. vecs \in Seq(Vectors) BY DEF RInv, TypeRows
  <2>8. x \in Vectors /\ y \in Vectors BY <2>1, <2>7
  <2>9. IF q.kind = "rabitq"
        THEN q.bits > 1 =>
               \A i \in 1..Dim : 2 * Abs(Residual(q, x)[i] * a.scale[2]
                                         - a.scale[1] * LevelOf(q, a, i)) <= a.scale[1]
        ELSE (q.kind = "pq" /\ q.metric = "ip" => ~SharesCentroid(q, a, b)) =>
               SameFraction(CodeDistance(q, a, b),
                            EstimateDistance(q, a, PreprocessQuery(q, StandsFor(q, b))))
    BY <2>3, <2>4, <2>6, <2>8, TrainedAgrees
  <2> QED BY <2>1, <2>9
<1> QED BY <1>1, RInvHolds, PTL
=============================================================================
