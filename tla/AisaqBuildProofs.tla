-------------------------- MODULE AisaqBuildProofs --------------------------
(***************************************************************************)
(* Theorems about AisaqBuild, for every number of rows and tasks, every R, *)
(* L and pair of distance functions: types, mutual exclusion of the node   *)
(* locks, the safety of the unlocked reads and forward stores, and, with   *)
(* the stores in program order, the lists of the parallel build: every     *)
(* interleaving of unlocked loads and word-sized stores builds a graph     *)
(* that whole-list updates, taken one at a time, could have built.         *)
(***************************************************************************)
EXTENDS AisaqBuildAtomic, SequenceTheorems, FiniteSetTheorems, TLAPS

-----------------------------------------------------------------------------
(* Facts about the constants and operators.                                *)

LEMMA ConstantFacts ==
    /\ R \in Nat \ {0} /\ N \in Nat \ {0} /\ L \in Nat \ {0}
    /\ NumTasks \in Nat \ {0}
    /\ Entry \in Rows /\ Rows \subseteq Nat /\ NoRow \notin Rows
    /\ Tasks \subseteq Nat \ {0} /\ Unlocked \notin Tasks
BY PruneAssumption, BuildAssumption
   DEF NumTasks, Min2, Max2, Entry, Rows, NoRow, Tasks, Unlocked

LEMMA DivMonotone ==
    ASSUME NEW a \in Nat, NEW b \in Nat, NEW k \in Nat \ {0}, a <= b
    PROVE  /\ a \div k <= b \div k /\ a \div k \in Nat
           /\ k * (a \div k) <= a
OBVIOUS

LEMMA MulMonotone ==
    ASSUME NEW a \in Nat, NEW b \in Nat, NEW k \in Nat, a <= b
    PROVE  k * a <= k * b
OBVIOUS

(* The task ranges are disjoint and none holds the entry point.            *)
LEMMA RangesDisjoint ==
    /\ \A t \in Tasks : RowRange(t) \subseteq Rows /\ Entry \notin RowRange(t)
    /\ \A t, u \in Tasks : t # u => RowRange(t) \cap RowRange(u) = {}
<1> DEFINE Low(t) == ((t - 1) * (N - 1)) \div NumTasks
           High(t) == (t * (N - 1)) \div NumTasks
<1>1. \A t \in Tasks : t * (N - 1) \in Nat /\ (t - 1) * (N - 1) \in Nat
  BY ConstantFacts DEF Tasks
<1>2. \A t \in Tasks : Low(t) \in Nat /\ High(t) \in Nat
  BY <1>1, ConstantFacts, DivMonotone
<1>3. \A t, u \in Tasks : t < u => High(t) <= Low(u)
  <2> SUFFICES ASSUME NEW t \in Tasks, NEW u \in Tasks, t < u
               PROVE  High(t) <= Low(u)
    OBVIOUS
  <2>1. t <= u - 1 /\ t \in Nat /\ u \in Nat
    BY DEF Tasks
  <2>2. t * (N - 1) <= (u - 1) * (N - 1)
    BY <2>1, ConstantFacts
  <2> QED BY <1>1, <2>2, ConstantFacts, DivMonotone
<1>4. \A t \in Tasks : \A r \in RowRange(t) :
        r \in Rows /\ 1 + Low(t) <= r /\ r < 1 + High(t)
  BY DEF RowRange, RangeStart, RangeEnd
<1> HIDE DEF Low, High
<1>5. \A t \in Tasks : RowRange(t) \subseteq Rows /\ Entry \notin RowRange(t)
  BY <1>2, <1>4 DEF Entry
<1>6. ASSUME NEW t \in Tasks, NEW u \in Tasks, t < u
      PROVE  RowRange(t) \cap RowRange(u) = {}
  <2> SUFFICES ASSUME NEW r \in RowRange(t), r \in RowRange(u) PROVE FALSE
    OBVIOUS
  <2>1. High(t) <= Low(u) /\ Low(u) \in Nat /\ High(t) \in Nat
    BY <1>2, <1>3, <1>6
  <2>2. 1 + Low(u) <= r /\ r < 1 + High(t) /\ r \in Nat
    BY <1>4, ConstantFacts
  <2> QED BY <2>1, <2>2
<1>7. \A t, u \in Tasks : t # u => t < u \/ u < t
  BY DEF Tasks
<1> QED BY <1>5, <1>6, <1>7

(* A pruned list is a short sequence of distinct candidates.               *)
LEMMA KeptListsShape ==
    ASSUME NEW S, NEW d, NEW list \in KeptLists(S, d)
    PROVE  /\ list \in Seq(S) /\ Len(list) \in 0..R
           /\ Listed(list) \subseteq S
<1>1. PICK k \in 0..R : list \in [1..k -> S]
  BY PruneAssumption DEF KeptLists, InjectiveLists
<1>2. list \in Seq(S) /\ Len(list) = k
  BY <1>1, PruneAssumption
<1> QED BY <1>1, <1>2 DEF Listed

(* Ids spread evenly over the graph are ids of the graph.                  *)
LEMMA EntryPointsAreIds == EvenlySpaced \subseteq Rows
<1> DEFINE wanted == Min2(NEntryPoints, N)
<1> SUFFICES ASSUME NEW i \in 0 .. wanted - 1
             PROVE  (i * N) \div wanted \in Rows
  BY DEF EvenlySpaced
<1>1. wanted \in Nat \ {0} /\ i \in Nat /\ i <= wanted - 1 /\ N \in Nat \ {0}
  BY BuildAssumption DEF Min2
<1> HIDE DEF wanted
<1>2. i * N \in Nat /\ i * N < wanted * N
  BY <1>1
<1> DEFINE q == (i * N) \div wanted
<1>3. q \in Nat /\ wanted * q <= i * N
  BY <1>1, <1>2, DivMonotone
<1> HIDE DEF q
<1>4. ~(wanted * N <= wanted * q)
  BY <1>1, <1>2, <1>3
<1>5. q < N
  <2> SUFFICES ASSUME N <= q PROVE FALSE
    BY <1>1, <1>3
  <2>1. wanted * N <= wanted * q
    BY <1>1, <1>3, MulMonotone
  <2> QED BY <1>4, <2>1
<1> QED BY <1>1, <1>3, <1>5 DEF Rows, q

(* The list a node holds consists of values of its slots.                  *)
LEMMA InMemoryShape ==
    ASSUME TypeOK, NEW n \in Rows
    PROVE  /\ InMemory(n) \in Seq(Rows) /\ Len(InMemory(n)) = cnt[n]
           /\ \A i \in 1..cnt[n] : InMemory(n)[i] = slot[n][i]
           /\ Neighbors(n) = {slot[n][i] : i \in 1..cnt[n]}
<1>1. slot[n] \in Seq(Rows) /\ Len(slot[n]) = R /\ cnt[n] \in 0..R
  BY ConstantFacts DEF TypeOK
<1>2. /\ InMemory(n) \in Seq(Rows)
      /\ Len(InMemory(n)) = IF 1 <= cnt[n] THEN cnt[n] - 1 + 1 ELSE 0
      /\ \A i \in 1 .. cnt[n] - 1 + 1 : InMemory(n)[i] = slot[n][1 + i - 1]
  BY <1>1, SubSeqProperties, ConstantFacts DEF InMemory
<1>3. /\ InMemory(n) \in Seq(Rows) /\ Len(InMemory(n)) = cnt[n]
      /\ \A i \in 1..cnt[n] : InMemory(n)[i] = slot[n][i]
  BY <1>1, <1>2, ConstantFacts
<1> QED BY <1>3 DEF Neighbors, Listed

-----------------------------------------------------------------------------
(* Type correctness.                                                       *)

LEMMA NoSearchType == NoSearch \in SearchState
BY ConstantFacts DEF NoSearch, SearchState, Fields

LEMMA TypeInit == Init => TypeOK
<1> SUFFICES ASSUME Init PROVE TypeOK
  OBVIOUS
<1>1. /\ srch \in [Tasks -> SearchState]
      /\ sel \in [Tasks -> Seq(Rows)] /\ want \in [Tasks -> Seq(Rows)]
  BY NoSearchType DEF Init
<1>2. /\ fwd \in [Tasks -> SUBSET Fields] /\ bck \in [Tasks -> SUBSET Fields]
      /\ si \in [Tasks -> 1 .. R + 1] /\ row \in [Tasks -> Rows]
  BY ConstantFacts DEF Init, Entry
<1>3. /\ cnt \in [Rows -> 0..R] /\ slot \in [Rows -> [1..R -> Rows]]
      /\ size \in 0..N
  BY ConstantFacts DEF Init, Entry
<1> QED BY <1>1, <1>2, <1>3 DEF Init, TypeOK, Locations

LEMMA StoreFieldType ==
    ASSUME TypeOK, NEW n \in Rows, NEW f \in Fields, NEW list \in Seq(Rows),
           Len(list) \in 0..R, f \in 0..Len(list), StoreField(n, f, list)
    PROVE  cnt' \in [Rows -> 0..R] /\ slot' \in [Rows -> [1..R -> Rows]]
<1>1. CASE f = 0
  BY <1>1 DEF StoreField, TypeOK
<1>2. CASE f # 0
  <2>1. f \in 1..R /\ list[f] \in Rows
    BY <1>2, ConstantFacts DEF Fields
  <2> QED BY <1>2, <2>1 DEF StoreField, TypeOK
<1> QED BY <1>1, <1>2

(* TypeOK needs two facts more to be inductive: the lists under way are no *)
(* longer than R, and the fields still to be stored are theirs.            *)
Lists ==
    \A t \in Tasks :
        /\ Len(sel[t]) <= R /\ fwd[t] \subseteq 0..Len(sel[t])
        /\ Len(want[t]) <= R /\ bck[t] \subseteq 0..Len(want[t])
        /\ bck[t] # {} => pc[t] \in {"append", "reprune"}
        /\ pc[t] \in {"append", "reprune"} => si[t] <= Len(sel[t])
        /\ pc[t] = "read" => srch[t].at \in Rows /\ 1 <= srch[t].i

LEMMA ListsInit == Init => Lists
BY ConstantFacts DEF Init, Lists, Locations

(* A step of the search leaves the lists under way alone.                  *)
LEMMA ListsPreserved ==
    ASSUME Lists, NEW t \in Tasks, UNCHANGED <<sel, fwd, want, bck, si>>,
           \A u \in Tasks \ {t} : pc'[u] = pc[u] /\ srch'[u] = srch[u],
           pc[t] \notin {"append", "reprune"},
           pc'[t] \notin {"append", "reprune"},
           pc'[t] = "read" => srch'[t].at \in Rows /\ 1 <= srch'[t].i
    PROVE  Lists'
BY DEF Lists

LEMMA SearchComponents ==
    ASSUME NEW s \in SearchState
    PROVE  /\ s.marks \in SUBSET Rows /\ s.frontier \in SUBSET Rows
           /\ s.W \in SUBSET Rows /\ s.at \in Rows \cup {NoRow}
           /\ s.n \in 0..R /\ s.i \in 0 .. R + 1
BY DEF SearchState, Fields

LEMMA TypeInductive ==
    ASSUME TypeOK, Lists, [Next]_vars
    PROVE  TypeOK' /\ Lists'
<1> USE ConstantFacts
<1>1. CASE LeaderInsertEntry
  <2>1. built' \in [0..NumTasks -> SUBSET Rows] /\ size' \in 0..N
    BY <1>1 DEF LeaderInsertEntry, TypeOK
  <2> QED BY <1>1, <2>1 DEF LeaderInsertEntry, TypeOK, Lists, task
<1>2. ASSUME NEW t \in Tasks, StartInsert(t) PROVE TypeOK' /\ Lists'
  <2>1. PICK r \in RowsLeft(t) :
          /\ row' = [row EXCEPT ![t] = r]
          /\ cnt' = [cnt EXCEPT ![r] = 0]
          /\ slot' = [slot EXCEPT ![r] = [i \in 1..R |-> 0]]
    BY <1>2 DEF StartInsert, IsFirst
  <2>2. r \in Rows
    BY DEF RowsLeft, RowRange
  <2>3. /\ row' \in [Tasks -> Rows] /\ cnt' \in [Rows -> 0..R]
        /\ slot' \in [Rows -> [1..R -> Rows]]
    BY <2>1, <2>2 DEF TypeOK, Entry
  <2>4. Seeded(Entry) \in SearchState
    BY DEF Seeded, SearchState, Fields
  <2>5. srch' \in [Tasks -> SearchState]
    BY <1>2, <2>4 DEF StartInsert, TypeOK
  <2>6. pc' \in [Tasks -> Locations]
    BY <1>2 DEF StartInsert, TypeOK, Locations
  <2>7. TypeOK'
    BY <1>2, <2>3, <2>5, <2>6 DEF StartInsert, TypeOK
  <2>8. Lists'
    BY <1>2 DEF StartInsert, Lists, TypeOK
  <2> QED BY <2>7, <2>8
<1>3. ASSUME NEW t \in Tasks, PushResults(t) PROVE TypeOK' /\ Lists'
  BY <1>3 DEF PushResults, TypeOK, Lists, Locations
<1>4. ASSUME NEW t \in Tasks, Expand(t) PROVE TypeOK' /\ Lists'
  <2>1. PICK best \in srch[t].frontier :
          srch' = [srch EXCEPT ![t].frontier = @ \ {best}, ![t].at = best,
                               ![t].n = cnt[best], ![t].i = 1]
    BY <1>4 DEF Expand, IsClosest
  <2>2. srch[t] \in SearchState /\ srch \in [Tasks -> SearchState]
    BY DEF TypeOK
  <2>3. best \in Rows /\ cnt[best] \in Fields /\ 1 \in 0 .. R + 1
    <3>1. best \in Rows /\ cnt \in [Rows -> 0..R]
      BY <2>2, SearchComponents DEF TypeOK
    <3> QED BY <3>1 DEF Fields
  <2> DEFINE new == [srch[t] EXCEPT !.frontier = @ \ {best}, !.at = best,
                                    !.n = cnt[best], !.i = 1]
  <2>4. new \in SearchState /\ new.at = best /\ new.i = 1
    BY <2>2, <2>3 DEF SearchState
  <2>5. srch' = [srch EXCEPT ![t] = new]
    BY <2>1, <2>2
  <2> HIDE DEF new
  <2>6. srch' \in [Tasks -> SearchState]
    BY <2>2, <2>4, <2>5
  <2>7. TypeOK'
    BY <1>4, <2>6 DEF Expand, TypeOK, Locations
  <2>8. /\ \A u \in Tasks \ {t} : pc'[u] = pc[u] /\ srch'[u] = srch[u]
        /\ pc[t] = "search" /\ pc'[t] = "read" /\ srch'[t] = new
        /\ UNCHANGED <<sel, fwd, want, bck, si>>
    BY <1>4, <2>2, <2>5 DEF Expand, TypeOK, Locations
  <2>9. Lists'
    BY <2>3, <2>4, <2>8, ListsPreserved
  <2> QED BY <2>7, <2>9
<1>5. ASSUME NEW t \in Tasks, ReadSlot(t) PROVE TypeOK' /\ Lists'
  <2> DEFINE s == srch[t]
             nb == slot[s.at][s.i]
  <2>1. s \in SearchState /\ srch \in [Tasks -> SearchState]
    BY DEF TypeOK
  <2>2. /\ pc[t] = "read" /\ s.i <= s.n
        /\ \/ srch' = [srch EXCEPT ![t].i = @ + 1]
           \/ \E W \in Offered(t, s.W, nb) :
                 srch' = [srch EXCEPT ![t].i = @ + 1, ![t].W = W,
                                      ![t].marks = @ \cup {nb},
                                      ![t].frontier = @ \cup {nb}]
           \/ srch' = [srch EXCEPT ![t].i = @ + 1, ![t].marks = @ \cup {nb}]
        /\ UNCHANGED <<sel, fwd, want, bck, si, pc>>
    BY <1>5 DEF ReadSlot
  <2>3. s.at \in Rows /\ 1 <= s.i
    BY <2>2 DEF Lists
  <2> HIDE DEF s
  <2>4. s.i \in 1..R /\ s.i + 1 \in 0 .. R + 1 /\ 1 <= s.i + 1
    <3>1. s.n \in 0..R /\ s.i \in 0 .. R + 1
      BY <2>1, SearchComponents
    <3>2. s.i <= s.n
      BY <2>2
    <3> QED BY <2>3, <3>1, <3>2
  <2>5. nb \in Rows
    <3>1. slot \in [Rows -> [1..R -> Rows]]
      BY DEF TypeOK
    <3> QED BY <2>3, <2>4, <3>1
  <2> HIDE DEF nb
  <2>6. PICK new \in SearchState : /\ srch' = [srch EXCEPT ![t] = new]
                                   /\ new.at = s.at /\ new.i = s.i + 1
    <3>1. CASE srch' = [srch EXCEPT ![t].i = @ + 1]
      <4>1. [s EXCEPT !.i = @ + 1] \in SearchState
        BY <2>1, <2>4 DEF SearchState
      <4>2. srch' = [srch EXCEPT ![t] = [s EXCEPT !.i = @ + 1]]
        BY <2>1, <3>1 DEF s
      <4> QED BY <2>1, <4>1, <4>2 DEF SearchState
    <3>2. CASE srch' = [srch EXCEPT ![t].i = @ + 1, ![t].marks = @ \cup {nb}]
      <4> DEFINE new == [s EXCEPT !.i = @ + 1, !.marks = @ \cup {nb}]
      <4>1. s.marks \cup {nb} \in SUBSET Rows
        BY <2>1, <2>5, SearchComponents
      <4>2. new \in SearchState /\ new.at = s.at /\ new.i = s.i + 1
        BY <2>1, <2>4, <4>1 DEF SearchState
      <4>3. srch' = [srch EXCEPT ![t] = new]
        BY <2>1, <3>2 DEF s
      <4> QED BY <4>2, <4>3
    <3>3. ASSUME NEW W \in Offered(t, s.W, nb),
                 srch' = [srch EXCEPT ![t].i = @ + 1, ![t].W = W,
                                      ![t].marks = @ \cup {nb},
                                      ![t].frontier = @ \cup {nb}]
          PROVE  \E new \in SearchState :
                    /\ srch' = [srch EXCEPT ![t] = new]
                    /\ new.at = s.at /\ new.i = s.i + 1
      <4> DEFINE new == [s EXCEPT !.i = @ + 1, !.W = W, !.marks = @ \cup {nb},
                                  !.frontier = @ \cup {nb}]
      <4>1. s.marks \cup {nb} \in SUBSET Rows /\ s.frontier \cup {nb} \in SUBSET Rows
        BY <2>1, <2>5, SearchComponents
      <4>2. W \in SUBSET Rows
        BY <2>1, <2>5, SearchComponents DEF Offered
      <4>3. new \in SearchState /\ new.at = s.at /\ new.i = s.i + 1
        BY <2>1, <2>4, <4>1, <4>2 DEF SearchState
      <4>4. srch' = [srch EXCEPT ![t] = new]
        BY <2>1, <3>3 DEF s
      <4> QED BY <4>3, <4>4
    <3> QED BY <2>2, <3>1, <3>2, <3>3
  <2>7. srch' \in [Tasks -> SearchState]
    BY <2>1, <2>6
  <2>8. TypeOK'
    BY <1>5, <2>7 DEF ReadSlot, TypeOK, Locations
  <2>9. \A u \in Tasks \ {t} : pc'[u] = pc[u] /\ srch'[u] = srch[u]
    BY <2>1, <2>2, <2>6
  <2>10. Lists'
    BY <2>1, <2>2, <2>3, <2>4, <2>6, <2>9, ListsPreserved
  <2> QED BY <2>8, <2>10
<1>6. ASSUME NEW t \in Tasks, EndExpand(t) PROVE TypeOK' /\ Lists'
  <2>1. /\ srch[t] \in SearchState /\ srch \in [Tasks -> SearchState]
        /\ 0 \in Fields /\ 0 \in 0 .. R + 1
    BY DEF TypeOK, Fields
  <2> DEFINE new == [srch[t] EXCEPT !.at = NoRow, !.n = 0, !.i = 0]
  <2>2. new \in SearchState
    BY <2>1 DEF SearchState
  <2>3. srch' = [srch EXCEPT ![t] = new]
    BY <1>6, <2>1 DEF EndExpand
  <2> HIDE DEF new
  <2>4. srch' \in [Tasks -> SearchState]
    BY <2>1, <2>2, <2>3
  <2>5. TypeOK'
    BY <1>6, <2>4 DEF EndExpand, TypeOK, Locations
  <2>6. /\ \A u \in Tasks \ {t} : pc'[u] = pc[u] /\ srch'[u] = srch[u]
        /\ pc[t] = "read" /\ pc'[t] = "search"
        /\ UNCHANGED <<sel, fwd, want, bck, si>>
    BY <1>6, <2>1, <2>3 DEF EndExpand, TypeOK, Locations
  <2>7. Lists'
    BY <2>6, ListsPreserved
  <2> QED BY <2>5, <2>7
<1>7. ASSUME NEW t \in Tasks, SelectNeighbors(t) PROVE TypeOK' /\ Lists'
  <2>1. PICK list \in KeptLists(srch[t].W, [c \in srch[t].W |-> Near(t, c)]) :
          /\ sel' = [sel EXCEPT ![t] = list]
          /\ fwd' = [fwd EXCEPT ![t] = 0..Len(list)]
    BY <1>7 DEF SelectNeighbors
  <2>2. srch[t].W \subseteq Rows
    BY DEF TypeOK, SearchState
  <2>3. list \in Seq(srch[t].W) /\ Len(list) \in 0..R
    BY KeptListsShape
  <2>4. list \in Seq(Rows) /\ 0..Len(list) \subseteq Fields
    BY <2>2, <2>3 DEF Fields
  <2>5. sel' \in [Tasks -> Seq(Rows)] /\ fwd' \in [Tasks -> SUBSET Fields]
    BY <2>1, <2>4 DEF TypeOK
  <2>6. NoSearch \in SearchState
    BY DEF NoSearch, SearchState, Fields
  <2>7. srch' \in [Tasks -> SearchState] /\ si' \in [Tasks -> 1 .. R + 1]
    BY <1>7, <2>6 DEF SelectNeighbors, TypeOK, Locations
  <2>8. TypeOK'
    BY <1>7, <2>5, <2>7 DEF SelectNeighbors, TypeOK, Locations
  <2>9. Lists'
    <3>1. /\ pc[t] = "search" /\ pc'[t] = "connect"
          /\ sel'[t] = list /\ fwd'[t] = 0..Len(list)
          /\ UNCHANGED <<want, bck>>
          /\ \A u \in Tasks \ {t} : /\ pc'[u] = pc[u] /\ srch'[u] = srch[u]
                                   /\ sel'[u] = sel[u] /\ fwd'[u] = fwd[u]
                                   /\ si'[u] = si[u]
      BY <1>7, <2>1 DEF SelectNeighbors, TypeOK, Locations
    <3>2. bck[t] = {} /\ Len(want[t]) <= R
      BY <3>1 DEF Lists
    <3>3. /\ Len(sel'[t]) <= R /\ fwd'[t] \subseteq 0..Len(sel'[t])
          /\ Len(want'[t]) <= R /\ bck'[t] = {}
      BY <2>3, <3>1, <3>2
    <3>4. ASSUME NEW u \in Tasks, u # t
          PROVE  /\ Len(sel'[u]) <= R /\ fwd'[u] \subseteq 0..Len(sel'[u])
                 /\ Len(want'[u]) <= R /\ bck'[u] \subseteq 0..Len(want'[u])
                 /\ bck'[u] # {} => pc'[u] \in {"append", "reprune"}
                 /\ pc'[u] \in {"append", "reprune"} => si'[u] <= Len(sel'[u])
                 /\ pc'[u] = "read" => srch'[u].at \in Rows /\ 1 <= srch'[u].i
      BY <3>1, <3>4 DEF Lists
    <3> QED BY <3>1, <3>3, <3>4 DEF Lists
  <2> QED BY <2>8, <2>9
<1>8. ASSUME NEW t \in Tasks, StoreForward(t) PROVE TypeOK' /\ Lists'
  <2>1. PICK f \in fwd[t] : /\ StoreField(row[t], f, sel[t])
                            /\ fwd' = [fwd EXCEPT ![t] = @ \ {f}]
    BY <1>8 DEF StoreForward
  <2>2. /\ row[t] \in Rows /\ f \in Fields /\ sel[t] \in Seq(Rows)
        /\ Len(sel[t]) \in 0..R /\ f \in 0..Len(sel[t])
    BY DEF TypeOK, Lists
  <2>3. cnt' \in [Rows -> 0..R] /\ slot' \in [Rows -> [1..R -> Rows]]
    BY <2>1, <2>2, StoreFieldType
  <2>4. fwd' \in [Tasks -> SUBSET Fields]
    BY <2>1 DEF TypeOK
  <2>5. TypeOK'
    BY <1>8, <2>3, <2>4 DEF StoreForward, TypeOK
  <2>6. Lists'
    BY <1>8, <2>1 DEF StoreForward, Lists, TypeOK
  <2> QED BY <2>5, <2>6
<1>9. ASSUME NEW t \in Tasks, Spin(t) PROVE TypeOK' /\ Lists'
  BY <1>9 DEF Spin, vars, task, TypeOK, Lists
<1>10. ASSUME NEW t \in Tasks, LockTarget(t) PROVE TypeOK' /\ Lists'
  <2>1. /\ Target(t) \in Rows /\ row[t] \in Rows
        /\ si[t] <= Len(sel[t])
    BY <1>10 DEF LockTarget, Target, TypeOK
  <2>2. PICK list \in Seq(Rows), fields \in SUBSET Fields :
          /\ Len(list) <= R /\ fields \subseteq 0..Len(list)
          /\ want' = [want EXCEPT ![t] = list]
          /\ bck' = [bck EXCEPT ![t] = fields]
    <3> DEFINE old == InMemory(Target(t))
               c == cnt[Target(t)]
    <3>1. old \in Seq(Rows) /\ Len(old) = c /\ c \in 0..R
      BY <2>1, InMemoryShape DEF TypeOK
    <3> HIDE DEF old, c
    <3>2. CASE c < R
      <4>1. Append(old, row[t]) \in Seq(Rows) /\ Len(Append(old, row[t])) = c + 1
        BY <2>1, <3>1, AppendProperties
      <4>2. /\ {0, c + 1} \subseteq 0..Len(Append(old, row[t]))
            /\ {0, c + 1} \in SUBSET Fields
        BY <3>1, <3>2, <4>1 DEF Fields
      <4>3. /\ want' = [want EXCEPT ![t] = Append(old, row[t])]
            /\ bck' = [bck EXCEPT ![t] = {0, c + 1}]
        BY <1>10, <3>2 DEF LockTarget, HasRoom, old, c
      <4>4. Len(Append(old, row[t])) <= R
        BY <3>1, <3>2, <4>1
      <4> QED BY <4>1, <4>2, <4>3, <4>4
    <3>3. CASE ~(c < R)
      <4> DEFINE cand == Listed(old) \cup {row[t]}
      <4>1. PICK l \in KeptLists(cand, [x \in cand |-> CodeDist(Target(t), x)]) :
              /\ want' = [want EXCEPT ![t] = l]
              /\ bck' = [bck EXCEPT ![t] = 0..Len(l)]
        BY <1>10, <3>3 DEF LockTarget, HasRoom, old, c
      <4>2. cand \subseteq Rows
        BY <2>1, <3>1 DEF Listed
      <4> HIDE DEF cand
      <4>3. l \in Seq(cand) /\ Len(l) \in 0..R
        BY KeptListsShape
      <4>4. l \in Seq(Rows)
        BY <4>2, <4>3
      <4>5. 0..Len(l) \in SUBSET Fields /\ Len(l) <= R
        BY <4>3 DEF Fields
      <4> USE <4>4, <4>5
      <4> WITNESS l \in Seq(Rows), 0..Len(l) \in SUBSET Fields
      <4> QED BY <4>1, <4>5
    <3> QED BY <3>2, <3>3
  <2>4. want' \in [Tasks -> Seq(Rows)] /\ bck' \in [Tasks -> SUBSET Fields]
    BY <2>2 DEF TypeOK
  <2>5. lock' \in [Rows -> Tasks \cup {Unlocked}]
    BY <1>10, <2>1 DEF LockTarget, TypeOK, Locations
  <2>6. /\ pc' \in [Tasks -> Locations]
        /\ pc'[t] \in {"append", "reprune"}
        /\ \A u \in Tasks : u # t => pc'[u] = pc[u]
    BY <1>10 DEF LockTarget, TypeOK, Locations
  <2>7. TypeOK'
    BY <1>10, <2>4, <2>5, <2>6 DEF LockTarget, TypeOK, Locations
  <2>8. \A u \in Tasks :
          /\ Len(want'[u]) <= R /\ bck'[u] \subseteq 0..Len(want'[u])
          /\ bck'[u] # {} => pc'[u] \in {"append", "reprune"}
          /\ pc'[u] \in {"append", "reprune"} => si[u] <= Len(sel[u])
    BY <2>1, <2>2, <2>6 DEF Lists, TypeOK
  <2>9. Lists'
    <3>1. UNCHANGED <<srch, sel, si, fwd>>
      BY <1>10 DEF LockTarget
    <3> QED BY <2>6, <2>8, <3>1 DEF Lists
  <2> QED BY <2>7, <2>9
<1>11. ASSUME NEW t \in Tasks, StoreBack(t) PROVE TypeOK' /\ Lists'
  <2>1. PICK f \in bck[t] : /\ NextStore(t, f)
                            /\ StoreField(Target(t), f, want[t])
                            /\ bck' = [bck EXCEPT ![t] = @ \ {f}]
    BY <1>11 DEF StoreBack
  <2>2. /\ si[t] \in 1..Len(sel[t]) /\ sel[t] \in Seq(Rows)
        /\ f \in Fields /\ want[t] \in Seq(Rows)
        /\ Len(want[t]) \in 0..R /\ f \in 0..Len(want[t])
    BY DEF TypeOK, Lists
  <2>3. Target(t) \in Rows
    BY <2>2 DEF Target
  <2>4. cnt' \in [Rows -> 0..R] /\ slot' \in [Rows -> [1..R -> Rows]]
    BY <2>1, <2>2, <2>3, StoreFieldType
  <2>5. bck' \in [Tasks -> SUBSET Fields]
    BY <2>1 DEF TypeOK
  <2>6. TypeOK'
    BY <1>11, <2>4, <2>5 DEF StoreBack, TypeOK
  <2>7. Lists'
    <3>1. /\ bck'[t] = bck[t] \ {f}
          /\ \A u \in Tasks \ {t} : bck'[u] = bck[u]
          /\ UNCHANGED <<pc, srch, sel, si, fwd, want>>
      BY <1>11, <2>1 DEF StoreBack, TypeOK
    <3> QED BY <3>1 DEF Lists
  <2> QED BY <2>6, <2>7
<1>12. ASSUME NEW t \in Tasks, UnlockTarget(t) PROVE TypeOK' /\ Lists'
  <2>1. si[t] <= Len(sel[t]) /\ Len(sel[t]) <= R /\ sel[t] \in Seq(Rows)
        /\ si[t] \in 1 .. R + 1 /\ Target(t) \in Rows
    BY <1>12 DEF UnlockTarget, Lists, TypeOK, Target
  <2>2. /\ lock' \in [Rows -> Tasks \cup {Unlocked}]
        /\ si' \in [Tasks -> 1 .. R + 1] /\ want' \in [Tasks -> Seq(Rows)]
    BY SMTT(30), <1>12, <2>1 DEF UnlockTarget, Released, TypeOK
  <2>3. TypeOK'
    BY <1>12, <2>2 DEF UnlockTarget, TypeOK, Locations
  <2>4. Lists'
    BY <1>12, <2>1 DEF UnlockTarget, Lists, TypeOK
  <2> QED BY <2>3, <2>4
<1>13. ASSUME NEW t \in Tasks, EndInsert(t) PROVE TypeOK' /\ Lists'
  <2>1. t \in 0..NumTasks /\ row[t] \in Rows
    BY DEF Tasks, TypeOK
  <2>2. built' \in [0..NumTasks -> SUBSET Rows]
    BY <1>13, <2>1 DEF EndInsert, TypeOK, Locations
  <2>3. sel' \in [Tasks -> Seq(Rows)] /\ si' \in [Tasks -> 1 .. R + 1]
    BY <1>13 DEF EndInsert, TypeOK, Locations
  <2>4. TypeOK'
    BY <1>13, <2>2, <2>3 DEF EndInsert, TypeOK, Locations
  <2>5. Lists'
    BY SMTT(30), <1>13 DEF EndInsert, Lists, TypeOK
  <2> QED BY <2>4, <2>5
<1>14. CASE FinishEvent
  <2>1. UNION {built[t] : t \in 0..NumTasks} \subseteq Rows
    BY DEF TypeOK
  <2>2. entryPoints' \subseteq Rows
    BY <1>14, EntryPointsAreIds DEF FinishEvent
  <2>3. rowToInternal' \subseteq Rows /\ size' \in 0..N
    BY <1>14, <2>1 DEF FinishEvent
  <2>4. phase' = "finished" /\ UNCHANGED <<cnt, slot, lock, task, built>>
    BY <1>14 DEF FinishEvent
  <2>5. TypeOK'
    BY <2>2, <2>3, <2>4 DEF TypeOK, task
  <2> QED BY <2>4, <2>5 DEF Lists, task
<1>15. CASE UNCHANGED vars
  BY <1>15 DEF vars, task, TypeOK, Lists
<1> QED
  BY <1>1, <1>2, <1>3, <1>4, <1>5, <1>6, <1>7, <1>8, <1>9, <1>10, <1>11,
     <1>12, <1>13, <1>14, <1>15 DEF Next, TaskStep, Finished

(* The state's components keep their types: no count exceeds R, no slot    *)
(* holds anything but an internal id.                                      *)
THEOREM TypeCorrect == Spec => []TypeOK
<1>1. Init => TypeOK /\ Lists
  BY TypeInit, ListsInit
<1>2. TypeOK /\ Lists /\ [Next]_vars => TypeOK' /\ Lists'
  BY TypeInductive
<1> QED BY <1>1, <1>2, PTL DEF Spec

Critical == {"append", "reprune"}

-----------------------------------------------------------------------------
(* Mutual exclusion.                                                       *)

Mutex ==
    /\ \A t \in Tasks : pc[t] \in Critical => lock[Target(t)] = t
    /\ \A n \in Rows, t \in Tasks :
         lock[n] = t => pc[t] \in Critical /\ Target(t) = n

LEMMA TargetIsRow ==
    ASSUME TypeOK, Lists, NEW t \in Tasks, si[t] <= Len(sel[t])
    PROVE  Target(t) \in Rows /\ Target(t) \in Listed(sel[t])
<1>1. si[t] \in 1..Len(sel[t]) /\ sel[t] \in Seq(Rows)
  BY ConstantFacts DEF TypeOK
<1> QED BY <1>1 DEF Target, Listed

(* A step of a task outside its critical section, before and after.        *)
LEMMA MutexOutside ==
    ASSUME TypeOK, Mutex, NEW t \in Tasks,
           pc[t] \notin Critical, pc'[t] \notin Critical, UNCHANGED lock,
           \A u \in Tasks \ {t} :
              pc'[u] = pc[u] /\ sel'[u] = sel[u] /\ si'[u] = si[u]
    PROVE  Mutex'
BY DEF Mutex, Target

LEMMA MutexInductive ==
    ASSUME TypeOK, Lists, Mutex, [Next]_vars
    PROVE  Mutex'
<1> USE ConstantFacts
<1>0. pc \in [Tasks -> Locations]
  BY DEF TypeOK
<1>1. CASE LeaderInsertEntry
  BY <1>1 DEF LeaderInsertEntry, task, Mutex, Target
<1>2. ASSUME NEW t \in Tasks, StartInsert(t) PROVE Mutex'
  BY <1>0, <1>2, MutexOutside DEF StartInsert, Critical
<1>3. ASSUME NEW t \in Tasks, PushResults(t) PROVE Mutex'
  BY <1>0, <1>3, MutexOutside DEF PushResults, Critical
<1>4. ASSUME NEW t \in Tasks, Expand(t) PROVE Mutex'
  BY <1>0, <1>4, MutexOutside DEF Expand, Critical
<1>5. ASSUME NEW t \in Tasks, ReadSlot(t) PROVE Mutex'
  BY <1>5 DEF ReadSlot, Mutex, Target
<1>6. ASSUME NEW t \in Tasks, EndExpand(t) PROVE Mutex'
  BY <1>0, <1>6, MutexOutside DEF EndExpand, Critical
<1>7. ASSUME NEW t \in Tasks, SelectNeighbors(t) PROVE Mutex'
  <2>1. \A u \in Tasks \ {t} :
          pc'[u] = pc[u] /\ sel'[u] = sel[u] /\ si'[u] = si[u]
    BY <1>7 DEF SelectNeighbors, TypeOK
  <2> QED BY <1>0, <1>7, <2>1, MutexOutside DEF SelectNeighbors, Critical
<1>8. ASSUME NEW t \in Tasks, StoreForward(t) PROVE Mutex'
  BY <1>8 DEF StoreForward, Mutex, Target
<1>9. ASSUME NEW t \in Tasks, Spin(t) PROVE Mutex'
  BY <1>9 DEF Spin, vars, task, Mutex, Target
<1>10. ASSUME NEW t \in Tasks, LockTarget(t) PROVE Mutex'
  <2>1. /\ si[t] <= Len(sel[t]) /\ lock[Target(t)] = Unlocked
        /\ lock' = [lock EXCEPT ![Target(t)] = t]
        /\ pc[t] = "connect" /\ pc'[t] \in Critical
        /\ \A u \in Tasks \ {t} : pc'[u] = pc[u]
        /\ UNCHANGED <<sel, si>>
    BY <1>0, <1>10 DEF LockTarget, CanLock, Critical
  <2>2. Target(t) \in Rows /\ \A u \in Tasks : Target(u)' = Target(u)
    BY <2>1, TargetIsRow DEF Target
  <2>3. lock \in [Rows -> Tasks \cup {Unlocked}]
    BY DEF TypeOK
  <2>4. \A u \in Tasks \ {t} : pc[u] \in Critical => Target(u) # Target(t)
    BY <2>1 DEF Mutex
  <2>5. \A u \in Tasks : pc'[u] \in Critical => lock'[Target(u)'] = u
    BY <2>1, <2>2, <2>3, <2>4 DEF Mutex
  <2>6. \A n \in Rows, u \in Tasks :
          lock'[n] = u => pc'[u] \in Critical /\ Target(u)' = n
    BY <2>1, <2>2, <2>3 DEF Mutex, Critical
  <2> QED BY <2>5, <2>6 DEF Mutex
<1>11. ASSUME NEW t \in Tasks, StoreBack(t) PROVE Mutex'
  BY <1>11 DEF StoreBack, Mutex, Target
<1>12. ASSUME NEW t \in Tasks, UnlockTarget(t) PROVE Mutex'
  <2>1. /\ pc[t] \in Critical /\ pc'[t] \notin Critical
        /\ lock' = [lock EXCEPT ![Target(t)] = Unlocked]
        /\ \A u \in Tasks \ {t} : pc'[u] = pc[u] /\ si'[u] = si[u]
        /\ UNCHANGED sel
    BY <1>0, <1>12 DEF UnlockTarget, Released, Critical, TypeOK
  <2>2. \A u \in Tasks \ {t} : Target(u)' = Target(u)
    BY <2>1 DEF Target
  <2>3. lock \in [Rows -> Tasks \cup {Unlocked}]
    BY DEF TypeOK
  <2>4. Target(t) \in Rows
    BY <2>1, TargetIsRow DEF Lists, Critical
  <2>5. \A u \in Tasks \ {t} : pc[u] \in Critical => Target(u) # Target(t)
    BY <2>1 DEF Mutex
  <2> QED BY <2>1, <2>2, <2>3, <2>4, <2>5 DEF Mutex
<1>13. ASSUME NEW t \in Tasks, EndInsert(t) PROVE Mutex'
  <2>1. \A u \in Tasks \ {t} :
          pc'[u] = pc[u] /\ sel'[u] = sel[u] /\ si'[u] = si[u]
    BY <1>13 DEF EndInsert, TypeOK
  <2> QED BY <1>0, <1>13, <2>1, MutexOutside DEF EndInsert, Critical
<1>14. CASE FinishEvent
  BY <1>14 DEF FinishEvent, task, Mutex, Target
<1>15. CASE UNCHANGED vars
  BY <1>15 DEF vars, task, Mutex, Target
<1> QED
  BY <1>1, <1>2, <1>3, <1>4, <1>5, <1>6, <1>7, <1>8, <1>9, <1>10, <1>11,
     <1>12, <1>13, <1>14, <1>15 DEF Next, TaskStep, Finished

(* However the plain stores are ordered, a task holds exactly the lock of  *)
(* the target whose list it is updating.                                   *)
THEOREM LocksExclude == Spec => []OneLockPerTask
<1>1. Init => TypeOK /\ Lists /\ Mutex
  BY TypeInit, ListsInit, ConstantFacts DEF Init, Mutex, Critical
<1>2. TypeOK /\ Lists /\ Mutex /\ [Next]_vars => TypeOK' /\ Lists' /\ Mutex'
  BY TypeInductive, MutexInductive
<1>3. TypeOK /\ Lists /\ Mutex => OneLockPerTask
  <2> SUFFICES ASSUME TypeOK, Lists, Mutex, NEW t \in Tasks
               PROVE  {n \in Rows : lock[n] = t} =
                        IF pc[t] \in {"append", "reprune"} THEN {Target(t)} ELSE {}
    BY DEF OneLockPerTask
  <2>1. CASE pc[t] \in Critical
    <3>1. Target(t) \in Rows
      BY <2>1, TargetIsRow DEF Lists, Critical
    <3>2. \A n \in Rows : lock[n] = t <=> n = Target(t)
      BY <2>1, <3>1 DEF Mutex
    <3> QED BY <2>1, <3>1, <3>2 DEF Critical
  <2>2. CASE pc[t] \notin Critical
    BY <2>2, ConstantFacts DEF Mutex, Critical
  <2> QED BY <2>1, <2>2
<1> QED BY <1>1, <1>2, <1>3, PTL DEF Spec

-----------------------------------------------------------------------------
(* Which rows a task owns, and which nodes are linked.                     *)

Idle == {"next", "pushed"}

(* A task works through its own range in order and stores a forward list   *)
(* only between its search and its first back-edge.                        *)
RowsInv ==
    /\ \A t \in Tasks : pc[t] \notin Idle => row[t] \in RowRange(t)
    /\ \A t \in Tasks : \A r \in built[t] :
         r \in RowRange(t) /\ r <= row[t] /\ (pc[t] \notin Idle => r # row[t])
    /\ \A t \in Tasks : fwd[t] # {} => pc[t] = "connect"

(* The nodes whose forward list is complete.                               *)
HasLinks(t) == pc[t] \in {"connect", "append", "reprune"} /\ fwd[t] = {}
Linked ==
    {Entry} \cup {n \in Rows : \E t \in Tasks : n \in built[t]}
            \cup {n \in Rows : \E t \in Tasks : n = row[t] /\ HasLinks(t)}

LEMMA UnfinishedNotLinked ==
    ASSUME TypeOK, RowsInv, NEW t \in Tasks, Unfinished(t)
    PROVE  row[t] \notin Linked
<1>1. pc[t] \notin Idle /\ ~HasLinks(t) /\ row[t] \in RowRange(t)
  BY DEF Unfinished, RowsInv, Idle, HasLinks
<1>2. row[t] # Entry
  BY <1>1, RangesDisjoint
<1>3. \A u \in Tasks : row[t] \notin built[u]
  BY <1>1, RangesDisjoint DEF RowsInv
<1>4. \A u \in Tasks : HasLinks(u) => row[u] # row[t]
  <2> SUFFICES ASSUME NEW u \in Tasks, HasLinks(u) PROVE row[u] # row[t]
    OBVIOUS
  <2>1. row[u] \in RowRange(u) /\ u # t
    BY <1>1 DEF RowsInv, HasLinks, Idle
  <2> QED BY <1>1, <2>1, RangesDisjoint
<1> QED BY <1>2, <1>3, <1>4 DEF Linked

(* A step that leaves the rows, the maps and the other tasks alone.        *)
LEMMA RowsSameRow ==
    ASSUME TypeOK, RowsInv, NEW t \in Tasks, UNCHANGED <<row, built>>,
           \A u \in Tasks \ {t} : pc'[u] = pc[u] /\ fwd'[u] = fwd[u],
           pc'[t] \notin Idle => pc[t] \notin Idle,
           fwd'[t] # {} => pc'[t] = "connect"
    PROVE  RowsInv'
BY DEF RowsInv

LEMMA RowsInductive ==
    ASSUME TypeOK, RowsInv, ~AnyStoreOrder, [Next]_vars
    PROVE  RowsInv'
<1> USE ConstantFacts
<1>0. pc \in [Tasks -> Locations] /\ fwd \in [Tasks -> SUBSET Fields]
  BY DEF TypeOK
<1>1. CASE LeaderInsertEntry
  BY <1>1 DEF LeaderInsertEntry, task, RowsInv, TypeOK
<1>2. ASSUME NEW t \in Tasks, StartInsert(t) PROVE RowsInv'
  <2>1. PICK r \in RowRange(t) : r > row[t] /\ row' = [row EXCEPT ![t] = r]
    BY <1>2 DEF StartInsert, RowsLeft
  <2>2. row \in [Tasks -> Rows]
    BY DEF TypeOK
  <2>3. r \in Nat /\ row[t] \in Nat /\ \A x \in built[t] : x \in Nat
    BY <2>2, RangesDisjoint DEF RowsInv
  <2>4. /\ pc[t] = "next" /\ pc'[t] = "search"
        /\ \A u \in Tasks \ {t} : pc'[u] = pc[u] /\ row'[u] = row[u]
        /\ row'[t] = r /\ UNCHANGED <<built, fwd>>
    BY <1>0, <1>2, <2>1, <2>2 DEF StartInsert
  <2>5. fwd[t] = {}
    BY <2>4 DEF RowsInv
  <2> QED BY <2>1, <2>3, <2>4, <2>5 DEF RowsInv, Idle
<1>3. ASSUME NEW t \in Tasks, PushResults(t) PROVE RowsInv'
  BY <1>0, <1>3, RowsSameRow DEF PushResults, RowsInv, Idle
<1>4. ASSUME NEW t \in Tasks, Expand(t) PROVE RowsInv'
  BY <1>0, <1>4, RowsSameRow DEF Expand, RowsInv, Idle
<1>5. ASSUME NEW t \in Tasks, ReadSlot(t) PROVE RowsInv'
  BY <1>5 DEF ReadSlot, RowsInv
<1>6. ASSUME NEW t \in Tasks, EndExpand(t) PROVE RowsInv'
  BY <1>0, <1>6, RowsSameRow DEF EndExpand, RowsInv, Idle
<1>7. ASSUME NEW t \in Tasks, SelectNeighbors(t) PROVE RowsInv'
  <2>1. /\ pc[t] = "search" /\ pc'[t] = "connect"
        /\ \A u \in Tasks \ {t} : pc'[u] = pc[u] /\ fwd'[u] = fwd[u]
        /\ UNCHANGED <<row, built>>
    BY <1>0, <1>7 DEF SelectNeighbors
  <2> QED BY <2>1, RowsSameRow DEF Idle
<1>8. ASSUME NEW t \in Tasks, StoreForward(t) PROVE RowsInv'
  <2>1. /\ fwd'[t] \subseteq fwd[t]
        /\ \A u \in Tasks \ {t} : fwd'[u] = fwd[u]
        /\ UNCHANGED <<pc, row, built>>
    BY <1>0, <1>8 DEF StoreForward
  <2> QED BY <2>1 DEF RowsInv
<1>9. ASSUME NEW t \in Tasks, Spin(t) PROVE RowsInv'
  BY <1>9 DEF Spin, vars, task, RowsInv
<1>10. ASSUME NEW t \in Tasks, LockTarget(t) PROVE RowsInv'
  <2>1. /\ pc[t] = "connect" /\ fwd[t] = {}
        /\ \A u \in Tasks \ {t} : pc'[u] = pc[u]
        /\ UNCHANGED <<row, built, fwd>>
    BY <1>0, <1>10 DEF LockTarget, ForwardDone
  <2> QED BY <2>1, RowsSameRow DEF Idle
<1>11. ASSUME NEW t \in Tasks, StoreBack(t) PROVE RowsInv'
  BY <1>11 DEF StoreBack, RowsInv
<1>12. ASSUME NEW t \in Tasks, UnlockTarget(t) PROVE RowsInv'
  BY <1>0, <1>12, RowsSameRow DEF UnlockTarget, Idle
<1>13. ASSUME NEW t \in Tasks, EndInsert(t) PROVE RowsInv'
  <2>1. /\ pc[t] = "connect" /\ pc'[t] = "next" /\ fwd[t] = {}
        /\ \A u \in Tasks \ {t} : pc'[u] = pc[u] /\ built'[u] = built[u]
        /\ built'[t] = built[t] \cup {row[t]}
        /\ UNCHANGED <<row, fwd>>
    <3>1. /\ pc' = [pc EXCEPT ![t] = "next"] /\ pc[t] = "connect" /\ fwd[t] = {}
          /\ built' = [built EXCEPT ![t] = @ \cup {row[t]}]
          /\ UNCHANGED <<row, fwd>>
      BY <1>13 DEF EndInsert
    <3>2. /\ pc \in [Tasks -> Locations]
          /\ DOMAIN built = 0..NumTasks /\ Tasks \subseteq 0..NumTasks
      BY <1>0 DEF TypeOK, Tasks
    <3> QED BY <3>1, <3>2
  <2>2. row[t] \in RowRange(t) /\ row[t] \in Nat
    BY <2>1, RangesDisjoint DEF RowsInv, Idle
  <2> QED BY <2>1, <2>2 DEF RowsInv, Idle
<1>14. CASE FinishEvent
  BY <1>14 DEF FinishEvent, task, RowsInv
<1>15. CASE UNCHANGED vars
  BY <1>15 DEF vars, task, RowsInv
<1> QED
  BY <1>1, <1>2, <1>3, <1>4, <1>5, <1>6, <1>7, <1>8, <1>9, <1>10, <1>11,
     <1>12, <1>13, <1>14, <1>15 DEF Next, TaskStep, Finished

LEMMA LinkedGrows ==
    ASSUME TypeOK, RowsInv, ~AnyStoreOrder, [Next]_vars
    PROVE  Linked \subseteq Linked'
<1> USE ConstantFacts
<1>0. /\ pc \in [Tasks -> Locations] /\ fwd \in [Tasks -> SUBSET Fields]
      /\ row \in [Tasks -> Rows]
  BY DEF TypeOK
<1>1. \A t \in Tasks : built[t] \subseteq built'[t]
  <2>0. built \in [0..NumTasks -> SUBSET Rows] /\ Tasks \subseteq 0..NumTasks
    BY DEF TypeOK, Tasks
  <2>1. CASE LeaderInsertEntry
    BY <2>0, <2>1 DEF LeaderInsertEntry
  <2>2. ASSUME NEW u \in Tasks, EndInsert(u)
        PROVE  \A t \in Tasks : built[t] \subseteq built'[t]
    BY <2>0, <2>2 DEF EndInsert
  <2>3. CASE UNCHANGED built
    BY <2>3
  <2>4. \/ LeaderInsertEntry \/ UNCHANGED built
        \/ \E u \in Tasks : EndInsert(u)
    BY ZenonT(40) DEF Next, TaskStep, Finished, vars, task, StartInsert, PushResults,
           Expand, ReadSlot, EndExpand, SelectNeighbors, StoreForward, Spin,
           LockTarget, StoreBack, UnlockTarget, FinishEvent
  <2> QED BY <2>1, <2>2, <2>3, <2>4
<1>2. \A t \in Tasks : HasLinks(t) =>
        \/ row'[t] = row[t] /\ HasLinks(t)'
        \/ row[t] \in built'[t]
  <2> SUFFICES ASSUME NEW t \in Tasks, HasLinks(t)
               PROVE  \/ row'[t] = row[t] /\ HasLinks(t)'
                      \/ row[t] \in built'[t]
    OBVIOUS
  <2>1. CASE LeaderInsertEntry \/ FinishEvent \/ UNCHANGED vars
    BY <2>1 DEF LeaderInsertEntry, FinishEvent, vars, task, HasLinks
  <2>2. ASSUME NEW u \in Tasks, TaskStep(u), u # t
        PROVE  row'[t] = row[t] /\ HasLinks(t)'
    BY <1>0, <2>2
       DEF TaskStep, HasLinks, StartInsert, PushResults, Expand, ReadSlot,
           EndExpand, SelectNeighbors, StoreForward, Spin, LockTarget,
           StoreBack, UnlockTarget, EndInsert, vars, task
  <2>3. CASE StoreForward(t) \/ Spin(t) \/ LockTarget(t) \/ StoreBack(t)
               \/ UnlockTarget(t)
    BY <1>0, <2>3 DEF HasLinks, StoreForward, Spin, LockTarget, StoreBack,
                      UnlockTarget, vars, task
  <2>4. CASE EndInsert(t)
    BY <2>4 DEF EndInsert, TypeOK, Tasks
  <2>5. ~StartInsert(t) /\ ~PushResults(t) /\ ~Expand(t) /\ ~ReadSlot(t)
        /\ ~EndExpand(t) /\ ~SelectNeighbors(t)
    BY DEF HasLinks, StartInsert, PushResults, Expand, ReadSlot, EndExpand,
           SelectNeighbors
  <2> QED BY <2>1, <2>2, <2>3, <2>4, <2>5 DEF Next, TaskStep, Finished
<1> QED BY <1>0, <1>1, <1>2, Zenon DEF Linked

-----------------------------------------------------------------------------
(* Every id in memory or in a task's hands is a linked node's: a slot never *)
(* written holds 0, which is the entry point.                              *)

Within(S, t) == /\ srch[t].marks \subseteq S /\ srch[t].frontier \subseteq S
                /\ srch[t].W \subseteq S
                /\ pc[t] = "read" => srch[t].at \in S
                /\ Listed(sel[t]) \subseteq S /\ Listed(want[t]) \subseteq S

LinkInv ==
    /\ \A n \in Rows, i \in 1..R : slot[n][i] \in Linked
    /\ \A t \in Tasks : Within(Linked, t)

LEMMA LinkInit == Init => LinkInv
BY ConstantFacts DEF Init, LinkInv, Within, Linked, NoSearch, Listed, Entry

(* A store of a linked node keeps the slots linked.                        *)
LEMMA StoreFieldLinked ==
    ASSUME TypeOK, LinkInv, NEW n \in Rows, NEW f \in Fields,
           NEW list \in Seq(Rows), f \in 0..Len(list),
           Listed(list) \subseteq Linked, StoreField(n, f, list)
    PROVE  \A m \in Rows, i \in 1..R : slot'[m][i] \in Linked
<1>1. CASE f = 0
  BY <1>1 DEF StoreField, LinkInv
<1>2. CASE f # 0
  <2>1. f \in 1..R /\ list[f] \in Linked
    BY <1>2, ConstantFacts DEF Fields, Listed
  <2> QED BY <1>2, <2>1 DEF StoreField, TypeOK, LinkInv
<1> QED BY <1>1, <1>2

LEMMA EmptyListed == Listed(<<>>) = {}
BY DEF Listed

(* A task's step that keeps the slots linked and its own ids linked.       *)
LEMMA LinkStep ==
    ASSUME LinkInv, Linked \subseteq Linked', NEW t \in Tasks,
           \A n \in Rows, i \in 1..R : slot'[n][i] \in Linked,
           \A u \in Tasks \ {t} :
             /\ pc'[u] = pc[u] /\ srch'[u] = srch[u]
             /\ sel'[u] = sel[u] /\ want'[u] = want[u],
           /\ srch'[t].marks \subseteq Linked /\ srch'[t].frontier \subseteq Linked
           /\ srch'[t].W \subseteq Linked
           /\ pc'[t] = "read" => srch'[t].at \in Linked
           /\ Listed(sel'[t]) \subseteq Linked /\ Listed(want'[t]) \subseteq Linked
    PROVE  LinkInv'
<1> USE DEF LinkInv, Within
<1>1. \A n \in Rows, i \in 1..R : slot'[n][i] \in Linked'
  OBVIOUS
<1>2. \A u \in Tasks : Within(Linked, u)'
  OBVIOUS
<1> QED BY <1>1, <1>2

LEMMA LinkInductive ==
    ASSUME TypeOK, Lists, RowsInv, LinkInv, ~AnyStoreOrder, [Next]_vars
    PROVE  LinkInv'
<1> USE ConstantFacts
<1>0. Linked \subseteq Linked' /\ Entry \in Linked
  BY LinkedGrows DEF Linked
<1>T. /\ pc \in [Tasks -> Locations] /\ srch \in [Tasks -> SearchState]
      /\ sel \in [Tasks -> Seq(Rows)] /\ want \in [Tasks -> Seq(Rows)]
      /\ slot \in [Rows -> [1..R -> Rows]] /\ cnt \in [Rows -> 0..R]
  BY DEF TypeOK
<1>1. CASE LeaderInsertEntry \/ FinishEvent \/ UNCHANGED vars
  BY <1>0, <1>1 DEF LeaderInsertEntry, FinishEvent, vars, task, LinkInv, Within
<1>2. ASSUME NEW t \in Tasks, StartInsert(t) PROVE LinkInv'
  <2>1. /\ srch'[t] = Seeded(Entry) /\ pc'[t] = "search"
        /\ \A u \in Tasks \ {t} : pc'[u] = pc[u] /\ srch'[u] = srch[u]
        /\ UNCHANGED <<sel, want>>
    BY <1>T, <1>2 DEF StartInsert
  <2>2. \A n \in Rows, i \in 1..R : slot'[n][i] \in Linked
    <3>1. PICK r \in RowsLeft(t) :
            slot' = [slot EXCEPT ![r] = [i \in 1..R |-> 0]]
      BY <1>2 DEF StartInsert
    <3> QED BY <1>0, <1>T, <3>1 DEF LinkInv, Entry
  <2> QED BY <1>0, <2>1, <2>2, LinkStep DEF LinkInv, Within, Seeded
<1>3. ASSUME NEW t \in Tasks, PushResults(t) PROVE LinkInv'
  BY <1>0, <1>T, <1>3 DEF PushResults, LinkInv, Within
<1>4. ASSUME NEW t \in Tasks, Expand(t) PROVE LinkInv'
  <2>1. PICK best \in srch[t].frontier :
          srch' = [srch EXCEPT ![t].frontier = @ \ {best}, ![t].at = best,
                               ![t].n = cnt[best], ![t].i = 1]
    BY <1>4 DEF Expand, IsClosest
  <2>2. /\ srch'[t].marks = srch[t].marks /\ srch'[t].W = srch[t].W
        /\ srch'[t].frontier \subseteq srch[t].frontier /\ srch'[t].at = best
        /\ \A u \in Tasks \ {t} : srch'[u] = srch[u]
    BY <1>T, <2>1 DEF SearchState
  <2>3. /\ \A u \in Tasks \ {t} : pc'[u] = pc[u]
        /\ UNCHANGED <<slot, sel, want>>
    BY <1>T, <1>4 DEF Expand
  <2> QED BY <1>0, <2>2, <2>3, LinkStep DEF LinkInv, Within
<1>5. ASSUME NEW t \in Tasks, ReadSlot(t) PROVE LinkInv'
  <2> DEFINE s == srch[t]
             nb == slot[s.at][s.i]
  <2>1. /\ pc[t] = "read" /\ s.i <= s.n
        /\ \/ srch' = [srch EXCEPT ![t].i = @ + 1]
           \/ \E W \in Offered(t, s.W, nb) :
                 srch' = [srch EXCEPT ![t].i = @ + 1, ![t].W = W,
                                      ![t].marks = @ \cup {nb},
                                      ![t].frontier = @ \cup {nb}]
           \/ srch' = [srch EXCEPT ![t].i = @ + 1, ![t].marks = @ \cup {nb}]
        /\ UNCHANGED <<slot, sel, want, pc>>
    BY <1>5 DEF ReadSlot
  <2>2. s.at \in Rows /\ 1 <= s.i
    BY <2>1 DEF Lists
  <2>3. s \in SearchState
    BY <1>T
  <2> HIDE DEF s
  <2>4. s.i \in 1..R
    <3>1. s.n \in 0..R /\ s.i \in 0 .. R + 1
      BY <2>3, SearchComponents
    <3>2. s.i <= s.n
      BY <2>1
    <3> QED BY <2>2, <3>1, <3>2
  <2>5. nb \in Linked
    BY <2>2, <2>4 DEF LinkInv
  <2> HIDE DEF nb
  <2>6. \A W \in Offered(t, s.W, nb) : W \subseteq s.W \cup {nb}
    BY DEF Offered
  <2>7. /\ srch'[t].marks \subseteq s.marks \cup {nb}
        /\ srch'[t].frontier \subseteq s.frontier \cup {nb}
        /\ srch'[t].W \subseteq s.W \cup {nb} /\ srch'[t].at = s.at
        /\ \A u \in Tasks \ {t} : srch'[u] = srch[u]
    <3>1. CASE srch' = [srch EXCEPT ![t].i = @ + 1]
      BY <1>T, <3>1 DEF SearchState, s
    <3>2. CASE srch' = [srch EXCEPT ![t].i = @ + 1, ![t].marks = @ \cup {nb}]
      BY <1>T, <3>2 DEF SearchState, s
    <3>3. CASE \E W \in Offered(t, s.W, nb) :
                 srch' = [srch EXCEPT ![t].i = @ + 1, ![t].W = W,
                                      ![t].marks = @ \cup {nb},
                                      ![t].frontier = @ \cup {nb}]
      BY SMTT(30), <1>T, <2>6, <3>3 DEF SearchState, s
    <3> QED BY <2>1, <3>1, <3>2, <3>3
  <2>8. /\ s.marks \subseteq Linked /\ s.frontier \subseteq Linked
        /\ s.W \subseteq Linked /\ s.at \in Linked
    BY <2>1 DEF LinkInv, Within, s
  <2>9. /\ srch'[t].marks \subseteq Linked /\ srch'[t].W \subseteq Linked
        /\ srch'[t].frontier \subseteq Linked /\ srch'[t].at \in Linked
    BY <2>5, <2>7, <2>8
  <2>10. UNCHANGED <<slot, sel, want, pc>>
    BY <2>1
  <2> QED BY <1>0, <2>7, <2>9, <2>10, LinkStep DEF LinkInv, Within
<1>6. ASSUME NEW t \in Tasks, EndExpand(t) PROVE LinkInv'
  <2>1. /\ srch'[t].marks = srch[t].marks /\ srch'[t].W = srch[t].W
        /\ srch'[t].frontier = srch[t].frontier /\ pc'[t] = "search"
        /\ \A u \in Tasks \ {t} : pc'[u] = pc[u] /\ srch'[u] = srch[u]
        /\ UNCHANGED <<slot, sel, want>>
    BY <1>T, <1>6 DEF EndExpand, SearchState
  <2> QED BY <1>0, <2>1, LinkStep DEF LinkInv, Within
<1>7. ASSUME NEW t \in Tasks, SelectNeighbors(t) PROVE LinkInv'
  <2>1. PICK list \in KeptLists(srch[t].W, [c \in srch[t].W |-> Near(t, c)]) :
          sel' = [sel EXCEPT ![t] = list]
    BY <1>7 DEF SelectNeighbors
  <2>2. Listed(list) \subseteq Linked
    <3>1. Listed(list) \subseteq srch[t].W
      BY KeptListsShape
    <3> QED BY <3>1 DEF LinkInv, Within
  <2>3. /\ srch'[t] = NoSearch /\ pc'[t] = "connect" /\ sel'[t] = list
        /\ \A u \in Tasks \ {t} : /\ pc'[u] = pc[u] /\ srch'[u] = srch[u]
                                 /\ sel'[u] = sel[u]
        /\ UNCHANGED <<slot, want>>
    BY <1>T, <1>7, <2>1 DEF SelectNeighbors
  <2>4. NoSearch.marks = {} /\ NoSearch.frontier = {} /\ NoSearch.W = {}
    BY DEF NoSearch
  <2> QED BY <1>0, <2>2, <2>3, <2>4, LinkStep DEF LinkInv, Within
<1>8. ASSUME NEW t \in Tasks, StoreForward(t) PROVE LinkInv'
  <2>1. PICK f \in fwd[t] : StoreField(row[t], f, sel[t])
    BY <1>8 DEF StoreForward
  <2>2. /\ row[t] \in Rows /\ f \in Fields /\ sel[t] \in Seq(Rows)
        /\ f \in 0..Len(sel[t])
    BY DEF TypeOK, Lists
  <2>3. \A n \in Rows, i \in 1..R : slot'[n][i] \in Linked
    BY <2>1, <2>2, StoreFieldLinked DEF LinkInv, Within
  <2>4. UNCHANGED <<pc, srch, sel, want>>
    BY <1>8 DEF StoreForward
  <2> QED BY <1>0, <2>3, <2>4, LinkStep DEF LinkInv, Within
<1>9. ASSUME NEW t \in Tasks, Spin(t) PROVE LinkInv'
  BY <1>0, <1>9 DEF Spin, vars, task, LinkInv, Within
<1>10. ASSUME NEW t \in Tasks, LockTarget(t) PROVE LinkInv'
  <2>1. /\ pc[t] = "connect" /\ fwd[t] = {} /\ si[t] <= Len(sel[t])
        /\ pc'[t] # "read" /\ \A u \in Tasks \ {t} : pc'[u] = pc[u]
        /\ UNCHANGED <<slot, srch, sel>>
    BY <1>T, <1>10 DEF LockTarget, ForwardDone
  <2>2. row[t] \in Linked /\ row[t] \in Rows
    BY <2>1 DEF Linked, HasLinks, TypeOK
  <2>3. Target(t) \in Rows
    BY <2>1, TargetIsRow
  <2> DEFINE old == InMemory(Target(t))
  <2>4. old \in Seq(Rows) /\ Listed(old) \subseteq Linked
    <3>1. /\ old \in Seq(Rows) /\ Len(old) = cnt[Target(t)]
          /\ \A i \in 1..cnt[Target(t)] : old[i] = slot[Target(t)][i]
      BY <2>3, InMemoryShape
    <3> HIDE DEF old
    <3>2. cnt[Target(t)] \in 0..R
      BY <1>T, <2>3
    <3>3. \A i \in 1..cnt[Target(t)] : slot[Target(t)][i] \in Linked
      <4>1. \A i \in 1..cnt[Target(t)] : i \in 1..R
        BY <3>2
      <4> QED BY <2>3, <4>1 DEF LinkInv
    <3>4. \A i \in 1..cnt[Target(t)] : old[i] \in Linked
      BY <3>1, <3>3
    <3> QED BY <3>1, <3>4 DEF Listed
  <2> HIDE DEF old
  <2>5. PICK list : /\ want' = [want EXCEPT ![t] = list]
                    /\ Listed(list) \subseteq Linked
    <3>1. CASE want' = [want EXCEPT ![t] = Append(old, row[t])]
      <4>1. /\ Append(old, row[t]) \in Seq(Rows)
            /\ Len(Append(old, row[t])) = Len(old) + 1
            /\ \A i \in 1..Len(old) : Append(old, row[t])[i] = old[i]
            /\ Append(old, row[t])[Len(old) + 1] = row[t]
        BY <2>2, <2>4, AppendProperties
      <4>2. Listed(Append(old, row[t])) \subseteq Listed(old) \cup {row[t]}
        BY <2>4, <4>1 DEF Listed
      <4> QED BY <2>2, <2>4, <3>1, <4>2
    <3>2. ASSUME NEW l \in KeptLists(Listed(old) \cup {row[t]},
                   [x \in Listed(old) \cup {row[t]} |-> CodeDist(Target(t), x)]),
                 want' = [want EXCEPT ![t] = l]
          PROVE  Listed(l) \subseteq Linked
      BY <2>2, <2>4, KeptListsShape
    <3> QED BY <1>10, <3>1, <3>2 DEF LockTarget, old
  <2>6. want'[t] = list /\ \A u \in Tasks \ {t} : want'[u] = want[u]
    BY <1>T, <2>5
  <2> QED BY <1>0, <2>1, <2>5, <2>6, LinkStep DEF LinkInv, Within
<1>11. ASSUME NEW t \in Tasks, StoreBack(t) PROVE LinkInv'
  <2>1. PICK f \in bck[t] : StoreField(Target(t), f, want[t])
    BY <1>11 DEF StoreBack
  <2>2. /\ f \in Fields /\ want[t] \in Seq(Rows) /\ f \in 0..Len(want[t])
        /\ Target(t) \in Rows
    BY TargetIsRow DEF TypeOK, Lists
  <2>3. \A n \in Rows, i \in 1..R : slot'[n][i] \in Linked
    BY <2>1, <2>2, StoreFieldLinked DEF LinkInv, Within
  <2>4. UNCHANGED <<pc, srch, sel, want>>
    BY <1>11 DEF StoreBack
  <2> QED BY <1>0, <2>3, <2>4, LinkStep DEF LinkInv, Within
<1>12. ASSUME NEW t \in Tasks, UnlockTarget(t) PROVE LinkInv'
  <2>1. /\ pc'[t] = "connect" /\ want'[t] = <<>>
        /\ \A u \in Tasks \ {t} : pc'[u] = pc[u] /\ want'[u] = want[u]
        /\ UNCHANGED <<slot, srch, sel>>
    BY <1>T, <1>12 DEF UnlockTarget
  <2> QED BY <1>0, <2>1, EmptyListed, LinkStep DEF LinkInv, Within
<1>13. ASSUME NEW t \in Tasks, EndInsert(t) PROVE LinkInv'
  <2>1. /\ pc'[t] = "next" /\ sel'[t] = <<>>
        /\ \A u \in Tasks \ {t} : pc'[u] = pc[u] /\ sel'[u] = sel[u]
        /\ UNCHANGED <<slot, srch, want>>
    BY <1>T, <1>13 DEF EndInsert
  <2> QED BY <1>0, <2>1, EmptyListed, LinkStep DEF LinkInv, Within
<1> QED
  BY <1>1, <1>2, <1>3, <1>4, <1>5, <1>6, <1>7, <1>8, <1>9, <1>10, <1>11,
     <1>12, <1>13 DEF Next, TaskStep, Finished

-----------------------------------------------------------------------------
(* The inductive invariant, and what follows from it.                      *)

SafetyInv == TypeOK /\ Lists /\ Mutex /\ RowsInv /\ LinkInv

LEMMA SafetyInvariant == ASSUME ~AnyStoreOrder PROVE Spec => []SafetyInv
<1>1. Init => SafetyInv
  <2>1. Init => RowsInv
    BY ConstantFacts DEF Init, RowsInv, Idle, Tasks
  <2>2. Init => Mutex
    BY ConstantFacts DEF Init, Mutex, Critical
  <2> QED BY <2>1, <2>2, TypeInit, ListsInit, LinkInit DEF SafetyInv
<1>2. SafetyInv /\ [Next]_vars => SafetyInv'
  BY TypeInductive, MutexInductive, RowsInductive, LinkInductive DEF SafetyInv
<1> QED BY <1>1, <1>2, PTL DEF Spec

(* With the stores in program order, no list and no other task's search    *)
(* ever names a node whose forward list is not complete.                   *)
THEOREM HalfBuiltNodesHidden ==
    ASSUME ~AnyStoreOrder PROVE Spec => []NoHalfBuiltNode
<1>1. SafetyInv => NoHalfBuiltNode
  <2> SUFFICES ASSUME SafetyInv, NEW t \in Tasks, Unfinished(t)
               PROVE  /\ \A n \in Rows : row[t] \notin Neighbors(n)
                      /\ \A u \in Tasks : row[t] \notin srch[u].marks
    BY DEF NoHalfBuiltNode
  <2>1. row[t] \notin Linked
    BY UnfinishedNotLinked DEF SafetyInv
  <2>2. \A n \in Rows : Neighbors(n) \subseteq Linked
    <3> SUFFICES ASSUME NEW n \in Rows PROVE Neighbors(n) \subseteq Linked
      OBVIOUS
    <3>1. Neighbors(n) = {slot[n][i] : i \in 1..cnt[n]}
      BY InMemoryShape DEF SafetyInv
    <3>2. cnt[n] \in 0..R
      BY DEF SafetyInv, TypeOK
    <3>3. \A i \in 1..cnt[n] : slot[n][i] \in Linked
      BY <3>2, ConstantFacts DEF SafetyInv, LinkInv
    <3> QED BY <3>1, <3>3
  <2>3. \A u \in Tasks : srch[u].marks \subseteq Linked
    BY DEF SafetyInv, LinkInv, Within
  <2> QED BY <2>1, <2>2, <2>3
<1> QED BY <1>1, SafetyInvariant, PTL

-----------------------------------------------------------------------------
(* What memory holds while a list is stored.                               *)

(* Node n's memory holds list, but for the fields in left.                 *)
Stored(n, list, left) ==
    /\ 0 \notin left => cnt[n] = Len(list)
    /\ \A f \in 1..Len(list) : f \notin left => slot[n][f] = list[f]

(* What a task has stored is in memory, until the stores are done nobody   *)
(* else stores there; an append keeps the count until its slot is stored;  *)
(* a node without links has an empty list.                                 *)
StoreInv ==
    /\ \A t \in Tasks : fwd[t] # {} => Stored(row[t], sel[t], fwd[t])
    /\ \A t \in Tasks : pc[t] \in Critical => Stored(Target(t), want[t], bck[t])
    /\ \A t \in Tasks : pc[t] = "append" =>
          /\ bck[t] \subseteq {0, Len(want[t])} /\ (bck[t] = {} \/ 0 \in bck[t])
          /\ 0 \in bck[t] => cnt[Target(t)] = Len(want[t]) - 1
    /\ \A n \in Rows \ Linked : BeingLinked(n) \/ cnt[n] = 0

(* A task has inserted the rows of its range it has passed.                *)
WorkInv ==
    /\ \A t \in Tasks : \A r \in RowRange(t) :
          r < row[t] \/ (r = row[t] /\ pc[t] \in Idle) => r \in built[t]
    /\ \A t \in Tasks : pc[t] = "pushed" => RowsLeft(t) = {}
    /\ phase = "schedule" =>
          /\ \A t \in Tasks : pc[t] = "next"
          /\ \A t \in 0..NumTasks : built[t] = {}
          /\ \A n \in Rows : cnt[n] = 0
    /\ phase # "schedule" => built[0] = {Entry}
    /\ phase = "finished" => \A t \in Tasks : pc[t] = "pushed"

-----------------------------------------------------------------------------
(* What the lists are, decided or in memory.                               *)

Linking == {"connect", "append", "reprune"}

(* A list without repetitions that does not name its own node.             *)
Simple(list, n) ==
    /\ \A i, j \in 1..Len(list) : i # j => list[i] # list[j]
    /\ n \notin Listed(list)

(* The back-edge to sel[t][j] has not been decided yet.                    *)
ToCome(t, j) == j > si[t] \/ (j = si[t] /\ pc[t] = "connect")

(* What a task has in hand: the list it links its row with, whose          *)
(* back-edges to come are in no list, or a search that found something.    *)
TaskLists(t) ==
    /\ pc[t] \in Linking =>
          /\ sel[t] # <<>> /\ Simple(sel[t], row[t])
          /\ \A j \in 1..Len(sel[t]) :
               ToCome(t, j) => row[t] \notin Listed(ListOf(sel[t][j]))
    /\ fwd[t] # {} => si[t] = 1
    /\ pc[t] \in {"search", "read"} =>
          srch[t].W # {} /\ srch[t].W \subseteq srch[t].marks

(* A task about to give the entry point its first edge.                    *)
FirstToLink(t) ==
    pc[t] = "connect" /\ fwd[t] = {} /\ sel[t] = <<Entry>> /\ si[t] = 1

EntryEdge ==
    Linked = {Entry} \/ ListOf(Entry) # <<>> \/ \E t \in Tasks : FirstToLink(t)

(* Lists are simple, and not empty but for the entry point's, which gets   *)
(* its first edge from the task that links the second node.                *)
ListInv ==
    /\ \A n \in Rows : Simple(ListOf(n), n)
    /\ \A n \in LinkedNodes \ {Entry} : ListOf(n) # <<>>
    /\ \A t \in Tasks : TaskLists(t)
    /\ EntryEdge

BuildInv == SafetyInv /\ StoreInv /\ WorkInv /\ ListInv

-----------------------------------------------------------------------------
(* Whose memory a task may write.                                          *)

UnfinishedUnlinked == \A t \in Tasks : Unfinished(t) => row[t] \notin Linked

LEMMA UnlinkedRows == SafetyInv => UnfinishedUnlinked
BY UnfinishedNotLinked DEF SafetyInv, UnfinishedUnlinked

LEMMA ForwardApart ==
    ASSUME SafetyInv, NEW t \in Tasks, fwd[t] # {}
    PROVE  /\ row[t] \in Rows \ Linked /\ pc[t] = "connect"
           /\ \A u \in Tasks : pc[u] \in Critical => Target(u) # row[t]
           /\ \A u \in Tasks \ {t} : pc[u] \notin Idle => row[u] # row[t]
           /\ lock[row[t]] = Unlocked
<1>1. row[t] \in Rows \ Linked /\ pc[t] = "connect"
  BY UnfinishedNotLinked DEF SafetyInv, Unfinished, TypeOK, RowsInv
<1>2. ASSUME NEW u \in Tasks, pc[u] \in Critical PROVE Target(u) # row[t]
  <2>1. Target(u) \in Linked
    BY <1>2, TargetIsRow DEF SafetyInv, Lists, Critical, LinkInv, Within
  <2> QED BY <1>1, <2>1
<1>3. ASSUME NEW u \in Tasks \ {t}, pc[u] \notin Idle PROVE row[u] # row[t]
  <2>1. row[t] \in RowRange(t) /\ row[u] \in RowRange(u)
    BY <1>1, <1>3 DEF SafetyInv, RowsInv, Idle
  <2> QED BY <1>3, <2>1, RangesDisjoint
<1>4. lock[row[t]] = Unlocked
  <2>1. lock[row[t]] \in Tasks \cup {Unlocked}
    BY <1>1 DEF SafetyInv, TypeOK
  <2> QED BY <1>1, <1>2, <2>1 DEF SafetyInv, Mutex
<1> QED BY <1>1, <1>2, <1>3, <1>4

LEMMA TargetApart ==
    ASSUME SafetyInv, NEW t \in Tasks, pc[t] \in Critical
    PROVE  /\ Target(t) \in Rows \cap Linked /\ lock[Target(t)] = t
           /\ \A u \in Tasks \ {t} : pc[u] \in Critical => Target(u) # Target(t)
           /\ \A u \in Tasks : fwd[u] # {} => row[u] # Target(t)
<1>1. Target(t) \in Rows \cap Linked
  BY TargetIsRow DEF SafetyInv, Lists, Critical, LinkInv, Within
<1>2. \A u \in Tasks : fwd[u] # {} => row[u] # Target(t)
  BY <1>1, ForwardApart
<1> QED BY <1>1, <1>2 DEF SafetyInv, Mutex

(* A task's step writes at most the nodes in T, which no other task is     *)
(* storing, ...                                                            *)
OthersStand(t, T) ==
    /\ \A m \in Rows \ T : cnt'[m] = cnt[m] /\ slot'[m] = slot[m]
    /\ \A u \in Tasks \ {t} :
         /\ pc'[u] = pc[u] /\ row'[u] = row[u] /\ fwd'[u] = fwd[u]
         /\ sel'[u] = sel[u] /\ si'[u] = si[u]
         /\ bck'[u] = bck[u] /\ want'[u] = want[u]
         /\ fwd[u] # {} => row[u] \in Rows \ T
         /\ pc[u] \in Critical => Target(u) \in Rows \ T

(* ... and what it stores itself stays under way until it is in memory.    *)
OwnStands(t, T) ==
    /\ fwd'[t] # {} => Stored(row[t], sel[t], fwd[t])'
    /\ pc'[t] \in Critical => Stored(Target(t), want[t], bck[t])'
    /\ pc'[t] = "append" =>
         /\ bck'[t] \subseteq {0, Len(want'[t])} /\ (bck'[t] = {} \/ 0 \in bck'[t])
         /\ 0 \in bck'[t] => cnt'[Target(t)'] = Len(want'[t]) - 1
    /\ fwd[t] # {} => row[t] \in Linked' \/ (fwd'[t] # {} /\ row'[t] = row[t])
    /\ \A n \in T : n \in Linked' \/ BeingLinked(n)' \/ cnt'[n] = 0

LEMMA StoreStep ==
    ASSUME StoreInv, Linked \subseteq Linked', NEW t \in Tasks, NEW T,
           OthersStand(t, T), OwnStands(t, T)
    PROVE  StoreInv'
<1> USE DEF OthersStand, OwnStands
<1>1. \A u \in Tasks \ {t} : Target(u)' = Target(u)
  BY DEF Target
<1>2. \A u \in Tasks : fwd'[u] # {} => Stored(row[u], sel[u], fwd[u])'
  BY DEF StoreInv, Stored
<1>3. \A u \in Tasks : pc'[u] \in Critical => Stored(Target(u), want[u], bck[u])'
  BY <1>1 DEF StoreInv, Stored
<1>4. \A u \in Tasks : pc'[u] = "append" =>
          /\ bck'[u] \subseteq {0, Len(want'[u])} /\ (bck'[u] = {} \/ 0 \in bck'[u])
          /\ 0 \in bck'[u] => cnt'[Target(u)'] = Len(want'[u]) - 1
  BY <1>1 DEF StoreInv, Critical
<1>5. ASSUME NEW n \in Rows \ Linked', ~BeingLinked(n)' PROVE cnt'[n] = 0
  <2>1. CASE n \in T
    BY <1>5, <2>1
  <2>2. CASE n \notin T
    <3>1. n \notin Linked /\ cnt'[n] = cnt[n]
      BY <1>5, <2>2
    <3>2. ~BeingLinked(n)
      BY <1>5 DEF BeingLinked
    <3> QED BY <3>1, <3>2 DEF StoreInv
  <2> QED BY <2>1, <2>2
<1> QED BY <1>2, <1>3, <1>4, <1>5 DEF StoreInv

(* One store more.                                                         *)
StoredNext(n, list, left) ==
    /\ 0 \notin left => cnt'[n] = Len(list)
    /\ \A f \in 1..Len(list) : f \notin left => slot'[n][f] = list[f]

LEMMA StoredField ==
    ASSUME cnt \in [Rows -> 0..R], slot \in [Rows -> [1..R -> Rows]],
           NEW n \in Rows, NEW list \in Seq(Rows), Len(list) <= R,
           NEW left, NEW f \in 0..Len(list), Stored(n, list, left),
           StoreField(n, f, list)
    PROVE  StoredNext(n, list, left \ {f})
<1> SUFFICES /\ 0 \notin left \ {f} => cnt'[n] = Len(list)
             /\ \A g \in 1..Len(list) : g \notin left \ {f} => slot'[n][g] = list[g]
  BY DEF StoredNext
<1>1. CASE f = 0
  BY <1>1 DEF StoreField, Stored
<1>2. CASE f # 0
  <2>1. f \in 1..R /\ cnt' = cnt /\ slot' = [slot EXCEPT ![n][f] = list[f]]
    BY <1>2, ConstantFacts DEF StoreField
  <2>2. \A g \in 1..Len(list) : g \in 1..R
    BY ConstantFacts
  <2>3. \A g \in 1..Len(list) : slot'[n][g] = IF g = f THEN list[f] ELSE slot[n][g]
    BY <2>1, <2>2
  <2> QED BY <1>2, <2>1, <2>3 DEF Stored
<1> QED BY <1>1, <1>2

LEMMA StoreInit == Init => StoreInv
BY DEF Init, StoreInv, Critical

LEMMA StoreInductive ==
    ASSUME SafetyInv, SafetyInv', StoreInv, ~AnyStoreOrder, [Next]_vars
    PROVE  StoreInv'
<1> USE ConstantFacts
<1>0. Linked \subseteq Linked' /\ RowsInv /\ RowsInv'
  BY LinkedGrows DEF SafetyInv
<1>T. /\ pc \in [Tasks -> Locations] /\ row \in [Tasks -> Rows]
      /\ sel \in [Tasks -> Seq(Rows)] /\ want \in [Tasks -> Seq(Rows)]
      /\ si \in [Tasks -> 1 .. R + 1]
      /\ fwd \in [Tasks -> SUBSET Fields] /\ bck \in [Tasks -> SUBSET Fields]
      /\ slot \in [Rows -> [1..R -> Rows]] /\ cnt \in [Rows -> 0..R]
  BY DEF SafetyInv, TypeOK
<1>U. \A u \in Tasks : /\ fwd[u] # {} => row[u] \in Rows /\ pc[u] = "connect"
                       /\ pc[u] \in Critical => Target(u) \in Rows /\ fwd[u] = {}
  BY ForwardApart, TargetApart DEF Critical
<1>1. CASE LeaderInsertEntry \/ FinishEvent \/ UNCHANGED vars
  <2>1. UNCHANGED <<cnt, slot, lock, task>>
    BY <1>1 DEF LeaderInsertEntry, FinishEvent, vars
  <2>2. UNCHANGED <<pc, row, sel, si, fwd, bck, want>>
    BY <2>1 DEF task
  <2>3. \A n \in Rows \ Linked' : BeingLinked(n)' \/ cnt'[n] = 0
    BY <1>0, <2>1, <2>2 DEF StoreInv, BeingLinked
  <2> QED BY <2>1, <2>2, <2>3 DEF StoreInv, Stored, Target
<1>2. ASSUME NEW t \in Tasks, StartInsert(t) PROVE StoreInv'
  <2>1. PICK r \in RowsLeft(t) :
          /\ row' = [row EXCEPT ![t] = r] /\ cnt' = [cnt EXCEPT ![r] = 0]
          /\ slot' = [slot EXCEPT ![r] = [i \in 1..R |-> 0]]
    BY <1>2 DEF StartInsert
  <2>2. /\ pc[t] = "next" /\ pc' = [pc EXCEPT ![t] = "search"]
        /\ UNCHANGED <<sel, si, fwd, bck, want>>
    BY <1>2 DEF StartInsert
  <2>3. r \in RowRange(t) /\ r \in Rows /\ row'[t] = r /\ fwd[t] = {}
        /\ cnt'[r] = 0 /\ \A m \in Rows \ {r} : cnt'[m] = cnt[m] /\ slot'[m] = slot[m]
    BY <1>T, <1>0, <2>1, <2>2, RangesDisjoint DEF RowsLeft, RowsInv
  <2>4. r \notin Linked'
    <3>1. Unfinished(t)'
      BY <1>T, <2>2 DEF Unfinished
    <3>2. UnfinishedUnlinked'
      BY UnlinkedRows, PTL
    <3> QED BY <2>3, <3>1, <3>2 DEF UnfinishedUnlinked
  <2>5. \A u \in Tasks \ {t} : /\ fwd[u] # {} => row[u] \in Rows \ {r}
                               /\ pc[u] \in Critical => Target(u) \in Rows \ {r}
    <3>1. ASSUME NEW u \in Tasks \ {t}, fwd[u] # {} PROVE row[u] # r
      <4>1. row[u] \in RowRange(u)
        BY <1>0, <1>U, <3>1 DEF RowsInv, Idle
      <4> QED BY <2>3, <4>1, RangesDisjoint
    <3>2. ASSUME NEW u \in Tasks \ {t}, pc[u] \in Critical PROVE Target(u) # r
      BY <1>0, <2>4, <3>2, TargetApart
    <3> QED BY <1>U, <3>1, <3>2
  <2>6. /\ pc'[t] = "search" /\ fwd'[t] = {}
        /\ \A u \in Tasks \ {t} : pc'[u] = pc[u] /\ row'[u] = row[u]
    BY <1>T, <2>1, <2>2, <2>3
  <2>7. OthersStand(t, {r})
    BY <2>2, <2>3, <2>5, <2>6 DEF OthersStand
  <2>8. OwnStands(t, {r})
    BY <2>3, <2>6 DEF OwnStands, Critical
  <2> QED BY <1>0, <2>7, <2>8, StoreStep
<1>3. ASSUME NEW t \in Tasks,
             PushResults(t) \/ Expand(t) \/ ReadSlot(t) \/ EndExpand(t) \/ Spin(t)
                \/ EndInsert(t)
      PROVE  StoreInv'
  <2>1. /\ pc[t] \notin Critical /\ pc'[t] \notin Critical
        /\ \A u \in Tasks \ {t} : pc'[u] = pc[u] /\ sel'[u] = sel[u] /\ si'[u] = si[u]
        /\ UNCHANGED <<cnt, slot, row, fwd, bck, want>>
        /\ (fwd[t] = {} \/ sel' = sel)
    BY <1>T, <1>3 DEF PushResults, Expand, ReadSlot, EndExpand, Spin, EndInsert, vars,
                      task, Critical
  <2>2. ASSUME fwd[t] # {} PROVE Stored(row[t], sel[t], fwd[t])'
    <3>1. Stored(row[t], sel[t], fwd[t]) /\ UNCHANGED <<cnt, slot, row, fwd, sel>>
      BY <2>1, <2>2 DEF StoreInv
    <3> QED BY <3>1 DEF Stored
  <2>3. OthersStand(t, {})
    BY <1>U, <2>1 DEF OthersStand
  <2>4. OwnStands(t, {})
    BY <2>1, <2>2 DEF OwnStands, Critical
  <2> QED BY <1>0, <2>3, <2>4, StoreStep
<1>4. ASSUME NEW t \in Tasks, SelectNeighbors(t) PROVE StoreInv'
  <2>1. PICK list \in KeptLists(srch[t].W, [c \in srch[t].W |-> Near(t, c)]) :
          sel' = [sel EXCEPT ![t] = list] /\ fwd' = [fwd EXCEPT ![t] = 0..Len(list)]
    BY <1>4 DEF SelectNeighbors
  <2>2. /\ pc[t] = "search" /\ pc' = [pc EXCEPT ![t] = "connect"]
        /\ si' = [si EXCEPT ![t] = 1] /\ UNCHANGED <<cnt, slot, row, bck, want>>
    BY <1>4 DEF SelectNeighbors
  <2>3. sel'[t] = list /\ fwd'[t] = 0..Len(list) /\ pc'[t] = "connect" /\ fwd[t] = {}
        /\ \A u \in Tasks \ {t} : /\ pc'[u] = pc[u] /\ sel'[u] = sel[u]
                                  /\ fwd'[u] = fwd[u] /\ si'[u] = si[u]
    BY <1>T, <1>0, <2>1, <2>2 DEF RowsInv
  <2>4. Stored(row[t], sel[t], fwd[t])'
    <3>1. Len(list) \in Nat
      BY KeptListsShape
    <3> QED BY <2>3, <3>1 DEF Stored
  <2>5. OthersStand(t, {})
    BY <1>U, <2>2, <2>3 DEF OthersStand
  <2>6. OwnStands(t, {})
    BY <2>3, <2>4 DEF OwnStands, Critical
  <2> QED BY <1>0, <2>5, <2>6, StoreStep
<1>5. ASSUME NEW t \in Tasks, StoreForward(t) PROVE StoreInv'
  <2>1. PICK f \in fwd[t] : /\ StoreField(row[t], f, sel[t])
                            /\ fwd' = [fwd EXCEPT ![t] = @ \ {f}]
    BY <1>5 DEF StoreForward
  <2>2. UNCHANGED <<pc, row, sel, si, bck, want>>
    BY <1>5 DEF StoreForward
  <2>3. /\ row[t] \in Rows /\ f \in 0..Len(sel[t]) /\ f \in Fields /\ pc[t] = "connect"
        /\ Stored(row[t], sel[t], fwd[t]) /\ Len(sel[t]) <= R /\ Len(sel[t]) \in Nat
    BY <1>T, ForwardApart DEF SafetyInv, Lists, StoreInv
  <2>4. fwd'[t] = fwd[t] \ {f} /\ \A u \in Tasks \ {t} : fwd'[u] = fwd[u]
    BY <1>T, <2>1
  <2>5. Stored(row[t], sel[t], fwd[t])'
    <3>1. StoredNext(row[t], sel[t], fwd[t] \ {f})
      <4>1. sel[t] \in Seq(Rows) /\ Len(sel[t]) <= R
        BY <1>T, <2>3
      <4> QED BY <1>T, <2>1, <2>3, <4>1, StoredField
    <3> QED BY <2>2, <2>4, <3>1 DEF Stored, StoredNext
  <2>6. \A m \in Rows \ {row[t]} : cnt'[m] = cnt[m] /\ slot'[m] = slot[m]
    BY <1>T, <2>1 DEF StoreField
  <2>7. OthersStand(t, {row[t]})
    <3>1. \A u \in Tasks \ {t} : /\ fwd[u] # {} => row[u] # row[t]
                                 /\ pc[u] \in Critical => Target(u) # row[t]
      BY <1>U, <2>1, ForwardApart DEF Idle
    <3> QED BY <1>U, <2>2, <2>4, <2>6, <3>1 DEF OthersStand
  <2>8. OwnStands(t, {row[t]})
    <3>1. fwd'[t] # {} => BeingLinked(row[t])'
      BY <2>2 DEF BeingLinked
    <3>2. fwd'[t] = {} => row[t] \in Linked'
      BY <2>2, <2>3 DEF Linked, HasLinks
    <3> QED BY <2>2, <2>3, <2>5, <3>1, <3>2 DEF OwnStands, Critical
  <2> QED BY <1>0, <2>7, <2>8, StoreStep
<1>6. ASSUME NEW t \in Tasks, LockTarget(t) PROVE StoreInv'
  <2> DEFINE s == Target(t)
             old == InMemory(s)
  <2>1. /\ pc[t] = "connect" /\ fwd[t] = {} /\ s \in Rows
        /\ UNCHANGED <<cnt, slot, row, sel, si, fwd>>
    BY <1>6, TargetIsRow DEF LockTarget, ForwardDone, SafetyInv
  <2>2. Target(t)' = s
    BY <2>1 DEF Target
  <2>3. /\ old \in Seq(Rows) /\ Len(old) = cnt[s]
        /\ \A j \in 1..cnt[s] : old[j] = slot[s][j]
    BY <2>1, InMemoryShape DEF SafetyInv
  <2>4. /\ pc'[t] \in Critical /\ Stored(Target(t), want[t], bck[t])'
        /\ pc'[t] = "append" =>
             /\ bck'[t] \subseteq {0, Len(want'[t])} /\ (bck'[t] = {} \/ 0 \in bck'[t])
             /\ 0 \in bck'[t] => cnt'[Target(t)'] = Len(want'[t]) - 1
    <3>1. CASE /\ want' = [want EXCEPT ![t] = Append(old, row[t])]
               /\ bck' = [bck EXCEPT ![t] = {0, cnt[s] + 1}]
               /\ pc' = [pc EXCEPT ![t] = "append"]
      <4>1. /\ Len(Append(old, row[t])) = cnt[s] + 1 /\ cnt[s] \in Nat
            /\ \A j \in 1..cnt[s] : Append(old, row[t])[j] = slot[s][j]
        BY <1>T, <2>1, <2>3
      <4>2. want'[t] = Append(old, row[t]) /\ bck'[t] = {0, cnt[s] + 1} /\ pc'[t] = "append"
        BY <1>T, <3>1
      <4> HIDE DEF old, s
      <4>3. Stored(s, want[t], bck[t])'
        <5>1. s' = s /\ cnt' = cnt /\ slot' = slot
          BY <2>1, <2>2 DEF s
        <5>2. \A j \in 1 .. cnt[s] + 1 : j # cnt[s] + 1 => j \in 1..cnt[s]
          BY <4>1
        <5> QED BY <4>1, <4>2, <5>1, <5>2 DEF Stored
      <4> QED BY <2>1, <2>2, <4>1, <4>2, <4>3 DEF Critical, s
    <3>2. ASSUME NEW list, Len(list) \in Nat,
                 want' = [want EXCEPT ![t] = list],
                 bck' = [bck EXCEPT ![t] = 0..Len(list)],
                 pc' = [pc EXCEPT ![t] = "reprune"]
          PROVE  pc'[t] = "reprune" /\ Stored(Target(t), want[t], bck[t])'
      <4>1. want'[t] = list /\ bck'[t] = 0..Len(list) /\ pc'[t] = "reprune"
        BY <1>T, <3>2
      <4> QED BY <3>2, <4>1 DEF Stored
    <3>3. \A S, d : \A list \in KeptLists(S, d) : Len(list) \in Nat
      BY KeptListsShape
    <3> HIDE DEF old, s
    <3> QED BY <1>6, <3>1, <3>2, <3>3 DEF LockTarget, Critical, old, s
  <2>5. /\ \A u \in Tasks \ {t} : pc'[u] = pc[u] /\ bck'[u] = bck[u] /\ want'[u] = want[u]
    BY <1>T, <1>6 DEF LockTarget
  <2>6. OthersStand(t, {})
    BY <1>U, <2>1, <2>5 DEF OthersStand
  <2>7. OwnStands(t, {})
    BY <2>1, <2>4 DEF OwnStands
  <2> QED BY <1>0, <2>6, <2>7, StoreStep
<1>7. ASSUME NEW t \in Tasks, StoreBack(t) PROVE StoreInv'
  <2> DEFINE s == Target(t)
  <2>1. PICK f \in bck[t] : /\ NextStore(t, f) /\ StoreField(s, f, want[t])
                            /\ bck' = [bck EXCEPT ![t] = @ \ {f}]
    BY <1>7 DEF StoreBack
  <2>2. UNCHANGED <<pc, row, sel, si, fwd, want>>
    BY <1>7 DEF StoreBack
  <2>3. /\ pc[t] \in Critical /\ f \in 0..Len(want[t]) /\ f \in Fields
        /\ Len(want[t]) <= R /\ Len(want[t]) \in Nat
    BY <1>T DEF SafetyInv, Lists, Critical
  <2>4. s \in Rows \cap Linked /\ fwd[t] = {} /\ Stored(s, want[t], bck[t])
        /\ \A u \in Tasks \ {t} : /\ fwd[u] # {} => row[u] # s
                                  /\ pc[u] \in Critical => Target(u) # s
    BY <1>U, <2>3, TargetApart DEF StoreInv
  <2>5. bck'[t] = bck[t] \ {f} /\ \A u \in Tasks \ {t} : bck'[u] = bck[u]
    BY <1>T, <2>1
  <2>6. Target(t)' = s
    BY <2>2 DEF Target
  <2> HIDE DEF s
  <2>7. Stored(Target(t), want[t], bck[t])'
    <3>1. StoredNext(s, want[t], bck[t] \ {f})
      <4>1. s \in Rows /\ want[t] \in Seq(Rows) /\ Len(want[t]) <= R
        BY <1>T, <2>3, <2>4
      <4> QED BY <1>T, <2>1, <2>3, <2>4, <4>1, StoredField
    <3> QED BY <2>2, <2>5, <2>6, <3>1 DEF Stored, StoredNext
  <2>8. \A m \in Rows \ {s} : cnt'[m] = cnt[m] /\ slot'[m] = slot[m]
    BY <1>T, <2>1 DEF StoreField
  <2>9. OthersStand(t, {s})
    BY <1>U, <2>2, <2>4, <2>5, <2>8 DEF OthersStand
  <2>10. pc'[t] = "append" =>
           /\ bck'[t] \subseteq {0, Len(want'[t])} /\ (bck'[t] = {} \/ 0 \in bck'[t])
           /\ 0 \in bck'[t] => cnt'[Target(t)'] = Len(want'[t]) - 1
    <3> SUFFICES ASSUME pc[t] = "append"
                 PROVE  /\ bck'[t] \subseteq {0, Len(want[t])}
                        /\ bck'[t] = {} \/ 0 \in bck'[t]
                        /\ 0 \in bck'[t] => cnt'[s] = Len(want[t]) - 1
      BY <2>2, <2>6
    <3>1. bck[t] \subseteq {0, Len(want[t])} /\ (0 \in bck[t] => cnt[s] = Len(want[t]) - 1)
      BY DEF StoreInv, s
    <3>2. 0 \in bck'[t] => f # 0 /\ cnt' = cnt
      BY <2>1, <2>5 DEF StoreField
    <3>3. f = 0 => bck[t] = {0}
      BY <2>1 DEF NextStore
    <3>4. 0 \in bck[t]
      BY <2>1 DEF StoreInv
    <3> QED BY <2>5, <3>1, <3>2, <3>3, <3>4
  <2>11. OwnStands(t, {s})
    BY <1>0, <2>2, <2>4, <2>7, <2>10 DEF OwnStands
  <2> QED BY <1>0, <2>9, <2>11, StoreStep
<1>8. ASSUME NEW t \in Tasks, UnlockTarget(t) PROVE StoreInv'
  <2>1. /\ fwd[t] = {} /\ pc' = [pc EXCEPT ![t] = "connect"]
        /\ UNCHANGED <<cnt, slot, row, sel, fwd, bck>>
        /\ \A u \in Tasks \ {t} : si'[u] = si[u] /\ want'[u] = want[u]
    BY <1>T, <1>8 DEF UnlockTarget
  <2>2. pc'[t] = "connect" /\ \A u \in Tasks \ {t} : pc'[u] = pc[u]
    BY <1>T, <2>1
  <2>3. OthersStand(t, {})
    BY <1>U, <2>1, <2>2 DEF OthersStand
  <2>4. OwnStands(t, {})
    BY <2>1, <2>2 DEF OwnStands, Critical
  <2> QED BY <1>0, <2>3, <2>4, StoreStep
<1> QED
  BY <1>1, <1>2, <1>3, <1>4, <1>5, <1>6, <1>7, <1>8 DEF Next, TaskStep, Finished

-----------------------------------------------------------------------------
(* Edges.                                                                  *)

(* The row a task takes next has no links yet.                             *)
LEMMA RowToTake ==
    ASSUME SafetyInv, NEW t \in Tasks, StartInsert(t), NEW r \in RowsLeft(t)
    PROVE  r \in Rows \ Linked /\ ~BeingLinked(r)
<1>0. r \in RowRange(t) /\ r > row[t] /\ pc[t] = "next" /\ r \in Rows
  BY RangesDisjoint DEF RowsLeft, StartInsert
<1>1. row[t] \in Nat /\ r \in Nat
  BY <1>0, ConstantFacts DEF SafetyInv, TypeOK
<1>2. ~(r <= row[t])
  BY <1>0, <1>1
<1>3. r # Entry /\ r \notin built[t] /\ ~HasLinks(t) /\ fwd[t] = {}
  BY <1>0, <1>2, RangesDisjoint DEF SafetyInv, RowsInv, HasLinks
<1>4. \A u \in Tasks \ {t} : r \notin built[u] /\ (pc[u] \notin Idle => row[u] # r)
  BY <1>0, RangesDisjoint DEF SafetyInv, RowsInv
<1>5. ~BeingLinked(r)
  BY <1>3, <1>4 DEF SafetyInv, RowsInv, BeingLinked, Idle
<1> QED BY <1>0, <1>3, <1>4, <1>5 DEF Linked, HasLinks, Idle

NeighborsAreSlots ==
    \A n \in Rows : Neighbors(n) = {slot[n][i] : i \in 1..cnt[n]}

LEMMA NeighborsAreSlotsOK == TypeOK => NeighborsAreSlots
BY InMemoryShape DEF NeighborsAreSlots

(* Between two stores of a list's update no other task's edge disappears.  *)
LEMMA EdgesKept ==
    ASSUME SafetyInv, StoreInv, ~AnyStoreOrder, [Next]_vars, NEW n \in Rows,
           ~BeingLinked(n), lock[n] = Unlocked \/ pc[lock[n]] # "reprune"
    PROVE  Neighbors(n) \subseteq Neighbors(n)'
<1> USE ConstantFacts
<1>T. /\ slot \in [Rows -> [1..R -> Rows]] /\ cnt \in [Rows -> 0..R]
      /\ row \in [Tasks -> Rows] /\ want \in [Tasks -> Seq(Rows)]
  BY DEF SafetyInv, TypeOK
<1>0. ASSUME cnt'[n] = cnt[n], slot'[n] = slot[n]
      PROVE  Neighbors(n) \subseteq Neighbors(n)'
  BY <1>0 DEF Neighbors, InMemory
<1>1. ASSUME NEW t \in Tasks, StartInsert(t)
      PROVE  Neighbors(n) \subseteq Neighbors(n)'
  <2>1. PICK r \in RowsLeft(t) :
          /\ cnt' = [cnt EXCEPT ![r] = 0]
          /\ slot' = [slot EXCEPT ![r] = [i \in 1..R |-> 0]]
    BY <1>1 DEF StartInsert
  <2>2. CASE n = r
    <3>1. cnt[n] = 0
      BY <1>1, <2>2, RowToTake DEF StoreInv
    <3> QED BY <3>1, InMemoryShape DEF SafetyInv
  <2>3. CASE n # r
    BY <1>0, <2>1, <2>3, <1>T
  <2> QED BY <2>2, <2>3
<1>2. ASSUME NEW t \in Tasks, StoreForward(t)
      PROVE  Neighbors(n) \subseteq Neighbors(n)'
  <2>1. n # row[t] /\ \E f : StoreField(row[t], f, sel[t])
    BY <1>2 DEF StoreForward, BeingLinked
  <2> QED BY <1>T, <1>0, <2>1 DEF StoreField
<1>3. ASSUME NEW t \in Tasks, StoreBack(t)
      PROVE  Neighbors(n) \subseteq Neighbors(n)'
  <2>1. PICK f \in bck[t] : NextStore(t, f) /\ StoreField(Target(t), f, want[t])
    BY <1>3 DEF StoreBack
  <2>2. pc[t] \in Critical
    BY DEF SafetyInv, Lists, Critical
  <2>3. CASE n # Target(t)
    BY <1>T, <1>0, <2>1, <2>3 DEF StoreField
  <2>4. CASE n = Target(t)
    <3>1. pc[t] = "append"
      BY <2>2, <2>4, TargetApart DEF Critical
    <3>2. /\ 0 \in bck[t] /\ bck[t] \subseteq {0, Len(want[t])}
          /\ cnt[n] = Len(want[t]) - 1 /\ cnt[n] \in 0..R /\ Len(want[t]) \in Nat
      BY <1>T, <2>1, <2>4, <3>1 DEF StoreInv
    <3>3. \A i \in 1..cnt[n] : i \in 1..R /\ i # Len(want[t])
      BY <3>2
    <3>4. /\ \A i \in 1..cnt[n] : slot'[n][i] = slot[n][i]
          /\ cnt'[n] \in {cnt[n], cnt[n] + 1}
      <4>1. CASE f = 0
        BY <1>T, <2>1, <2>4, <3>2, <4>1 DEF StoreField
      <4>2. CASE f # 0
        <5>1. f = Len(want[t]) /\ cnt' = cnt /\ slot' = [slot EXCEPT ![n][f] = want[t][f]]
          BY <2>1, <2>4, <3>2, <4>2 DEF StoreField
        <5> QED BY <1>T, <3>3, <5>1
      <4> QED BY <4>1, <4>2
    <3>5. Neighbors(n) = {slot[n][i] : i \in 1..cnt[n]}
      BY InMemoryShape DEF SafetyInv
    <3>6. Neighbors(n)' = {slot'[n][i] : i \in 1..cnt'[n]}
      <4>1. TypeOK'
        BY TypeInductive DEF SafetyInv
      <4>2. NeighborsAreSlots'
        BY <4>1, NeighborsAreSlotsOK, PTL
      <4> QED BY <4>2 DEF NeighborsAreSlots
    <3>7. \A i \in 1..cnt[n] : i \in 1..cnt'[n]
      BY <3>2, <3>4
    <3> QED BY <3>4, <3>5, <3>6, <3>7
  <2> QED BY <2>3, <2>4
<1>4. CASE UNCHANGED <<cnt, slot>>
  BY <1>0, <1>4
<1>5. \/ UNCHANGED <<cnt, slot>>
      \/ \E t \in Tasks : StartInsert(t) \/ StoreForward(t) \/ StoreBack(t)
  BY ZenonT(40) DEF Next, TaskStep, Finished, vars, task, LeaderInsertEntry, FinishEvent, PushResults,
         Expand, ReadSlot, EndExpand, SelectNeighbors, Spin, LockTarget, UnlockTarget,
         EndInsert
<1> QED BY <1>1, <1>2, <1>3, <1>4, <1>5

StoringInv == SafetyInv /\ StoreInv

LEMMA StoringInvariant == ASSUME ~AnyStoreOrder PROVE Spec => []StoringInv
<1>1. Init => StoreInv
  BY StoreInit
<1>2. SafetyInv /\ SafetyInv' /\ StoreInv /\ [Next]_vars => StoreInv'
  BY StoreInductive
<1>3. Spec => []SafetyInv
  BY SafetyInvariant
<1> QED BY <1>1, <1>2, <1>3, PTL DEF Spec, StoringInv

(* With the stores in program order, whatever the tasks' interleaving, an  *)
(* edge in memory disappears only in the re-prune of a full list.          *)
THEOREM EdgesLostToReprune ==
    ASSUME ~AnyStoreOrder PROVE Spec => EdgesLostOnlyToReprune
<1>1. ASSUME StoringInv, [Next]_vars
      PROVE  [\A n \in Rows :
                ~BeingLinked(n) /\ ~(Neighbors(n) \subseteq Neighbors(n)')
                  => lock[n] # Unlocked /\ pc[lock[n]] = "reprune"]_vars
  BY <1>1, EdgesKept DEF StoringInv
<1>2. Spec => []StoringInv
  BY StoringInvariant
<1> QED BY <1>1, <1>2, PTL DEF Spec, EdgesLostOnlyToReprune

-----------------------------------------------------------------------------
(* The tasks' progress.                                                    *)

LEMMA WorkInit == Init => WorkInv
<1> SUFFICES ASSUME Init PROVE WorkInv
  OBVIOUS
<1>1. ASSUME NEW t \in Tasks, NEW r \in RowRange(t) PROVE ~(r < 0) /\ r # 0
  <2>1. r \in Nat /\ r # Entry
    BY RangesDisjoint, ConstantFacts
  <2> QED BY <2>1 DEF Entry
<1> QED BY <1>1 DEF Init, WorkInv

(* A step of a task that neither takes a row nor ends an insert.           *)
LEMMA WorkSame ==
    ASSUME WorkInv, phase = "build", UNCHANGED <<phase, row, built>>, NEW t \in Tasks,
           pc[t] \notin Idle, pc'[t] \notin Idle,
           \A u \in Tasks \ {t} : pc'[u] = pc[u]
    PROVE  WorkInv'
<1>1. \A u \in Tasks : pc'[u] \in Idle => u # t /\ pc[u] = pc'[u]
  OBVIOUS
<1>2. \A u \in Tasks : RowsLeft(u)' = RowsLeft(u)
  BY DEF RowsLeft
<1>3. \A u \in Tasks : pc'[u] = "pushed" => pc[u] = "pushed"
  BY <1>1 DEF Idle
<1> QED BY <1>1, <1>2, <1>3 DEF WorkInv

LEMMA BuildRuns ==
    ASSUME TypeOK, WorkInv, NEW t \in Tasks, pc[t] \notin Idle
    PROVE  phase = "build"
BY DEF TypeOK, WorkInv, Idle

LEMMA WorkInductive ==
    ASSUME SafetyInv, WorkInv, ~AnyStoreOrder, [Next]_vars
    PROVE  WorkInv'
<1> USE ConstantFacts
<1>T. /\ pc \in [Tasks -> Locations] /\ row \in [Tasks -> Rows]
      /\ built \in [0..NumTasks -> SUBSET Rows] /\ phase \in {"schedule", "build", "finished"}
      /\ Tasks = (0..NumTasks) \ {0} /\ 0 \in 0..NumTasks
  BY DEF SafetyInv, TypeOK, Tasks
<1>1. CASE LeaderInsertEntry
  <2>1. /\ phase = "schedule" /\ phase' = "build" /\ UNCHANGED <<pc, row>>
        /\ built' = [built EXCEPT ![0] = {Entry}]
    BY <1>1 DEF LeaderInsertEntry, task
  <2>2. built'[0] = {Entry} /\ \A t \in Tasks : built'[t] = built[t] /\ RowsLeft(t)' = RowsLeft(t)
    BY <1>T, <2>1 DEF RowsLeft
  <2> QED BY <2>1, <2>2 DEF WorkInv
<1>2. ASSUME NEW t \in Tasks, StartInsert(t) PROVE WorkInv'
  <2>1. PICK r \in RowsLeft(t) :
          IsFirst(r, RowsLeft(t)) /\ row' = [row EXCEPT ![t] = r]
    BY <1>2 DEF StartInsert
  <2>2. /\ pc[t] = "next" /\ pc' = [pc EXCEPT ![t] = "search"]
        /\ phase = "build" /\ UNCHANGED <<phase, built>>
    BY <1>2 DEF StartInsert
  <2>3. ASSUME NEW q \in RowRange(t), q < r PROVE q \in built[t]
    <3>1. q \in Nat /\ r \in Nat /\ row[t] \in Nat
      BY <1>T, RangesDisjoint DEF RowsLeft
    <3>2. ~(q > row[t])
      BY <2>1, <2>3, <3>1 DEF IsFirst, RowsLeft
    <3>3. q < row[t] \/ q = row[t]
      BY <3>1, <3>2
    <3> QED BY <2>2, <3>3 DEF WorkInv, Idle
  <2>4. /\ row'[t] = r /\ pc'[t] = "search" /\ built'[t] = built[t]
        /\ \A u \in Tasks \ {t} : /\ row'[u] = row[u] /\ pc'[u] = pc[u]
                                  /\ built'[u] = built[u] /\ RowsLeft(u)' = RowsLeft(u)
    BY <1>T, <2>1, <2>2 DEF RowsLeft
  <2>5. \A u \in Tasks : \A q \in RowRange(u) :
          q < row'[u] \/ (q = row'[u] /\ pc'[u] \in Idle) => q \in built'[u]
    BY <2>3, <2>4 DEF WorkInv, Idle
  <2> QED BY <2>2, <2>4, <2>5 DEF WorkInv
<1>3. ASSUME NEW t \in Tasks, PushResults(t) PROVE WorkInv'
  <2>1. /\ pc[t] = "next" /\ RowsLeft(t) = {} /\ pc' = [pc EXCEPT ![t] = "pushed"]
        /\ phase = "build" /\ UNCHANGED <<phase, row, built>>
    BY <1>3 DEF PushResults
  <2>2. /\ pc'[t] = "pushed" /\ \A u \in Tasks \ {t} : pc'[u] = pc[u]
        /\ \A u \in Tasks : RowsLeft(u)' = RowsLeft(u)
    BY <1>T, <2>1 DEF RowsLeft
  <2> QED BY <2>1, <2>2 DEF WorkInv, Idle
<1>4. ASSUME NEW t \in Tasks, EndInsert(t) PROVE WorkInv'
  <2>1. /\ pc[t] = "connect" /\ pc' = [pc EXCEPT ![t] = "next"]
        /\ built' = [built EXCEPT ![t] = @ \cup {row[t]}]
        /\ UNCHANGED <<phase, row>>
    BY <1>4 DEF EndInsert
  <2>2. phase = "build"
    BY <2>1, BuildRuns DEF Idle, SafetyInv
  <2>3. /\ pc'[t] = "next" /\ built'[t] = built[t] \cup {row[t]} /\ built'[0] = built[0]
        /\ \A u \in Tasks \ {t} : pc'[u] = pc[u] /\ built'[u] = built[u]
        /\ \A u \in Tasks : RowsLeft(u)' = RowsLeft(u)
    BY <1>T, <2>1 DEF RowsLeft
  <2>4. \A u \in Tasks : \A q \in RowRange(u) :
          q < row'[u] \/ (q = row'[u] /\ pc'[u] \in Idle) => q \in built'[u]
    BY <2>1, <2>3 DEF WorkInv
  <2> QED BY <2>1, <2>2, <2>3, <2>4 DEF WorkInv
<1>5. ASSUME NEW t \in Tasks,
             \/ Expand(t) \/ ReadSlot(t) \/ EndExpand(t) \/ SelectNeighbors(t)
             \/ LockTarget(t) \/ StoreBack(t) \/ UnlockTarget(t) \/ StoreForward(t)
      PROVE  WorkInv'
  <2>1. /\ UNCHANGED <<phase, row, built>> /\ \A u \in Tasks \ {t} : pc'[u] = pc[u]
    BY <1>T, <1>5 DEF Expand, ReadSlot, EndExpand, SelectNeighbors, LockTarget, StoreBack,
                      UnlockTarget, StoreForward
  <2>2. pc[t] \notin Idle
    <3>1. CASE StoreBack(t) \/ StoreForward(t)
      BY <3>1 DEF StoreBack, StoreForward, SafetyInv, Lists, RowsInv, Idle
    <3> QED BY <1>5, <3>1 DEF Expand, ReadSlot, EndExpand, SelectNeighbors, LockTarget,
                              UnlockTarget, Idle
  <2>3. pc'[t] \notin Idle
    BY <1>T, <1>5, <2>2 DEF Expand, ReadSlot, EndExpand, SelectNeighbors, LockTarget,
                      StoreBack, UnlockTarget, StoreForward, Idle
  <2>4. phase = "build"
    BY <2>2, BuildRuns DEF SafetyInv
  <2> QED BY <2>1, <2>2, <2>3, <2>4, WorkSame
<1>6. CASE FinishEvent
  <2>1. /\ \A t \in Tasks : pc[t] = "pushed" /\ RowsLeft(t)' = RowsLeft(t)
        /\ phase = "build" /\ phase' = "finished" /\ UNCHANGED <<pc, row, built>>
    BY <1>6 DEF FinishEvent, task, RowsLeft
  <2> QED BY <2>1 DEF WorkInv
<1>7. CASE UNCHANGED vars
  <2>1. UNCHANGED <<phase, pc, row, built, cnt>>
    BY <1>7 DEF vars, task
  <2>2. \A t \in Tasks : RowsLeft(t)' = RowsLeft(t)
    BY <2>1 DEF RowsLeft
  <2> QED BY <2>1, <2>2 DEF WorkInv
<1> QED
  BY <1>1, <1>2, <1>3, <1>4, <1>5, <1>6, <1>7 DEF Next, TaskStep, Spin, Finished

-----------------------------------------------------------------------------
(* The list a node has, or gets.                                           *)

ListsAre ==
    \A n \in Rows :
        /\ \A t \in Tasks : pc[t] \in Critical /\ Target(t) = n => ListOf(n) = want[t]
        /\ \A t \in Tasks : fwd[t] # {} /\ row[t] = n => ListOf(n) = sel[t]
        /\ lock[n] = Unlocked /\ ~BeingLinked(n) => ListOf(n) = InMemory(n)
        /\ ListOf(n) \in Seq(Rows) /\ Len(ListOf(n)) <= R
        /\ Listed(ListOf(n)) \subseteq Linked

LEMMA ListsOfNodes == StoringInv => ListsAre
<1> SUFFICES ASSUME StoringInv, NEW n \in Rows
             PROVE  /\ \A t \in Tasks :
                         pc[t] \in Critical /\ Target(t) = n => ListOf(n) = want[t]
                    /\ \A t \in Tasks : fwd[t] # {} /\ row[t] = n => ListOf(n) = sel[t]
                    /\ lock[n] = Unlocked /\ ~BeingLinked(n) => ListOf(n) = InMemory(n)
                    /\ ListOf(n) \in Seq(Rows) /\ Len(ListOf(n)) <= R
                    /\ Listed(ListOf(n)) \subseteq Linked
  BY DEF ListsAre
<1>0. SafetyInv /\ TypeOK
  BY DEF StoringInv, SafetyInv
<1>1. ASSUME NEW t \in Tasks, pc[t] \in Critical, Target(t) = n
      PROVE  ListOf(n) = want[t]
  BY <1>0, <1>1, TargetApart, ConstantFacts DEF ListOf
<1>2. ASSUME NEW t \in Tasks, fwd[t] # {}, row[t] = n
      PROVE  ListOf(n) = sel[t]
  <2>1. lock[n] = Unlocked
    BY <1>0, <1>2, ForwardApart
  <2>2. \A u \in Tasks : row[u] = n /\ fwd[u] # {} => u = t
    BY <1>0, <1>2, ForwardApart DEF Idle
  <2>3. (CHOOSE u \in Tasks : row[u] = n /\ fwd[u] # {}) = t
    BY <1>2, <2>2
  <2> QED BY <1>2, <2>1, <2>3 DEF ListOf
<1>3. ASSUME lock[n] = Unlocked, ~BeingLinked(n) PROVE ListOf(n) = InMemory(n)
  BY <1>3 DEF ListOf, BeingLinked
<1>4. /\ ListOf(n) \in Seq(Rows) /\ Len(ListOf(n)) <= R /\ Listed(ListOf(n)) \subseteq Linked
  <2>1. CASE lock[n] # Unlocked
    <3>1. PICK t \in Tasks : lock[n] = t
      BY <1>0, <2>1 DEF TypeOK
    <3>2. pc[t] \in Critical /\ Target(t) = n
      BY <1>0, <3>1 DEF SafetyInv, Mutex
    <3>3. ListOf(n) = want[t]
      BY <1>1, <3>2
    <3>4. want[t] \in Seq(Rows) /\ Len(want[t]) <= R
      BY <1>0 DEF TypeOK, SafetyInv, Lists
    <3>5. Listed(want[t]) \subseteq Linked
      BY <1>0 DEF SafetyInv, LinkInv, Within
    <3> QED BY <3>3, <3>4, <3>5
  <2>2. ASSUME NEW t \in Tasks, fwd[t] # {}, row[t] = n
        PROVE  /\ ListOf(n) \in Seq(Rows) /\ Len(ListOf(n)) <= R
               /\ Listed(ListOf(n)) \subseteq Linked
    <3>1. ListOf(n) = sel[t]
      BY <1>2, <2>2
    <3>2. sel[t] \in Seq(Rows) /\ Len(sel[t]) <= R
      BY <1>0 DEF TypeOK, SafetyInv, Lists
    <3>3. Listed(sel[t]) \subseteq Linked
      BY <1>0 DEF SafetyInv, LinkInv, Within
    <3> QED BY <3>1, <3>2, <3>3
  <2>3. CASE lock[n] = Unlocked /\ ~BeingLinked(n)
    <3>1. ListOf(n) = InMemory(n) /\ Listed(InMemory(n)) = Neighbors(n)
      BY <1>3, <2>3 DEF Neighbors
    <3>2. cnt[n] \in 0..R /\ \A i \in 1..R : slot[n][i] \in Linked
      BY <1>0 DEF TypeOK, SafetyInv, LinkInv
    <3>3. \A i \in 1..cnt[n] : i \in 1..R
      BY <3>2, ConstantFacts
    <3>4. InMemory(n) \in Seq(Rows) /\ Len(InMemory(n)) = cnt[n]
      BY <1>0, InMemoryShape
    <3>5. Neighbors(n) = {slot[n][i] : i \in 1..cnt[n]}
      BY <1>0, InMemoryShape
    <3>6. Neighbors(n) \subseteq Linked
      BY <3>2, <3>3, <3>5
    <3> QED BY <3>1, <3>2, <3>4, <3>6, ConstantFacts
  <2> QED BY <2>1, <2>2, <2>3 DEF BeingLinked
<1> QED BY <1>1, <1>2, <1>3, <1>4

(* Memory that holds all of a list is that list.                           *)
LEMMA AllStored ==
    ASSUME TypeOK, NEW n \in Rows, NEW list \in Seq(Rows), Stored(n, list, {})
    PROVE  InMemory(n) = list
<1>1. /\ InMemory(n) \in Seq(Rows) /\ Len(InMemory(n)) = Len(list)
      /\ \A i \in 1..Len(list) : InMemory(n)[i] = list[i]
  BY InMemoryShape DEF Stored
<1> QED BY <1>1, SeqEqual

AllStoredAnywhere ==
    \A n \in Rows, list \in Seq(Rows) : Stored(n, list, {}) => InMemory(n) = list

LEMMA AllStoredIsList == TypeOK => AllStoredAnywhere
BY AllStored DEF AllStoredAnywhere

(* A node's list does not change when neither its memory at rest nor the   *)
(* list that is being stored there does.                                   *)
NodeStands(n) ==
    /\ lock'[n] = lock[n]
    /\ \A u \in Tasks : lock[n] = u => want'[u] = want[u]
    /\ \A u \in Tasks : fwd[u] # {} /\ row[u] = n =>
         fwd'[u] # {} /\ row'[u] = n /\ sel'[u] = sel[u]
    /\ \A u \in Tasks : fwd'[u] # {} /\ row'[u] = n => fwd[u] # {} /\ row[u] = n
    /\ lock[n] = Unlocked /\ ~BeingLinked(n) =>
         cnt'[n] = cnt[n] /\ slot'[n] = slot[n]

LEMMA SameList ==
    ASSUME StoringInv, StoringInv', NEW n \in Rows, NodeStands(n)
    PROVE  ListOf(n)' = ListOf(n)
<1>1. ListsAre /\ ListsAre'
  BY ListsOfNodes, PTL
<1>2. CASE lock[n] # Unlocked
  <2>1. PICK u \in Tasks : lock[n] = u
    BY <1>2 DEF StoringInv, SafetyInv, TypeOK
  <2>2. lock'[n] = u /\ want'[u] = want[u]
    BY <2>1 DEF NodeStands
  <2>3. ListOf(n) = want[u] /\ ListOf(n)' = want'[u]
    BY <1>2, <2>1, <2>2 DEF ListOf
  <2> QED BY <2>2, <2>3
<1>3. ASSUME NEW u \in Tasks, fwd[u] # {}, row[u] = n PROVE ListOf(n)' = ListOf(n)
  <2>1. fwd'[u] # {} /\ row'[u] = n /\ sel'[u] = sel[u]
    BY <1>3 DEF NodeStands
  <2>2. ListOf(n) = sel[u] /\ ListOf(n)' = sel'[u]
    BY <1>1, <1>3, <2>1 DEF ListsAre
  <2> QED BY <2>1, <2>2
<1>4. CASE lock[n] = Unlocked /\ ~BeingLinked(n)
  <2>1. lock'[n] = Unlocked /\ ~BeingLinked(n)'
    BY <1>4 DEF BeingLinked, NodeStands
  <2>2. InMemory(n)' = InMemory(n)
    BY <1>4 DEF InMemory, NodeStands
  <2>3. ListOf(n)' = InMemory(n)'
    BY <1>1, <2>1 DEF ListsAre
  <2> QED BY <1>1, <1>4, <2>2, <2>3 DEF ListsAre
<1> QED BY <1>2, <1>3, <1>4 DEF BeingLinked

(* The list of a node changes only when a task decides a new one: the      *)
(* search's result, or the target's list with the back-edge.               *)
LEMMA ListsStand ==
    ASSUME StoringInv, StoringInv', ~AnyStoreOrder, [Next]_vars, NEW n \in Rows,
           \A t \in Tasks : ~(SelectNeighbors(t) /\ n = row[t])
                              /\ ~(LockTarget(t) /\ n = Target(t))
    PROVE  ListOf(n)' = ListOf(n)
<1> USE ConstantFacts
<1>0. SafetyInv /\ StoreInv /\ TypeOK /\ ListsAre /\ ListsAre' /\ AllStoredAnywhere'
      /\ SafetyInv'
  BY ListsOfNodes, AllStoredIsList, PTL DEF StoringInv, SafetyInv
<1>T. /\ pc \in [Tasks -> Locations] /\ row \in [Tasks -> Rows]
      /\ sel \in [Tasks -> Seq(Rows)] /\ want \in [Tasks -> Seq(Rows)]
      /\ fwd \in [Tasks -> SUBSET Fields] /\ bck \in [Tasks -> SUBSET Fields]
      /\ lock \in [Rows -> Tasks \cup {Unlocked}]
      /\ slot \in [Rows -> [1..R -> Rows]] /\ cnt \in [Rows -> 0..R]
  BY <1>0 DEF TypeOK
<1>1. CASE UNCHANGED <<cnt, slot, lock, row, sel, fwd, want>>
  BY <1>1 DEF ListOf, InMemory
<1>2. ASSUME NEW t \in Tasks, StartInsert(t) PROVE ListOf(n)' = ListOf(n)
  <2>1. PICK r \in RowsLeft(t) :
          /\ row' = [row EXCEPT ![t] = r] /\ cnt' = [cnt EXCEPT ![r] = 0]
          /\ slot' = [slot EXCEPT ![r] = [i \in 1..R |-> 0]]
    BY <1>2 DEF StartInsert
  <2>2. /\ pc[t] = "next" /\ fwd[t] = {} /\ UNCHANGED <<lock, sel, fwd, want>>
    BY <1>0, <1>2 DEF StartInsert, SafetyInv, RowsInv
  <2>3. \A u \in Tasks : row'[u] = IF u = t THEN r ELSE row[u]
    BY <1>T, <2>1
  <2>4. CASE n # r
    BY <1>T, <2>1, <2>2, <2>3, <2>4, SameList DEF NodeStands, BeingLinked
  <2>5. CASE n = r
    <3>1. ~BeingLinked(n) /\ n \notin Linked
      BY <1>2, <2>1, <2>5, RowToTake DEF StoringInv
    <3>2. lock[n] = Unlocked
      <4>1. \A u \in Tasks : lock[n] # u
        <5> SUFFICES ASSUME NEW u \in Tasks, lock[n] = u PROVE FALSE
          OBVIOUS
        <5>1. pc[u] \in Critical /\ Target(u) = n
          BY <1>0 DEF SafetyInv, Mutex
        <5> QED BY <1>0, <3>1, <5>1, TargetApart
      <4> QED BY <1>T, <4>1
    <3>3. ListOf(n) = InMemory(n) /\ cnt[n] = 0
      BY <1>0, <3>1, <3>2 DEF ListsAre, StoreInv
    <3>4. ~BeingLinked(n)' /\ lock'[n] = Unlocked
      BY <2>2, <2>3, <3>1, <3>2 DEF BeingLinked
    <3>5. ListOf(n)' = InMemory(n)' /\ cnt'[n] = 0
      BY <1>0, <1>T, <2>1, <2>5, <3>4 DEF ListsAre
    <3>6. Stored(n, <<>>, {})' /\ Stored(n, <<>>, {})
      BY <3>3, <3>5 DEF Stored
    <3>7. InMemory(n)' = <<>> /\ InMemory(n) = <<>>
      <4>1. AllStoredAnywhere /\ <<>> \in Seq(Rows)
        BY <1>0, AllStoredIsList
      <4> QED BY <1>0, <3>6, <4>1 DEF AllStoredAnywhere
    <3> QED BY <3>3, <3>5, <3>7
  <2> QED BY <2>4, <2>5
<1>3. ASSUME NEW t \in Tasks, SelectNeighbors(t) PROVE ListOf(n)' = ListOf(n)
  <2>1. /\ pc[t] = "search" /\ fwd[t] = {} /\ n # row[t]
        /\ UNCHANGED <<cnt, slot, lock, row, want>>
    BY <1>0, <1>3 DEF SelectNeighbors, SafetyInv, RowsInv
  <2>2. \A u \in Tasks \ {t} : fwd'[u] = fwd[u] /\ sel'[u] = sel[u]
    BY <1>T, <1>3 DEF SelectNeighbors
  <2>3. NodeStands(n)
    BY <2>1, <2>2 DEF NodeStands
  <2> QED BY <2>3, SameList
<1>4. ASSUME NEW t \in Tasks, StoreForward(t) PROVE ListOf(n)' = ListOf(n)
  <2>1. PICK f \in fwd[t] : /\ StoreField(row[t], f, sel[t])
                            /\ fwd' = [fwd EXCEPT ![t] = @ \ {f}]
    BY <1>4 DEF StoreForward
  <2>2. UNCHANGED <<pc, row, sel, lock, want>>
    BY <1>4 DEF StoreForward
  <2>3. fwd'[t] = fwd[t] \ {f} /\ \A u \in Tasks \ {t} : fwd'[u] = fwd[u]
    BY <1>T, <2>1
  <2>4. \A m \in Rows \ {row[t]} : cnt'[m] = cnt[m] /\ slot'[m] = slot[m]
    BY <1>T, <2>1 DEF StoreField
  <2>5. CASE n # row[t]
    <3>1. NodeStands(n)
      BY <2>2, <2>3, <2>4, <2>5 DEF NodeStands
    <3> QED BY <3>1, SameList
  <2>6. CASE n = row[t] /\ fwd'[t] # {}
    <3>1. ListOf(n) = sel[t] /\ row'[t] = n /\ sel'[t] = sel[t]
      BY <1>0, <2>1, <2>2, <2>6 DEF ListsAre
    <3>2. ListOf(n)' = sel'[t]
      BY <1>0, <2>6, <3>1 DEF ListsAre
    <3> QED BY <3>1, <3>2
  <2>7. CASE n = row[t] /\ fwd'[t] = {}
    <3>1. /\ lock[n] = Unlocked /\ sel[t] \in Seq(Rows)
          /\ \A u \in Tasks \ {t} : fwd[u] # {} => row[u] # n
      BY <1>0, <1>T, <2>1, <2>7, ForwardApart DEF Idle
    <3>2. ListOf(n)' = InMemory(n)'
      <4>1. ~BeingLinked(n)' /\ lock'[n] = Unlocked
        BY <2>2, <2>3, <2>7, <3>1 DEF BeingLinked
      <4> QED BY <1>0, <4>1 DEF ListsAre
    <3>3. Stored(n, sel[t], {})'
      <4>1. /\ sel[t] \in Seq(Rows) /\ Len(sel[t]) <= R /\ f \in 0..Len(sel[t])
            /\ Stored(row[t], sel[t], fwd[t])
        BY <1>0, <1>T DEF SafetyInv, Lists, StoreInv
      <4>2. StoredNext(row[t], sel[t], fwd[t] \ {f})
        BY <1>T, <2>1, <4>1, StoredField
      <4> QED BY <2>2, <2>3, <2>7, <4>2 DEF Stored, StoredNext
    <3>4. InMemory(n)' = sel'[t]
      BY <1>0, <2>2, <3>1, <3>3 DEF AllStoredAnywhere
    <3> QED BY <1>0, <2>1, <2>2, <2>7, <3>2, <3>4 DEF ListsAre
  <2> QED BY <2>5, <2>6, <2>7
<1>5. ASSUME NEW t \in Tasks, LockTarget(t) PROVE ListOf(n)' = ListOf(n)
  <2>1. /\ Target(t) \in Rows /\ n # Target(t) /\ pc[t] = "connect"
        /\ lock' = [lock EXCEPT ![Target(t)] = t]
        /\ UNCHANGED <<cnt, slot, row, sel, fwd>>
    BY <1>0, <1>5, TargetIsRow DEF LockTarget, SafetyInv
  <2>2. lock[n] # t
    BY <1>0, <2>1 DEF SafetyInv, Mutex, Critical
  <2>3. \A u \in Tasks \ {t} : want'[u] = want[u]
    BY <1>T, <1>5 DEF LockTarget
  <2>4. NodeStands(n)
    BY <1>T, <2>1, <2>2, <2>3 DEF NodeStands
  <2> QED BY <2>4, SameList
<1>6. ASSUME NEW t \in Tasks, StoreBack(t) PROVE ListOf(n)' = ListOf(n)
  <2>1. PICK f \in bck[t] : StoreField(Target(t), f, want[t])
    BY <1>6 DEF StoreBack
  <2>2. UNCHANGED <<row, sel, fwd, lock, want>> /\ pc[t] \in Critical
    BY <1>0, <1>6 DEF StoreBack, SafetyInv, Lists, Critical
  <2>3. n # Target(t) => cnt'[n] = cnt[n] /\ slot'[n] = slot[n]
    BY <1>T, <2>1 DEF StoreField
  <2>4. n = Target(t) => lock[n] # Unlocked
    BY <1>0, <2>2, TargetApart
  <2>5. NodeStands(n)
    BY <2>2, <2>3, <2>4 DEF NodeStands
  <2> QED BY <2>5, SameList
<1>7. ASSUME NEW t \in Tasks, UnlockTarget(t) PROVE ListOf(n)' = ListOf(n)
  <2>1. /\ pc[t] \in Critical /\ bck[t] = {} /\ lock' = [lock EXCEPT ![Target(t)] = Unlocked]
        /\ UNCHANGED <<cnt, slot, row, sel, fwd>>
        /\ \A u \in Tasks \ {t} : want'[u] = want[u]
    BY <1>T, <1>7 DEF UnlockTarget, Released, Critical
  <2>2. /\ Target(t) \in Rows /\ lock[Target(t)] = t
        /\ \A u \in Tasks : fwd[u] # {} => row[u] # Target(t)
    BY <1>0, <2>1, TargetApart
  <2>3. CASE n # Target(t)
    <3>1. lock[n] # t
      BY <1>0, <2>3 DEF SafetyInv, Mutex
    <3>2. NodeStands(n)
      BY <1>T, <2>1, <2>2, <2>3, <3>1 DEF NodeStands
    <3> QED BY <3>2, SameList
  <2>4. CASE n = Target(t)
    <3>1. lock'[n] = Unlocked /\ ~BeingLinked(n)'
      BY <1>T, <2>1, <2>2, <2>4 DEF BeingLinked
    <3>2. ListOf(n)' = InMemory(n)' /\ InMemory(n)' = InMemory(n)
      BY <1>0, <2>1, <3>1 DEF ListsAre, InMemory
    <3>3. Stored(n, want[t], {}) /\ want[t] \in Seq(Rows)
      <4>1. Stored(Target(t), want[t], bck[t])
        BY <1>0, <2>1 DEF StoreInv
      <4> QED BY <1>T, <2>1, <2>4, <4>1
    <3>4. InMemory(n) = want[t]
      BY <1>0, <3>3, AllStored
    <3>5. ListOf(n) = want[t]
      BY <1>0, <2>1, <2>4 DEF ListsAre
    <3> QED BY <3>2, <3>4, <3>5
  <2> QED BY <2>3, <2>4
<1>8. ASSUME NEW t \in Tasks, EndInsert(t) PROVE ListOf(n)' = ListOf(n)
  <2>1. /\ fwd[t] = {} /\ UNCHANGED <<cnt, slot, lock, row, fwd, want>>
        /\ \A u \in Tasks \ {t} : sel'[u] = sel[u]
    BY <1>T, <1>8 DEF EndInsert
  <2>2. NodeStands(n)
    BY <2>1 DEF NodeStands
  <2> QED BY <2>2, SameList
<1>9. CASE \/ LeaderInsertEntry \/ FinishEvent \/ UNCHANGED vars
           \/ \E t \in Tasks : PushResults(t) \/ Expand(t) \/ ReadSlot(t)
                                 \/ EndExpand(t) \/ Spin(t)
  <2>1. UNCHANGED <<cnt, slot, lock, row, sel, fwd, want>>
    BY <1>9 DEF LeaderInsertEntry, FinishEvent, PushResults, Expand, ReadSlot,
                EndExpand, Spin, vars, task
  <2> QED BY <1>1, <2>1
<1> QED
  BY <1>2, <1>3, <1>4, <1>5, <1>6, <1>7, <1>8, <1>9 DEF Next, TaskStep, Finished

-----------------------------------------------------------------------------
(* Lists are simple, and not empty.                                        *)

LEMMA KeptListsSimple ==
    ASSUME NEW S, NEW d, NEW list \in KeptLists(S, d)
    PROVE  /\ \A i, j \in 1..Len(list) : i # j => list[i] # list[j]
           /\ S # {} => list # <<>>
<1>1. PICK k \in 0..R : /\ list \in [1..k -> S]
                        /\ \A i, j \in 1..k : i # j => list[i] # list[j]
  BY PruneAssumption DEF KeptLists, InjectiveLists
<1>2. Len(list) = k
  BY <1>1, PruneAssumption
<1>3. ASSUME NEW c \in S, list = <<>> PROVE FALSE
  <2>1. Len(list) = 0 /\ c \notin Listed(list)
    BY <1>3 DEF Listed
  <2>2. \/ \E i \in 1..Len(list) : d[list[i]] <= d[c] /\ Removes(list[i], c, d)
        \/ Len(list) = R
    BY <2>1 DEF KeptLists, IsPruned
  <2> QED BY <2>1, <2>2, PruneAssumption
<1> QED BY <1>1, <1>2, <1>3

(* Only the last store of a forward list links a node.                     *)
LEMMA NewLinks ==
    ASSUME SafetyInv, ~AnyStoreOrder, [Next]_vars, NEW n \in Linked', n \notin Linked
    PROVE  \E t \in Tasks : StoreForward(t) /\ fwd'[t] = {} /\ n = row[t]
<1> USE ConstantFacts
<1>T. /\ pc \in [Tasks -> Locations] /\ fwd \in [Tasks -> SUBSET Fields]
      /\ row \in [Tasks -> Rows] /\ built \in [0..NumTasks -> SUBSET Rows]
      /\ Tasks \subseteq 0..NumTasks /\ 0 \notin Tasks
  BY DEF SafetyInv, TypeOK, Tasks
<1>1. ASSUME NEW t \in Tasks, n \in built'[t] PROVE FALSE
  <2>1. n \notin built[t] /\ n \in Rows
    BY DEF Linked
  <2>2. ~LeaderInsertEntry /\ built' # built
    BY <1>1, <1>T, <2>1 DEF LeaderInsertEntry
  <2>3. PICK u \in Tasks : EndInsert(u)
    BY ZenonT(40), <2>2 DEF Next, TaskStep, Finished, vars, task, StartInsert, PushResults, Expand,
                ReadSlot, EndExpand, SelectNeighbors, StoreForward, Spin, LockTarget,
                StoreBack, UnlockTarget, FinishEvent
  <2>4. n = row[u] /\ HasLinks(u)
    BY <1>1, <1>T, <2>1, <2>3 DEF EndInsert, HasLinks
  <2> QED BY <2>1, <2>4 DEF Linked
<1>2. PICK t \in Tasks : n = row'[t] /\ HasLinks(t)' /\ n \in Rows
  BY <1>1 DEF Linked
<1>3. ~(n = row[t] /\ HasLinks(t))
  BY <1>2 DEF Linked
<1>4. \E u \in Tasks : TaskStep(u)
  BY <1>2, <1>3 DEF Next, Finished, LeaderInsertEntry, FinishEvent, vars, task, HasLinks
<1>5. ASSUME NEW u \in Tasks, TaskStep(u) PROVE u = t
  BY <1>2, <1>3, <1>5, <1>T
     DEF TaskStep, HasLinks, StartInsert, PushResults, Expand, ReadSlot,
         EndExpand, SelectNeighbors, StoreForward, Spin, LockTarget,
         StoreBack, UnlockTarget, EndInsert, vars, task
<1>6. TaskStep(t)
  BY <1>4, <1>5
<1>7. ~SelectNeighbors(t)
  <2> SUFFICES ASSUME SelectNeighbors(t) PROVE FALSE
    OBVIOUS
  <2>1. PICK list \in KeptLists(srch[t].W, [c \in srch[t].W |-> Near(t, c)]) :
          fwd' = [fwd EXCEPT ![t] = 0..Len(list)]
    BY DEF SelectNeighbors
  <2>2. Len(list) \in Nat
    BY KeptListsShape
  <2>3. 0 \in fwd'[t]
    BY <1>T, <2>1, <2>2
  <2> QED BY <1>2, <2>3 DEF HasLinks
<1>8. \/ StoreForward(t)
      \/ UNCHANGED <<row, fwd>> /\ (pc[t] \in Linking \/ pc'[t] \notin Linking)
      \/ pc'[t] \notin Linking
  BY <1>T, <1>6, <1>7
     DEF TaskStep, StartInsert, PushResults, Expand, ReadSlot, EndExpand, Spin, LockTarget,
         StoreBack, UnlockTarget, EndInsert, vars, task, Linking
<1>9. StoreForward(t)
  BY <1>2, <1>3, <1>8 DEF HasLinks, Linking
<1> QED BY <1>2, <1>9 DEF StoreForward, HasLinks

(* Only one task decides a list at a time.                                 *)
LEMMA OneDecides ==
    ASSUME TypeOK, NEW t \in Tasks, SelectNeighbors(t) \/ LockTarget(t)
    PROVE  /\ ~(SelectNeighbors(t) /\ LockTarget(t))
           /\ \A u \in Tasks \ {t} : ~SelectNeighbors(u) /\ ~LockTarget(u)
<1>1. pc \in [Tasks -> Locations]
  BY DEF TypeOK
<1>2. \A u \in Tasks \ {t} : pc'[u] = pc[u]
  BY <1>1 DEF SelectNeighbors, LockTarget
<1> QED BY <1>1, <1>2 DEF SelectNeighbors, LockTarget

LinkedNode(n) ==
    \/ \E t \in 0..NumTasks : n \in built[t]
    \/ \E t \in Tasks : pc[t] \in Linking /\ n = row[t]

LinkedMembers == \A n : n \in LinkedNodes <=> LinkedNode(n)

LEMMA MembersOfLinked == LinkedMembers
<1> SUFFICES ASSUME NEW n PROVE n \in LinkedNodes <=> LinkedNode(n)
  BY DEF LinkedMembers
<1> DEFINE Inserted == UNION {built[t] : t \in 0..NumTasks}
           InHand == {row[t] : t \in {u \in Tasks : pc[u] \in Linking}}
<1>1. n \in Inserted <=> \E t \in 0..NumTasks : n \in built[t]
  BY Zenon
<1>2. n \in InHand <=> \E t \in Tasks : pc[t] \in Linking /\ n = row[t]
  BY Zenon
<1>3. LinkedNodes = Inserted \cup InHand
  BY Zenon DEF LinkedNodes, Linking
<1> HIDE DEF Inserted, InHand
<1> QED BY <1>1, <1>2, <1>3 DEF LinkedNode

LEMMA LinkedNodesAre ==
    ASSUME TypeOK PROVE LinkedNodes \subseteq Rows
<1> SUFFICES ASSUME NEW n \in LinkedNodes PROVE n \in Rows
  OBVIOUS
<1>1. LinkedNode(n)
  BY MembersOfLinked DEF LinkedMembers
<1> QED BY <1>1 DEF TypeOK, LinkedNode

(* A step that changes no list: the task's own part and the entry's remain. *)
LEMMA ListInvSame ==
    ASSUME StoringInv, ListInv, NEW t \in Tasks, \A m \in Rows : ListOf(m)' = ListOf(m),
           LinkedNodes' \subseteq LinkedNodes \cup {Entry},
           UNCHANGED <<row, sel>> \/ pc'[t] \notin Linking,
           \A u \in Tasks \ {t} :
             /\ pc'[u] = pc[u] /\ row'[u] = row[u] /\ fwd'[u] = fwd[u]
             /\ sel'[u] = sel[u] /\ si'[u] = si[u] /\ srch'[u] = srch[u],
           TaskLists(t)', Linked' = Linked /\ (FirstToLink(t) => FirstToLink(t)')
    PROVE  ListInv'
<1>1. \A n \in Rows : Simple(ListOf(n), n)'
  BY DEF ListInv, Simple
<1>2. \A n \in LinkedNodes' \ {Entry} : ListOf(n)' # <<>>
  <2>1. LinkedNodes \subseteq Rows
    BY LinkedNodesAre DEF StoringInv, SafetyInv
  <2> QED BY <2>1 DEF ListInv
<1>3. ASSUME NEW u \in Tasks \ {t} PROVE TaskLists(u)'
  <2>1. \A j \in 1..Len(sel[u]) : sel[u][j] \in Rows
    BY DEF StoringInv, SafetyInv, TypeOK
  <2>2. TaskLists(u)
    BY DEF ListInv
  <2> QED BY <1>3, <2>1, <2>2 DEF TaskLists, ToCome, Simple
<1>4. EntryEdge'
  BY ConstantFacts DEF ListInv, EntryEdge, FirstToLink
<1> QED BY <1>1, <1>2, <1>3, <1>4 DEF ListInv

(* Where a step takes the set of nodes that have, or get, their lists.     *)
LEMMA LinkedNodesStep ==
    ASSUME TypeOK, WorkInv, [Next]_vars
    PROVE  /\ LinkedNodes \subseteq LinkedNodes'
           /\ LinkedNodes' \subseteq LinkedNodes \cup {Entry}
                \/ \E t \in Tasks : /\ SelectNeighbors(t)
                                    /\ LinkedNodes' = LinkedNodes \cup {row[t]}
<1> USE ConstantFacts
<1>T. /\ pc \in [Tasks -> Locations] /\ row \in [Tasks -> Rows]
      /\ built \in [0..NumTasks -> SUBSET Rows] /\ Tasks = (0..NumTasks) \ {0}
      /\ 0 \in 0..NumTasks
  <2>1. Tasks = (0..NumTasks) \ {0} /\ 0 \in 0..NumTasks
    BY DEF Tasks
  <2> QED BY <2>1 DEF TypeOK
<1>N. /\ \A n : n \in LinkedNodes <=> LinkedNode(n)
      /\ \A n : n \in LinkedNodes' <=> LinkedNode(n)'
  <2>1. LinkedMembers'
    BY MembersOfLinked, PTL
  <2> QED BY <2>1, MembersOfLinked DEF LinkedMembers
<1>1. CASE LeaderInsertEntry
  <2>1. /\ built' = [built EXCEPT ![0] = {Entry}] /\ UNCHANGED <<pc, row>>
        /\ built[0] = {}
    BY <1>T, <1>1 DEF LeaderInsertEntry, task, WorkInv
  <2>2. \A n : LinkedNode(n)' <=> LinkedNode(n) \/ n = Entry
    BY <1>T, <2>1 DEF LinkedNode
  <2> QED BY <1>N, <2>2
<1>2. ASSUME NEW t \in Tasks, SelectNeighbors(t)
      PROVE  LinkedNodes' = LinkedNodes \cup {row[t]}
  <2>1. /\ pc[t] = "search" /\ pc' = [pc EXCEPT ![t] = "connect"] /\ UNCHANGED <<row, built>>
    BY <1>2 DEF SelectNeighbors
  <2>2. \A n : LinkedNode(n)' <=> LinkedNode(n) \/ n = row[t]
    BY <1>T, <2>1 DEF LinkedNode, Linking
  <2> QED BY <1>N, <2>2
<1>3. ASSUME NEW t \in Tasks, EndInsert(t)
      PROVE  LinkedNodes' = LinkedNodes
  <2>1. /\ pc[t] = "connect" /\ pc' = [pc EXCEPT ![t] = "next"] /\ UNCHANGED row
        /\ built' = [built EXCEPT ![t] = @ \cup {row[t]}]
    BY <1>3 DEF EndInsert
  <2>2. \A n : LinkedNode(n)' <=> LinkedNode(n)
    BY <1>T, <2>1 DEF LinkedNode, Linking
  <2> QED BY <1>N, <2>2
<1>4. ASSUME NEW t \in Tasks,
             \/ StartInsert(t) \/ PushResults(t) \/ Expand(t) \/ ReadSlot(t) \/ EndExpand(t)
             \/ StoreForward(t) \/ Spin(t) \/ LockTarget(t) \/ StoreBack(t) \/ UnlockTarget(t)
      PROVE  LinkedNodes' = LinkedNodes
  <2>1. UNCHANGED built
    BY <1>4 DEF StartInsert, PushResults, Expand, ReadSlot, EndExpand, StoreForward, Spin,
                LockTarget, StoreBack, UnlockTarget, vars
  <2>2. \A u \in Tasks : /\ pc'[u] \in Linking <=> pc[u] \in Linking
                         /\ pc[u] \in Linking => row'[u] = row[u]
    BY <1>4, <1>T DEF StartInsert, PushResults, Expand, ReadSlot, EndExpand, StoreForward,
                      Spin, LockTarget, StoreBack, UnlockTarget, vars, task, Linking
  <2> QED BY ZenonT(40), <1>N, <2>1, <2>2 DEF LinkedNode
<1>5. CASE FinishEvent \/ UNCHANGED vars
  BY <1>5 DEF FinishEvent, vars, task, LinkedNodes
<1> QED BY <1>1, <1>2, <1>3, <1>4, <1>5 DEF Next, TaskStep, Finished

(* The facts about a linking task's step that the proof needs: its list is *)
(* of linked nodes, its row is not one of them.                            *)
LEMMA SearchFindsLinked ==
    ASSUME SafetyInv, NEW t \in Tasks, TaskLists(t), pc[t] = "search",
           NEW list \in KeptLists(srch[t].W, [c \in srch[t].W |-> Near(t, c)])
    PROVE  /\ list # <<>> /\ Simple(list, row[t]) /\ Listed(list) \subseteq Linked
           /\ row[t] \in Rows \ Linked
<1>1. row[t] \in Rows \ Linked
  BY UnfinishedNotLinked DEF SafetyInv, Unfinished, TypeOK
<1>2. Listed(list) \subseteq Linked
  BY KeptListsShape DEF TaskLists, SafetyInv, LinkInv, Within
<1>3. list # <<>> /\ \A i, j \in 1..Len(list) : i # j => list[i] # list[j]
  BY KeptListsSimple DEF TaskLists
<1> QED BY <1>1, <1>2, <1>3 DEF Simple

(* The new list of a back-edge's target.                                   *)
WithBackEdge(list, old, r) ==
    \/ list = Append(old, r)
    \/ \E d : list \in KeptLists(Listed(old) \cup {r}, d)

LEMMA BackEdgeSimple ==
    ASSUME NEW n, NEW r \in Rows, NEW old \in Seq(Rows), Simple(old, n), r # n,
           r \notin Listed(old), NEW list, WithBackEdge(list, old, r)
    PROVE  Simple(list, n) /\ list # <<>> /\ Listed(list) \subseteq Listed(old) \cup {r}
<1>1. CASE list = Append(old, r)
  <2>1. /\ Len(list) = Len(old) + 1 /\ Len(old) \in Nat
        /\ \A i \in 1..Len(old) : list[i] = old[i]
        /\ list[Len(old) + 1] = r
    BY <1>1
  <2>2. \A i \in 1..Len(list) : i \in 1..Len(old) \/ i = Len(old) + 1
    BY <2>1
  <2> QED BY <2>1, <2>2 DEF Simple, Listed
<1>2. ASSUME NEW d, list \in KeptLists(Listed(old) \cup {r}, d)
      PROVE  Simple(list, n) /\ list # <<>> /\ Listed(list) \subseteq Listed(old) \cup {r}
  <2>1. Listed(list) \subseteq Listed(old) \cup {r}
    BY <1>2, KeptListsShape
  <2>2. list # <<>> /\ \A i, j \in 1..Len(list) : i # j => list[i] # list[j]
    BY <1>2, KeptListsSimple
  <2> QED BY <2>1, <2>2 DEF Simple
<1> QED BY <1>1, <1>2 DEF WithBackEdge

(* What taking a target's lock decides.                                    *)
LEMMA BackEdgeDecided ==
    ASSUME StoringInv, ListInv, ~AnyStoreOrder, NEW t \in Tasks, LockTarget(t)
    PROVE  /\ Target(t) \in Rows \cap Linked /\ row[t] \in Linked
           /\ row[t] # Target(t) /\ row[t] \notin Listed(ListOf(Target(t)))
           /\ ListOf(Target(t)) = InMemory(Target(t))
           /\ Simple(want'[t], Target(t)) /\ want'[t] # <<>>
           /\ Listed(want'[t]) \subseteq Listed(ListOf(Target(t))) \cup {row[t]}
<1> USE ConstantFacts
<1> DEFINE s == Target(t)
           old == InMemory(s)
<1>0. SafetyInv /\ TypeOK /\ ListsAre
  BY ListsOfNodes DEF StoringInv, SafetyInv
<1>1. /\ pc[t] = "connect" /\ fwd[t] = {} /\ si[t] \in 1..Len(sel[t]) /\ lock[s] = Unlocked
      /\ s \in Rows /\ s \in Listed(sel[t]) /\ row[t] \in Rows
  <2>1. /\ pc[t] = "connect" /\ fwd[t] = {} /\ si[t] <= Len(sel[t]) /\ lock[s] = Unlocked
    BY DEF LockTarget, ForwardDone, CanLock
  <2>2. si[t] \in 1 .. R + 1 /\ Len(sel[t]) \in Nat /\ row[t] \in Rows
    BY <1>0 DEF TypeOK
  <2>3. s \in Rows /\ s \in Listed(sel[t])
    BY <1>0, <2>1, TargetIsRow DEF SafetyInv
  <2> QED BY <2>1, <2>2, <2>3
<1>2. s \in Linked /\ row[t] \in Linked
  BY <1>0, <1>1 DEF SafetyInv, LinkInv, Within, Linked, HasLinks
<1>3. ~BeingLinked(s)
  BY <1>0, <1>2, ForwardApart DEF BeingLinked
<1>4. ListOf(s) = old
  BY <1>0, <1>1, <1>3 DEF ListsAre
<1>5. TaskLists(t) /\ Simple(ListOf(s), s)
  BY <1>1 DEF ListInv
<1>6. row[t] # s /\ row[t] \notin Listed(ListOf(s))
  BY <1>1, <1>5 DEF TaskLists, Linking, Simple, ToCome, Target
<1>7. WithBackEdge(want'[t], old, row[t])
  <2>1. want \in [Tasks -> Seq(Rows)]
    BY <1>0 DEF TypeOK
  <2> QED BY ZenonT(40), <2>1 DEF LockTarget, WithBackEdge
<1>8. old \in Seq(Rows)
  BY <1>0, <1>1, InMemoryShape
<1> HIDE DEF old, s
<1>9. Simple(want'[t], s) /\ want'[t] # <<>> /\ Listed(want'[t]) \subseteq Listed(old) \cup {row[t]}
  <2>1. Simple(old, s) /\ row[t] # s /\ row[t] \notin Listed(old) /\ row[t] \in Rows
    BY <1>1, <1>4, <1>5, <1>6
  <2>2. PICK new : new = want'[t]
    OBVIOUS
  <2>3. WithBackEdge(new, old, row[t])
    BY <1>7, <2>2
  <2>4. Simple(new, s) /\ new # <<>> /\ Listed(new) \subseteq Listed(old) \cup {row[t]}
    BY <1>8, <2>1, <2>3, BackEdgeSimple
  <2> QED BY <2>2, <2>4
<1> QED BY <1>1, <1>2, <1>4, <1>6, <1>9 DEF s, old

LEMMA SearchStays ==
    ASSUME SafetyInv, NEW t \in Tasks, TaskLists(t),
           Expand(t) \/ ReadSlot(t) \/ EndExpand(t)
    PROVE  srch'[t].W # {} /\ srch'[t].W \subseteq srch'[t].marks
<1> DEFINE s == srch[t]
           nb == slot[s.at][s.i]
<1>0. srch \in [Tasks -> SearchState]
  BY DEF SafetyInv, TypeOK
<1>1. s.W # {} /\ s.W \subseteq s.marks
  BY DEF Expand, ReadSlot, EndExpand, TaskLists
<1>2. CASE Expand(t)
  <2>1. PICK best \in srch[t].frontier :
          srch' = [srch EXCEPT ![t].frontier = @ \ {best}, ![t].at = best,
                               ![t].n = cnt[best], ![t].i = 1]
    BY <1>2 DEF Expand
  <2>2. srch'[t].W = s.W /\ srch'[t].marks = s.marks
    BY <1>0, <2>1 DEF SearchState
  <2> QED BY <1>1, <2>2
<1>3. CASE EndExpand(t)
  <2>1. srch'[t].W = s.W /\ srch'[t].marks = s.marks
    BY <1>0, <1>3 DEF EndExpand, SearchState
  <2> QED BY <1>1, <2>1
<1>4. CASE ReadSlot(t)
  <2>1. \/ srch' = [srch EXCEPT ![t].i = @ + 1]
        \/ /\ nb \notin s.marks
           /\ \E W \in Offered(t, s.W, nb) :
                 srch' = [srch EXCEPT ![t].i = @ + 1, ![t].W = W,
                                      ![t].marks = @ \cup {nb},
                                      ![t].frontier = @ \cup {nb}]
        \/ srch' = [srch EXCEPT ![t].i = @ + 1, ![t].marks = @ \cup {nb}]
    BY <1>4 DEF ReadSlot
  <2> HIDE DEF nb
  <2>2. CASE srch' = [srch EXCEPT ![t].i = @ + 1]
    <3>1. srch'[t].W = s.W /\ srch'[t].marks = s.marks
      BY <1>0, <2>2 DEF SearchState
    <3> QED BY <1>1, <3>1
  <2>3. CASE srch' = [srch EXCEPT ![t].i = @ + 1, ![t].marks = @ \cup {nb}]
    <3>1. srch'[t].W = s.W /\ srch'[t].marks = s.marks \cup {nb}
      BY <1>0, <2>3 DEF SearchState
    <3> QED BY <1>1, <3>1
  <2>4. ASSUME NEW W \in Offered(t, s.W, nb), nb \notin s.marks,
               srch' = [srch EXCEPT ![t].i = @ + 1, ![t].W = W,
                                    ![t].marks = @ \cup {nb},
                                    ![t].frontier = @ \cup {nb}]
        PROVE  srch'[t].W # {} /\ srch'[t].W \subseteq srch'[t].marks
    <3>1. srch'[t].W = W /\ srch'[t].marks = s.marks \cup {nb}
      BY <1>0, <2>4 DEF SearchState
    <3> HIDE DEF s
    <3>2. nb \in W /\ W \subseteq s.W \cup {nb}
      BY <1>1, <2>4 DEF Offered, IsFarthest
    <3> QED BY <1>1, <3>1, <3>2
  <2> QED BY <2>1, <2>2, <2>3, <2>4
<1> QED BY <1>2, <1>3, <1>4

LEMMA TaskListsStand ==
    ASSUME NEW t \in Tasks, TaskLists(t),
           /\ pc'[t] = pc[t] /\ row'[t] = row[t] /\ fwd'[t] = fwd[t]
           /\ sel'[t] = sel[t] /\ si'[t] = si[t] /\ srch'[t] = srch[t],
           \A j \in 1..Len(sel[t]) : pc[t] \in Linking /\ ToCome(t, j) =>
             row[t] \notin Listed(ListOf(sel[t][j])')
    PROVE  TaskLists(t)'
BY DEF TaskLists, ToCome, Simple

LEMMA ListInit == Init => ListInv
<1> SUFFICES ASSUME Init PROVE ListInv
  OBVIOUS
<1> USE ConstantFacts
<1>1. \A n \in Rows : ListOf(n) = InMemory(n) /\ Len(InMemory(n)) = 0
  <2>1. TypeOK
    BY TypeInit
  <2>2. \A n \in Rows : ListOf(n) = InMemory(n)
    BY DEF Init, ListOf
  <2>3. \A n \in Rows : cnt[n] = 0
    BY DEF Init
  <2> QED BY <2>1, <2>2, <2>3, InMemoryShape
<1>2. \A n \in Rows : Simple(ListOf(n), n)
  BY <1>1 DEF Simple, Listed
<1>3. \A n : n \notin LinkedNodes
  <2>1. \A n : ~LinkedNode(n)
    BY DEF LinkedNode, Init, Linking
  <2> QED BY <2>1, MembersOfLinked DEF LinkedMembers
<1>4. \A t \in Tasks : TaskLists(t)
  BY DEF Init, TaskLists, Linking
<1>5. Linked = {Entry}
  BY DEF Init, Linked, HasLinks, Tasks
<1> QED BY <1>2, <1>3, <1>4, <1>5 DEF ListInv, EntryEdge

LEMMA ListInductive ==
    ASSUME StoringInv, StoringInv', WorkInv, ListInv, ~AnyStoreOrder, [Next]_vars
    PROVE  ListInv'
<1> USE ConstantFacts
<1>0. SafetyInv /\ StoreInv /\ TypeOK /\ ListsAre /\ ListsAre'
  BY ListsOfNodes, PTL DEF StoringInv, SafetyInv
<1>T. /\ pc \in [Tasks -> Locations] /\ row \in [Tasks -> Rows]
      /\ sel \in [Tasks -> Seq(Rows)] /\ si \in [Tasks -> 1 .. R + 1]
      /\ fwd \in [Tasks -> SUBSET Fields] /\ srch \in [Tasks -> SearchState]
  BY <1>0 DEF TypeOK
<1>I. \A u \in Tasks : TaskLists(u)
  BY DEF ListInv
<1>S. (\A u \in Tasks : ~SelectNeighbors(u) /\ ~LockTarget(u)) =>
        /\ \A m \in Rows : ListOf(m)' = ListOf(m)
        /\ LinkedNodes' \subseteq LinkedNodes \cup {Entry}
  BY <1>0, ListsStand, LinkedNodesStep
<1>L. (\A u \in Tasks : ~StoreForward(u)) => Linked' = Linked
  BY <1>0, NewLinks, LinkedGrows DEF SafetyInv
<1>1. CASE LeaderInsertEntry \/ FinishEvent \/ UNCHANGED vars
  <2>1. UNCHANGED <<pc, row, sel, si, fwd, srch>>
    BY <1>1 DEF LeaderInsertEntry, FinishEvent, vars, task
  <2>2. \A u \in Tasks : ~SelectNeighbors(u) /\ ~LockTarget(u) /\ ~StoreForward(u)
    BY <1>T, <2>1 DEF SelectNeighbors, LockTarget, StoreForward
  <2>3. 1 \in Tasks
    BY DEF Tasks
  <2>4. TaskLists(1)' /\ (FirstToLink(1) => FirstToLink(1)')
    <3>1. \A j \in 1..Len(sel[1]) : sel[1][j] \in Rows
      BY <1>T, <2>3
    <3>2. \A m \in Rows : ListOf(m)' = ListOf(m)
      BY <1>S, <2>2
    <3>3. TaskLists(1)
      BY <1>I, <2>3
    <3>4. TaskLists(1)'
      <4>1. \A j \in 1..Len(sel[1]) : pc[1] \in Linking /\ ToCome(1, j) =>
               row[1] \notin Listed(ListOf(sel[1][j])')
        BY <2>1, <3>1, <3>2, <3>3 DEF TaskLists
      <4> QED BY <2>1, <2>3, <3>3, <4>1, TaskListsStand
    <3> QED BY <2>1, <3>4 DEF FirstToLink
  <2> QED BY <1>S, <1>L, <2>1, <2>2, <2>3, <2>4, ListInvSame
<1>2. ASSUME NEW t \in Tasks,
             \/ StartInsert(t) \/ PushResults(t) \/ Expand(t) \/ ReadSlot(t)
             \/ EndExpand(t) \/ EndInsert(t)
      PROVE  ListInv'
  <2>1. /\ \A u \in Tasks \ {t} :
             /\ pc'[u] = pc[u] /\ row'[u] = row[u] /\ fwd'[u] = fwd[u]
             /\ sel'[u] = sel[u] /\ si'[u] = si[u] /\ srch'[u] = srch[u]
        /\ UNCHANGED fwd
    BY <1>T, <1>2 DEF StartInsert, PushResults, Expand, ReadSlot, EndExpand, EndInsert
  <2>2. pc'[t] \notin Linking
    BY <1>T, <1>2 DEF StartInsert, PushResults, Expand, ReadSlot, EndExpand, EndInsert, Linking
  <2>3. \A u \in Tasks : ~SelectNeighbors(u) /\ ~LockTarget(u) /\ ~StoreForward(u)
    <3>1. ASSUME NEW u \in Tasks, SelectNeighbors(u) \/ LockTarget(u) PROVE FALSE
      <4>1. pc[u] # pc'[u] /\ pc'[u] \in Linking
        BY <1>T, <3>1 DEF SelectNeighbors, LockTarget, Linking
      <4> QED BY <2>1, <2>2, <4>1
    <3>2. ASSUME NEW u \in Tasks, StoreForward(u) PROVE FALSE
      BY <1>T, <2>1, <3>2 DEF StoreForward
    <3> QED BY <3>1, <3>2
  <2>4. fwd[t] = {}
    <3>1. fwd[t] # {} => pc[t] = "connect"
      BY <1>0 DEF SafetyInv, RowsInv
    <3> QED BY <1>2, <3>1 DEF StartInsert, PushResults, Expand, ReadSlot, EndExpand, EndInsert
  <2>5. TaskLists(t)'
    <3>1. pc'[t] \in {"search", "read"} => srch'[t].W # {} /\ srch'[t].W \subseteq srch'[t].marks
      <4>1. CASE StartInsert(t)
        BY <1>T, <4>1 DEF StartInsert, Seeded
      <4>2. CASE Expand(t) \/ ReadSlot(t) \/ EndExpand(t)
        BY <1>0, <1>I, <4>2, SearchStays
      <4>3. CASE PushResults(t) \/ EndInsert(t)
        BY <1>T, <4>3 DEF PushResults, EndInsert
      <4> QED BY <1>2, <4>1, <4>2, <4>3
    <3> QED BY <2>1, <2>2, <2>4, <3>1 DEF TaskLists
  <2>6. ~FirstToLink(t)
    <3>1. CASE EndInsert(t)
      <4> SUFFICES ASSUME FirstToLink(t) PROVE FALSE
        OBVIOUS
      <4>1. Len(sel[t]) = 1
        BY DEF FirstToLink
      <4>2. si[t] > Len(sel[t]) /\ si[t] = 1
        BY <3>1 DEF EndInsert, FirstToLink
      <4> QED BY <4>1, <4>2
    <3> QED BY <1>2, <3>1 DEF StartInsert, PushResults, Expand, ReadSlot, EndExpand, FirstToLink
  <2> QED BY <1>S, <1>L, <2>1, <2>2, <2>3, <2>5, <2>6, ListInvSame
<1>3. ASSUME NEW t \in Tasks, StoreBack(t) \/ Spin(t) PROVE ListInv'
  <2>1. UNCHANGED <<pc, row, sel, si, fwd, srch>>
    BY <1>3 DEF StoreBack, Spin, vars, task
  <2>2. \A u \in Tasks : ~SelectNeighbors(u) /\ ~LockTarget(u) /\ ~StoreForward(u)
    BY <1>T, <2>1 DEF SelectNeighbors, LockTarget, StoreForward
  <2>3. TaskLists(t)'
    <3>1. \A j \in 1..Len(sel[t]) : sel[t][j] \in Rows
      BY <1>T
    <3>2. \A j \in 1..Len(sel[t]) : pc[t] \in Linking /\ ToCome(t, j) =>
             row[t] \notin Listed(ListOf(sel[t][j])')
      BY <1>I, <1>S, <2>1, <2>2, <3>1 DEF TaskLists
    <3> QED BY <1>I, <2>1, <3>2, TaskListsStand
  <2> QED BY <1>S, <1>L, <2>1, <2>2, <2>3, ListInvSame DEF FirstToLink
<1>4. ASSUME NEW t \in Tasks, StoreForward(t) PROVE ListInv'
  <2>1. /\ UNCHANGED <<pc, row, sel, si, srch>> /\ fwd[t] # {}
        /\ \A u \in Tasks \ {t} : fwd'[u] = fwd[u]
    BY <1>T, <1>4 DEF StoreForward
  <2>2. \A u \in Tasks : ~SelectNeighbors(u) /\ ~LockTarget(u)
    BY <1>T, <2>1 DEF SelectNeighbors, LockTarget
  <2>3. \A m \in Rows : ListOf(m)' = ListOf(m)
    BY <1>S, <2>2
  <2>4. TaskLists(t)'
    <3>1. \A j \in 1..Len(sel[t]) : sel'[t][j] \in Rows
      BY <1>T, <2>1
    <3>2. TaskLists(t) /\ si[t] = 1 /\ pc[t] = "connect"
      BY <1>0, <1>I, <2>1 DEF TaskLists, SafetyInv, RowsInv
    <3>3. \A j \in 1..Len(sel[t]) : ToCome(t, j) => row[t] \notin Listed(ListOf(sel[t][j])')
      BY <2>1, <2>3, <3>1, <3>2 DEF TaskLists, Linking
    <3> QED BY <2>1, <3>2, <3>3 DEF TaskLists, ToCome, Simple
  <2>5. ASSUME NEW u \in Tasks \ {t} PROVE TaskLists(u)'
    <3>1. \A j \in 1..Len(sel[u]) : sel'[u][j] \in Rows
      BY <1>T, <2>1
    <3>2. \A j \in 1..Len(sel[u]) : pc[u] \in Linking /\ ToCome(u, j) =>
             row[u] \notin Listed(ListOf(sel[u][j])')
      BY <1>I, <2>1, <2>3, <3>1 DEF TaskLists
    <3> QED BY <1>I, <2>1, <3>2, TaskListsStand
  <2>6. (\A n \in Rows : Simple(ListOf(n), n)') /\ \A n \in LinkedNodes' \ {Entry} : ListOf(n)' # <<>>
    <3>1. LinkedNodes' \subseteq LinkedNodes \cup {Entry} /\ LinkedNodes \subseteq Rows
      BY <1>0, <1>S, <2>2, LinkedNodesAre
    <3> QED BY <2>3, <3>1 DEF ListInv, Simple
  <2>7. EntryEdge'
    <3>1. CASE ListOf(Entry) # <<>>
      BY <2>3, <3>1 DEF EntryEdge
    <3>2. ASSUME NEW u \in Tasks, FirstToLink(u) PROVE EntryEdge'
      <4>1. u # t
        BY <2>1, <3>2 DEF FirstToLink
      <4> QED BY <2>1, <3>2, <4>1 DEF FirstToLink, EntryEdge
    <3>3. CASE Linked = {Entry}
      <4>1. CASE fwd'[t] # {}
        <5>1. Linked' \subseteq Linked
          <6>1. ASSUME NEW n \in Linked', n \notin Linked PROVE FALSE
            <7>1. PICK u \in Tasks : StoreForward(u) /\ fwd'[u] = {}
              BY <1>0, <6>1, NewLinks
            <7>2. u = t
              BY <1>T, <2>1, <7>1 DEF StoreForward
            <7> QED BY <4>1, <7>1, <7>2
          <6> QED BY <6>1
        <5>2. Linked' = {Entry}
          BY <3>3, <5>1 DEF Linked
        <5> QED BY <5>2 DEF EntryEdge
      <4>2. CASE fwd'[t] = {}
        <5>1. TaskLists(t) /\ pc[t] = "connect" /\ Listed(sel[t]) \subseteq {Entry}
          BY <1>0, <1>I, <2>1, <3>3 DEF SafetyInv, RowsInv, LinkInv, Within
        <5>2. sel[t] # <<>> /\ Simple(sel[t], row[t]) /\ si[t] = 1
          BY <2>1, <5>1 DEF TaskLists, Linking
        <5>3. sel[t] = <<Entry>>
          <6>1. sel[t] \in Seq(Rows) /\ Len(sel[t]) \in Nat /\ Len(sel[t]) # 0
            BY <1>T, <5>2
          <6>2. \A j \in 1..Len(sel[t]) : sel[t][j] = Entry
            BY <5>1 DEF Listed
          <6>3. ~(2 \in 1..Len(sel[t]))
            BY <5>2, <6>1, <6>2 DEF Simple
          <6>4. Len(sel[t]) = 1
            <7>1. PICK k \in Nat : k = Len(sel[t])
              BY <6>1
            <7>2. k # 0 /\ ~(2 \in 1..k)
              BY <6>1, <6>3, <7>1
            <7>3. k = 1
              BY <7>2
            <7> QED BY <7>1, <7>3
          <6>5. sel[t][1] = Entry
            BY <6>2, <6>4
          <6>6. <<Entry>> \in Seq(Rows) /\ Len(<<Entry>>) = 1
            OBVIOUS
          <6> QED BY <6>1, <6>4, <6>5, <6>6, SeqEqual
        <5> QED BY <2>1, <4>2, <5>1, <5>2, <5>3 DEF EntryEdge, FirstToLink
      <4> QED BY <4>1, <4>2
    <3> QED BY <3>1, <3>2, <3>3 DEF ListInv, EntryEdge
  <2> QED BY <2>4, <2>5, <2>6, <2>7 DEF ListInv
<1>5. ASSUME NEW t \in Tasks, SelectNeighbors(t) PROVE ListInv'
  <2>1. PICK list \in KeptLists(srch[t].W, [c \in srch[t].W |-> Near(t, c)]) :
          sel' = [sel EXCEPT ![t] = list] /\ fwd' = [fwd EXCEPT ![t] = 0..Len(list)]
    BY <1>5 DEF SelectNeighbors
  <2>2. /\ pc[t] = "search" /\ pc'[t] = "connect" /\ si'[t] = 1 /\ sel'[t] = list
        /\ UNCHANGED row
        /\ \A u \in Tasks \ {t} :
             /\ pc'[u] = pc[u] /\ row'[u] = row[u] /\ fwd'[u] = fwd[u]
             /\ sel'[u] = sel[u] /\ si'[u] = si[u] /\ srch'[u] = srch[u]
    BY <1>T, <1>5, <2>1 DEF SelectNeighbors
  <2>3. /\ list # <<>> /\ Simple(list, row[t]) /\ Listed(list) \subseteq Linked
        /\ row[t] \in Rows \ Linked
    BY <1>0, <1>I, <2>2, SearchFindsLinked
  <2>4. \A m \in Rows \ {row[t]} : ListOf(m)' = ListOf(m)
    BY <1>0, <1>5, OneDecides, ListsStand
  <2>5. ListOf(row[t])' = list
    <3>1. Len(list) \in Nat
      BY KeptListsShape
    <3>2. fwd'[t] # {} /\ row'[t] = row[t]
      BY <1>T, <2>1, <2>2, <3>1
    <3>3. \A n \in Rows : row'[t] = n /\ fwd'[t] # {} => ListOf(n)' = sel'[t]
      BY <1>0 DEF ListsAre
    <3> QED BY <2>2, <2>3, <3>2, <3>3
  <2>6. \A n \in Rows : row[t] \notin Listed(ListOf(n))
    BY <1>0, <2>3 DEF ListsAre
  <2>7. TaskLists(t)'
    <3>1. \A j \in 1..Len(list) : list[j] \in Rows \ {row[t]}
      BY <2>3 DEF Listed, Linked
    <3>2. \A j \in 1..Len(list) : row[t] \notin Listed(ListOf(list[j]))
      BY <2>6, <3>1
    <3> QED BY ZenonT(40), <2>2, <2>3, <2>4, <3>1, <3>2 DEF TaskLists, ToCome, Simple
  <2>8. ASSUME NEW u \in Tasks \ {t} PROVE TaskLists(u)'
    <3>1. \A j \in 1..Len(sel[u]) : sel'[u][j] \in Rows \ {row[t]}
      <4>1. Listed(sel[u]) \subseteq Linked /\ Linked \subseteq Rows
        BY <1>0 DEF SafetyInv, LinkInv, Within, Linked
      <4> QED BY <2>2, <2>3, <4>1 DEF Listed
    <3>2. \A j \in 1..Len(sel[u]) : pc[u] \in Linking /\ ToCome(u, j) =>
             row[u] \notin Listed(ListOf(sel[u][j])')
      BY <1>I, <2>2, <2>4, <3>1 DEF TaskLists
    <3> QED BY <1>I, <2>2, <3>2, TaskListsStand
  <2>9. (\A n \in Rows : Simple(ListOf(n), n)') /\ \A n \in LinkedNodes' \ {Entry} : ListOf(n)' # <<>>
    <3>1. LinkedNodes' \subseteq LinkedNodes \cup {Entry, row[t]} /\ LinkedNodes \subseteq Rows
      <4>1. \A u \in Tasks : SelectNeighbors(u) => u = t
        BY <1>0, <1>5, OneDecides
      <4> QED BY <1>0, <4>1, LinkedNodesAre, LinkedNodesStep
    <3>2. ASSUME NEW n \in Rows PROVE Simple(ListOf(n), n)'
      BY <2>2, <2>3, <2>4, <2>5 DEF ListInv, Simple
    <3>3. ASSUME NEW n \in LinkedNodes' \ {Entry} PROVE ListOf(n)' # <<>>
      BY <2>2, <2>3, <2>4, <2>5, <3>1 DEF ListInv
    <3> QED BY <3>2, <3>3
  <2>10. EntryEdge'
    <3>1. \A u \in Tasks : ~StoreForward(u)
      BY <1>T, <2>2 DEF StoreForward
    <3>2. Entry \in Rows \ {row[t]} /\ ~FirstToLink(t)
      BY <2>2, <2>3 DEF FirstToLink, Linked
    <3> QED BY <1>L, <2>2, <2>4, <3>1, <3>2 DEF ListInv, EntryEdge, FirstToLink
  <2> QED BY <2>7, <2>8, <2>9, <2>10 DEF ListInv
<1>6. ASSUME NEW t \in Tasks, LockTarget(t) PROVE ListInv'
  <2>0. PICK s \in Rows : s = Target(t)
    BY <1>6, BackEdgeDecided
  <2>1. /\ pc[t] = "connect" /\ pc'[t] \in Critical /\ fwd[t] = {}
        /\ UNCHANGED <<row, sel, si, fwd, srch>>
        /\ \A u \in Tasks \ {t} : pc'[u] = pc[u]
        /\ si[t] \in 1..Len(sel[t])
    BY <1>T, <1>6 DEF LockTarget, Critical, ForwardDone
  <2>2. /\ s \in Linked /\ row[t] \in Linked
        /\ row[t] # s /\ row[t] \notin Listed(ListOf(s))
        /\ Simple(want'[t], s) /\ want'[t] # <<>>
        /\ Listed(want'[t]) \subseteq Listed(ListOf(s)) \cup {row[t]}
    BY <1>6, <2>0, BackEdgeDecided
  <2>3. \A m \in Rows \ {s} : ListOf(m)' = ListOf(m)
    BY <1>0, <1>6, <2>0, OneDecides, ListsStand
  <2>4. Target(t)' = s
    BY <2>0, <2>1 DEF Target
  <2>5. ListOf(s)' = want'[t]
    <3>1. \A n \in Rows : pc'[t] \in Critical /\ Target(t)' = n => ListOf(n)' = want'[t]
      BY <1>0 DEF ListsAre
    <3> QED BY <2>1, <2>4, <3>1
  <2>6. TaskLists(t)'
    <3>1. TaskLists(t) /\ \A j \in 1..Len(sel[t]) : sel[t][j] \in Rows
      BY <1>T, <1>I
    <3>2. ASSUME NEW j \in 1..Len(sel[t]), j > si[t]
          PROVE  row[t] \notin Listed(ListOf(sel[t][j])')
      <4>1. sel[t][j] # s
        BY <2>0, <2>1, <3>1, <3>2 DEF TaskLists, Linking, Simple, Target
      <4>2. row[t] \notin Listed(ListOf(sel[t][j]))
        BY <2>1, <3>1, <3>2 DEF TaskLists, Linking, ToCome
      <4> QED BY <2>1, <2>3, <3>1, <4>1, <4>2
    <3>3. \A j \in 1..Len(sel[t]) : ToCome(t, j)' => j > si[t]
      BY <2>1 DEF ToCome, Critical
    <3> QED BY <2>1, <3>1, <3>2, <3>3 DEF TaskLists, Linking, Critical, Simple
  <2>7. ASSUME NEW u \in Tasks \ {t} PROVE TaskLists(u)'
    <3>1. \A j \in 1..Len(sel[u]) : sel'[u][j] \in Rows
      BY <1>T, <2>1
    <3>2. ASSUME pc[u] \in Linking PROVE row[u] # row[t]
      <4>1. row[u] \in RowRange(u) /\ row[t] \in RowRange(t)
        BY <1>0, <2>1, <3>2 DEF SafetyInv, RowsInv, Linking, Idle
      <4> QED BY <2>7, <4>1, RangesDisjoint
    <3>3. ASSUME NEW j \in 1..Len(sel[u]), pc[u] \in Linking, ToCome(u, j)
          PROVE  row[u] \notin Listed(ListOf(sel[u][j])')
      <4>1. row[u] \notin Listed(ListOf(sel[u][j]))
        BY <1>I, <3>3 DEF TaskLists
      <4> QED BY <2>1, <2>2, <2>3, <2>5, <3>1, <3>2, <3>3, <4>1
    <3> QED BY <1>I, <2>1, <2>7, <3>3, TaskListsStand
  <2>8. (\A n \in Rows : Simple(ListOf(n), n)') /\ \A n \in LinkedNodes' \ {Entry} : ListOf(n)' # <<>>
    <3>1. LinkedNodes' \subseteq LinkedNodes \cup {Entry} /\ LinkedNodes \subseteq Rows
      <4>1. \A u \in Tasks : ~SelectNeighbors(u)
        BY <1>0, <1>6, OneDecides
      <4> QED BY <1>0, <4>1, LinkedNodesAre, LinkedNodesStep
    <3> QED BY <2>2, <2>3, <2>5, <3>1 DEF ListInv, Simple
  <2>9. EntryEdge'
    <3>1. \A u \in Tasks : ~StoreForward(u)
      BY <1>T, <2>1 DEF StoreForward
    <3>2. Linked' = Linked
      BY <1>L, <3>1
    <3>3. ListOf(Entry) # <<>> => ListOf(Entry)' # <<>>
      BY <2>2, <2>3, <2>5
    <3>4. FirstToLink(t) => ListOf(Entry)' # <<>>
      BY <2>0, <2>2, <2>5 DEF FirstToLink, Target
    <3> QED BY <2>1, <3>2, <3>3, <3>4 DEF ListInv, EntryEdge, FirstToLink
  <2> QED BY <2>6, <2>7, <2>8, <2>9 DEF ListInv
<1>7. ASSUME NEW t \in Tasks, UnlockTarget(t) PROVE ListInv'
  <2>1. /\ pc[t] \in Critical /\ pc'[t] = "connect" /\ fwd[t] = {} /\ si'[t] = si[t] + 1
        /\ UNCHANGED <<row, sel, fwd, srch>> /\ si[t] \in Nat
        /\ \A u \in Tasks \ {t} : pc'[u] = pc[u] /\ si'[u] = si[u]
    BY <1>0, <1>T, <1>7 DEF UnlockTarget, Critical
  <2>2. \A u \in Tasks : ~SelectNeighbors(u) /\ ~LockTarget(u) /\ ~StoreForward(u)
    <3>1. ASSUME NEW u \in Tasks, SelectNeighbors(u) \/ LockTarget(u) PROVE FALSE
      <4>1. pc[u] # pc'[u] /\ pc[u] \notin Critical
        BY <1>T, <3>1 DEF SelectNeighbors, LockTarget, Critical
      <4> QED BY <2>1, <4>1
    <3> QED BY <1>T, <2>1, <3>1 DEF StoreForward
  <2>3. TaskLists(t)'
    <3>1. TaskLists(t) /\ \A j \in 1..Len(sel[t]) : sel'[t][j] \in Rows
      BY <1>T, <1>I, <2>1
    <3>2. \A j \in 1..Len(sel[t]) : ToCome(t, j)' => ToCome(t, j)
      BY <2>1 DEF ToCome
    <3>3. \A m \in Rows : ListOf(m)' = ListOf(m)
      BY <1>S, <2>2
    <3>4. \A j \in 1..Len(sel[t]) : ToCome(t, j)' => row[t] \notin Listed(ListOf(sel[t][j])')
      BY <2>1, <3>1, <3>2, <3>3 DEF TaskLists, Linking, Critical
    <3> QED BY <2>1, <3>1, <3>4 DEF TaskLists, Linking, Critical, Simple
  <2>4. ~FirstToLink(t)
    BY <2>1 DEF FirstToLink, Critical
  <2> QED BY <1>S, <1>L, <2>1, <2>2, <2>3, <2>4, ListInvSame
<1> QED
  BY <1>1, <1>2, <1>3, <1>4, <1>5, <1>6, <1>7 DEF Next, TaskStep, Finished

LEMMA BuildInvariant == ASSUME ~AnyStoreOrder PROVE Spec => []BuildInv
<1>1. Init => WorkInv /\ ListInv
  BY WorkInit, ListInit
<1>2. StoringInv /\ StoringInv' /\ WorkInv /\ ListInv /\ [Next]_vars => WorkInv' /\ ListInv'
  BY WorkInductive, ListInductive DEF StoringInv
<1>3. Spec => []StoringInv
  BY StoringInvariant
<1> QED BY <1>1, <1>2, <1>3, PTL DEF Spec, BuildInv, StoringInv

-----------------------------------------------------------------------------
(* The finished index.                                                     *)

LEMMA DivBounds ==
    ASSUME NEW a \in Nat, NEW k \in Nat \ {0}
    PROVE  /\ a \div k \in Nat /\ k * (a \div k) <= a
           /\ a < k * (a \div k) + k
OBVIOUS

LEMMA DivLeast ==
    ASSUME NEW a \in Nat, NEW k \in Nat \ {0}, NEW r \in Nat
    PROVE  k * r <= a <=> r <= a \div k
<1> DEFINE q == a \div k
<1>1. q \in Nat /\ k * q <= a /\ a < k * q + k
  BY DivBounds
<1> HIDE DEF q
<1>2. CASE r <= q
  <2>1. k * r <= k * q
    BY <1>1, <1>2, MulMonotone
  <2> QED BY <1>1, <1>2, <2>1 DEF q
<1>3. CASE q + 1 <= r
  <2>1. k * (q + 1) <= k * r
    BY <1>1, <1>3, MulMonotone
  <2>2. k * (q + 1) = k * q + k
    BY <1>1
  <2>3. ~(k * r <= a)
    BY <1>1, <2>1, <2>2
  <2> QED BY <1>1, <1>3, <2>3 DEF q
<1> QED BY <1>1, <1>2, <1>3

(* The ranges hold every row but the entry point.                          *)
LEMMA RangesCover ==
    ASSUME NEW r \in Rows, r # Entry
    PROVE  \E t \in Tasks : r \in RowRange(t)
<1> DEFINE T == NumTasks
           M == N - 1
           t == (r * T + (M - 1)) \div M
<1>1. /\ T \in Nat \ {0} /\ M \in Nat \ {0} /\ r \in 1..M
  BY ConstantFacts DEF Rows, Entry
<1>2. Tasks = 1..T
  BY DEF Tasks
<1> HIDE DEF T, M
<1>3. r * T \in Nat /\ M - 1 \in Nat
  BY <1>1
<1>4. t \in Nat /\ M * t <= r * T + (M - 1) /\ r * T + (M - 1) < M * t + M
  BY <1>1, <1>3, DivBounds
<1> HIDE DEF t
<1>5. r * T <= M * t
  BY <1>1, <1>3, <1>4
<1>6. t # 0 /\ t <= T
  <2>1. T <= r * T
    <3>1. T * 1 <= T * r
      BY <1>1, MulMonotone
    <3> QED BY <1>1, <3>1
  <2>2. t # 0
    BY <1>1, <1>3, <1>5, <2>1
  <2>3. ASSUME T + 1 <= t PROVE FALSE
    <3>1. M * (T + 1) <= M * t
      BY <1>1, <1>4, <2>3, MulMonotone
    <3>2. M * (T + 1) = M * T + M /\ M * T \in Nat
      BY <1>1
    <3>3. T * r <= T * M
      BY <1>1, MulMonotone
    <3>4. r * T <= M * T
      BY <1>1, <3>3
    <3> QED BY <1>1, <1>3, <1>4, <3>1, <3>2, <3>4
  <2> QED BY <1>1, <1>4, <2>2, <2>3
<1>7. M * (t - 1) < r * T
  <2>1. M * (t - 1) = M * t - M /\ M * t \in Nat
    BY <1>1, <1>4
  <2> QED BY <1>1, <1>3, <1>4, <2>1
<1>8. t \in Tasks /\ t \in Nat /\ t - 1 \in Nat
  BY <1>1, <1>2, <1>4, <1>6
<1>9. r <= (t * M) \div T
  <2>1. t * M \in Nat /\ T * r <= t * M
    BY <1>1, <1>5, <1>8
  <2> QED BY <1>1, <2>1, DivLeast
<1>10. ~(r <= ((t - 1) * M) \div T)
  <2>1. (t - 1) * M \in Nat /\ ~(T * r <= (t - 1) * M)
    BY <1>1, <1>7, <1>8
  <2> QED BY <1>1, <2>1, DivLeast
<1>11. RangeStart(t) <= r /\ r < RangeEnd(t)
  <2>1. ((t - 1) * M) \div T \in Nat /\ (t * M) \div T \in Nat
    <3>1. (t - 1) * M \in Nat /\ t * M \in Nat
      BY <1>1, <1>8
    <3> QED BY <1>1, <3>1, DivBounds
  <2>2. 1 + ((t - 1) * M) \div T <= r /\ r < 1 + (t * M) \div T
    BY <1>1, <1>9, <1>10, <2>1
  <2> QED BY <2>2 DEF RangeStart, RangeEnd, M, T
<1> QED BY <1>8, <1>11 DEF RowRange

(* A list without repetitions has as many members as places.               *)
LEMMA SimpleCardinality ==
    ASSUME NEW list \in Seq(Rows), NEW n, Simple(list, n)
    PROVE  Cardinality(Listed(list)) = Len(list)
<1>1. Len(list) \in Nat /\ list \in Bijection(1..Len(list), Listed(list))
  BY DEF Simple, Listed, Bijection, Injection, Surjection, IsInjective
<1>2. ExistsBijection(1..Len(list), Listed(list))
  BY <1>1 DEF ExistsBijection
<1> QED BY <1>1, <1>2, FS_CountingElements

(* A list at rest names no node twice and not its own, and once the build  *)
(* is over no list of two or more rows is empty.                           *)
THEOREM ListsAreSound == ASSUME ~AnyStoreOrder PROVE Spec => []SoundLists
<1> USE ConstantFacts
<1>1. BuildInv => SoundLists
  <2> SUFFICES ASSUME BuildInv PROVE SoundLists
    OBVIOUS
  <2>0. SafetyInv /\ TypeOK /\ ListsAre /\ WorkInv /\ ListInv
    BY ListsOfNodes DEF BuildInv, SafetyInv, StoringInv
  <2>1. ASSUME NEW n \in Rows, ~BeingStored(n)
        PROVE  Cardinality(Neighbors(n)) = cnt[n] /\ n \notin Neighbors(n)
    <3>1. ListOf(n) = InMemory(n) /\ Simple(ListOf(n), n)
      BY <2>0, <2>1 DEF BeingStored, ListsAre, ListInv
    <3>2. InMemory(n) \in Seq(Rows) /\ Len(InMemory(n)) = cnt[n]
      BY <2>0, InMemoryShape
    <3> QED BY <3>1, <3>2, SimpleCardinality DEF Neighbors, Simple
  <2>2. ASSUME phase = "finished", N >= 2, NEW n \in Rows PROVE cnt[n] > 0
    <3>1. \A t \in Tasks : pc[t] = "pushed" /\ fwd[t] = {} /\ RowsLeft(t) = {}
      BY <2>0, <2>2 DEF WorkInv, SafetyInv, RowsInv
    <3>2. \A m \in Rows : ListOf(m) = InMemory(m)
      <4>1. \A m \in Rows : lock[m] \in Tasks \cup {Unlocked}
        BY <2>0 DEF TypeOK
      <4>2. \A m \in Rows : lock[m] = Unlocked
        BY <2>0, <3>1, <4>1 DEF SafetyInv, Mutex, Critical
      <4> QED BY <2>0, <3>1, <4>2 DEF ListsAre, BeingLinked
    <3>3. ASSUME NEW m \in Rows, m # Entry PROVE m \in Linked /\ m \in LinkedNodes
      <4>1. PICK t \in Tasks : m \in RowRange(t)
        BY <3>3, RangesCover
      <4>2. m \in Nat /\ row[t] \in Nat /\ ~(m > row[t])
        BY <2>0, <3>1, <4>1 DEF RowsLeft, TypeOK
      <4>3. m < row[t] \/ m = row[t]
        BY <4>2
      <4>4. m \in built[t]
        BY <2>0, <3>1, <4>1, <4>3 DEF WorkInv, Idle
      <4>5. t \in 0..NumTasks
        BY DEF Tasks
      <4> QED BY <4>4, <4>5, MembersOfLinked DEF Linked, LinkedMembers, LinkedNode
    <3>4. ListOf(n) # <<>>
      <4>1. CASE n # Entry
        BY <2>0, <3>3, <4>1 DEF ListInv
      <4>2. CASE n = Entry
        <5>1. 1 \in Rows /\ 1 # Entry
          BY <2>2 DEF Rows, Entry
        <5>2. Linked # {Entry}
          BY <3>3, <5>1
        <5>3. \A t \in Tasks : ~FirstToLink(t)
          BY <3>1 DEF FirstToLink
        <5> QED BY <2>0, <4>2, <5>2, <5>3 DEF ListInv, EntryEdge
      <4> QED BY <4>1, <4>2
    <3>5. InMemory(n) \in Seq(Rows) /\ Len(InMemory(n)) = cnt[n] /\ cnt[n] \in Nat
      <4>1. InMemory(n) \in Seq(Rows) /\ Len(InMemory(n)) = cnt[n]
        BY <2>0, InMemoryShape
      <4> QED BY <2>0, <4>1 DEF TypeOK
    <3>6. cnt[n] # 0
      BY <3>2, <3>4, <3>5
    <3> QED BY <3>5, <3>6
  <2> QED BY <2>1, <2>2 DEF SoundLists
<1> QED BY <1>1, BuildInvariant, PTL

-----------------------------------------------------------------------------
(* Implementation of ProximityGraph.                                       *)

Edges == [n \in Rows |-> ListOf(n)]

(* Its operators are those of this module.                                 *)
LEMMA SameOperators ==
    /\ \A list : Graph!Listed(list) = Listed(list)
    /\ \A S, k : Graph!InjectiveLists(S, k) = InjectiveLists(S, k)
    /\ \A S, d : Graph!KeptLists(S, d) = KeptLists(S, d)
BY DEF Graph!Listed, Listed, Graph!InjectiveLists, InjectiveLists, Graph!KeptLists, KeptLists,
       Graph!IsPruned, IsPruned, Graph!Removes, Removes

LEMMA GraphInit == Init => Graph!Init
<1> SUFFICES ASSUME Init PROVE Graph!Init
  OBVIOUS
<1>1. TypeOK
  BY TypeInit
<1>2. \A n \in Rows : ListOf(n) = <<>>
  <2> SUFFICES ASSUME NEW n \in Rows PROVE ListOf(n) = <<>>
    OBVIOUS
  <2>1. ListOf(n) = InMemory(n) /\ cnt[n] = 0
    BY DEF Init, ListOf
  <2>2. InMemory(n) \in Seq(Rows) /\ Len(InMemory(n)) = 0
    BY <1>1, <2>1, InMemoryShape
  <2> QED BY <2>1, <2>2
<1>3. LinkedNodes = {}
  <2>1. \A n : ~LinkedNode(n)
    BY DEF LinkedNode, Init, Linking
  <2> QED BY <2>1, MembersOfLinked DEF LinkedMembers
<1> QED BY <1>2, <1>3 DEF Graph!Init

(* Linked nodes are nodes that have, or get, their lists.                  *)
LEMMA LinkedHaveLists ==
    ASSUME SafetyInv, WorkInv, phase # "schedule"
    PROVE  Linked \subseteq LinkedNodes
<1> SUFFICES ASSUME NEW n \in Linked PROVE LinkedNode(n)
  BY MembersOfLinked DEF LinkedMembers
<1>1. 0 \in 0..NumTasks /\ Tasks \subseteq 0..NumTasks
  BY ConstantFacts DEF Tasks
<1>2. n = Entry => n \in built[0]
  BY DEF WorkInv
<1> QED BY <1>1, <1>2 DEF Linked, LinkedNode, HasLinks, Linking

(* Pruning a search's result links the row.                                *)
LEMMA SelectLinks ==
    ASSUME StoringInv, StoringInv', WorkInv, ListInv, ~AnyStoreOrder, [Next]_vars,
           NEW t \in Tasks, SelectNeighbors(t)
    PROVE  Graph!Link(row[t])
<1>0. SafetyInv /\ TypeOK /\ ListsAre' /\ \A u \in Tasks : TaskLists(u)
  <2>1. ListsAre'
    BY ListsOfNodes, PTL
  <2> QED BY <2>1 DEF StoringInv, SafetyInv, ListInv
<1>T. /\ sel \in [Tasks -> Seq(Rows)] /\ fwd \in [Tasks -> SUBSET Fields]
      /\ pc \in [Tasks -> Locations]
  BY <1>0 DEF TypeOK
<1>1. PICK list \in KeptLists(srch[t].W, [c \in srch[t].W |-> Near(t, c)]) :
        sel' = [sel EXCEPT ![t] = list] /\ fwd' = [fwd EXCEPT ![t] = 0..Len(list)]
  BY DEF SelectNeighbors
<1>2. PICK r \in Rows : r = row[t]
  BY <1>0 DEF TypeOK
<1>3. pc[t] = "search" /\ row' = row /\ sel'[t] = list /\ phase = "build"
  BY <1>0, <1>T, <1>1, BuildRuns DEF SelectNeighbors, Idle
<1>4. list # <<>> /\ Listed(list) \subseteq Linked /\ r \notin Linked
  BY <1>0, <1>2, <1>3, SearchFindsLinked
<1>5. Linked \subseteq LinkedNodes
  BY <1>0, <1>3, LinkedHaveLists
<1>6. r \notin LinkedNodes
  <2> SUFFICES ASSUME LinkedNode(r) PROVE FALSE
    BY MembersOfLinked DEF LinkedMembers
  <2>1. built[0] = {Entry} /\ Entry \in Linked
    BY <1>3 DEF WorkInv, Linked
  <2>2. ASSUME NEW u \in 0..NumTasks, r \in built[u] PROVE FALSE
    <3>1. u = 0 \/ u \in Tasks
      BY ConstantFacts DEF Tasks
    <3> QED BY <1>2, <1>4, <2>1, <2>2, <3>1 DEF Linked
  <2>3. ASSUME NEW u \in Tasks, pc[u] \in Linking, r = row[u] PROVE FALSE
    <3>1. row[u] \in RowRange(u) /\ row[t] \in RowRange(t) /\ u # t
      BY <1>0, <1>3, <2>3 DEF SafetyInv, RowsInv, Linking, Idle
    <3> QED BY <1>2, <2>3, <3>1, RangesDisjoint
  <2> QED BY <2>2, <2>3 DEF LinkedNode
<1>7. list \in InjectiveLists(LinkedNodes, R)
  <2>1. PICK k \in 0..R : /\ list \in [1..k -> srch[t].W]
                          /\ \A i, j \in 1..k : i # j => list[i] # list[j]
    BY PruneAssumption DEF KeptLists, InjectiveLists
  <2>2. srch[t].W \subseteq LinkedNodes
    BY <1>0, <1>5 DEF SafetyInv, LinkInv, Within
  <2>3. list \in [1..k -> LinkedNodes]
    BY <2>1, <2>2
  <2> QED BY <2>1, <2>3 DEF InjectiveLists
<1>8. LinkedNodes' = LinkedNodes \cup {r}
  <2>1. \A u \in Tasks : SelectNeighbors(u) => u = t
    BY <1>0, OneDecides
  <2>2. r \in LinkedNodes'
    <3>1. pc'[t] \in Linking /\ row'[t] = r
      BY <1>T, <1>2, <1>3 DEF SelectNeighbors, Linking
    <3>2. LinkedNode(r)'
      BY <3>1 DEF LinkedNode
    <3>3. LinkedMembers'
      BY MembersOfLinked, PTL
    <3> QED BY <3>2, <3>3 DEF LinkedMembers
  <2>3. Entry \in LinkedNodes
    BY <1>5 DEF Linked
  <2> QED BY <1>0, <1>2, <2>1, <2>2, <2>3, LinkedNodesStep
<1>9. \A m \in Rows \ {r} : ListOf(m)' = ListOf(m)
  BY <1>0, <1>2, OneDecides, ListsStand
<1>10. ListOf(r)' = list
  <2>1. Len(list) \in Nat
    BY KeptListsShape
  <2>2. fwd'[t] # {} /\ row'[t] = r
    <3>1. fwd'[t] = 0..Len(list) /\ 0 \in 0..Len(list)
      BY <1>T, <1>1, <2>1
    <3> QED BY <1>2, <1>3, <3>1
  <2>3. \A n \in Rows : row'[t] = n /\ fwd'[t] # {} => ListOf(n)' = sel'[t]
    BY <1>0 DEF ListsAre
  <2> QED BY <1>3, <2>2, <2>3
<1>11. Edges' = [Edges EXCEPT ![r] = list]
  BY <1>9, <1>10 DEF Edges
<1>12. Graph!Link(r)
  BY <1>4, <1>6, <1>7, <1>8, <1>11, SameOperators DEF Graph!Link, Edges
<1> QED BY <1>2, <1>12

(* Taking a target's lock adds the reciprocal edge.                        *)
LEMMA LockLinksBack ==
    ASSUME StoringInv, StoringInv', WorkInv, ListInv, ~AnyStoreOrder, [Next]_vars,
           NEW t \in Tasks, LockTarget(t)
    PROVE  Graph!LinkBack(Target(t), row[t])
<1>0. SafetyInv /\ TypeOK /\ ListsAre'
  <2>1. ListsAre'
    BY ListsOfNodes, PTL
  <2> QED BY <2>1 DEF StoringInv, SafetyInv
<1>T. /\ want \in [Tasks -> Seq(Rows)] /\ pc \in [Tasks -> Locations]
      /\ cnt \in [Rows -> 0..R]
  BY <1>0 DEF TypeOK
<1>1. PICK s \in Rows : s = Target(t)
  BY BackEdgeDecided
<1>2. PICK n : n = row[t]
  OBVIOUS
<1>3. /\ s \in Linked /\ n \in Linked /\ n # s /\ n \notin Listed(ListOf(s))
      /\ ListOf(s) = InMemory(s)
  BY <1>1, <1>2, BackEdgeDecided
<1>4. phase = "build" /\ pc[t] = "connect" /\ Target(t)' = s /\ pc'[t] \in Critical
  <2>1. pc[t] = "connect" /\ pc'[t] \in Critical /\ UNCHANGED <<sel, si>>
    BY <1>T DEF LockTarget, Critical
  <2> QED BY <1>0, <1>1, <2>1, BuildRuns DEF Idle, Target
<1>5. s \in LinkedNodes /\ n \in LinkedNodes
  BY <1>0, <1>3, <1>4, LinkedHaveLists
<1>6. LinkedNodes' = LinkedNodes
  <2>1. \A u \in Tasks : ~SelectNeighbors(u)
    BY <1>0, OneDecides
  <2>2. Entry \in LinkedNodes
    BY <1>0, <1>4, LinkedHaveLists DEF Linked
  <2> QED BY <1>0, <2>1, <2>2, LinkedNodesStep
<1>7. \A m \in Rows \ {s} : ListOf(m)' = ListOf(m)
  BY <1>0, <1>1, OneDecides, ListsStand
<1>8. ListOf(s)' = want'[t]
  <2>1. \A m \in Rows : pc'[t] \in Critical /\ Target(t)' = m => ListOf(m)' = want'[t]
    BY <1>0 DEF ListsAre
  <2> QED BY <1>4, <2>1
<1>9. Len(ListOf(s)) = cnt[s] /\ cnt[s] \in 0..R
  BY <1>0, <1>T, <1>3, InMemoryShape
<1>10. \/ cnt[s] < R /\ want'[t] = Append(ListOf(s), n)
       \/ /\ ~(cnt[s] < R)
          /\ LET cand == Listed(ListOf(s)) \cup {n} IN
             \E list \in KeptLists(cand, [x \in cand |-> CodeDist(s, x)]) : want'[t] = list
  BY ZenonT(40), <1>T, <1>1, <1>2, <1>3 DEF LockTarget, HasRoom
<1>11. ~(cnt[s] < R) => Len(ListOf(s)) = R
  BY <1>9, ConstantFacts
<1>12. Edges' = [Edges EXCEPT ![s] = want'[t]] /\ Edges[s] = ListOf(s)
  BY <1>7, <1>8 DEF Edges
<1>13. \/ Len(Edges[s]) < R /\ Edges' = [Edges EXCEPT ![s] = Append(@, n)]
       \/ /\ Len(Edges[s]) = R
          /\ LET cand == Listed(Edges[s]) \cup {n} IN
             \E list \in KeptLists(cand, [x \in cand |-> CodeDist(s, x)]) :
                Edges' = [Edges EXCEPT ![s] = list]
  BY <1>9, <1>10, <1>11, <1>12
<1>14. s \in LinkedNodes /\ n \in LinkedNodes \ (Listed(Edges[s]) \cup {s})
  BY <1>3, <1>5, <1>12
<1>15. Graph!LinkBack(s, n)
  BY <1>6, <1>13, <1>14, SameOperators DEF Graph!LinkBack, Edges
<1> QED BY <1>1, <1>2, <1>15

(* Before the build nothing is linked; the leader links the entry point.   *)
LEMMA LeaderLinks ==
    ASSUME StoringInv, WorkInv, LeaderInsertEntry, \A m \in Rows : ListOf(m)' = ListOf(m)
    PROVE  Graph!Link(Entry)
<1> USE ConstantFacts
<1>0. TypeOK /\ SafetyInv /\ ListsAre
  BY ListsOfNodes DEF StoringInv, SafetyInv
<1>1. /\ \A t \in Tasks : pc[t] = "next"
      /\ \A t \in 0..NumTasks : built[t] = {}
      /\ \A n \in Rows : cnt[n] = 0
      /\ built' = [built EXCEPT ![0] = {Entry}] /\ UNCHANGED <<pc, row>>
  BY DEF LeaderInsertEntry, WorkInv, task
<1>2. LinkedNodes = {}
  <2>1. \A n : ~LinkedNode(n)
    BY <1>1 DEF LinkedNode, Linking
  <2> QED BY <2>1, MembersOfLinked DEF LinkedMembers
<1>3. LinkedNodes' = {Entry}
  <2>1. 0 \in 0..NumTasks /\ built \in [0..NumTasks -> SUBSET Rows]
    BY <1>0 DEF TypeOK
  <2>2. \A n : LinkedNode(n)' <=> n = Entry
    BY <1>1, <2>1 DEF LinkedNode, Linking
  <2>3. LinkedMembers'
    BY MembersOfLinked, PTL
  <2> QED BY <2>2, <2>3 DEF LinkedMembers
<1>4. ListOf(Entry) = <<>>
  <2>1. \A t \in Tasks : fwd[t] = {} /\ pc[t] \notin Critical
    BY <1>0, <1>1 DEF SafetyInv, RowsInv, Critical
  <2>2. lock[Entry] = Unlocked
    <3>1. lock[Entry] \in Tasks \cup {Unlocked}
      BY <1>0 DEF TypeOK
    <3> QED BY <1>0, <2>1, <3>1 DEF SafetyInv, Mutex
  <2>3. ListOf(Entry) = InMemory(Entry)
    BY <1>0, <2>1, <2>2 DEF ListsAre, BeingLinked
  <2>4. InMemory(Entry) \in Seq(Rows) /\ Len(InMemory(Entry)) = 0
    BY <1>0, <1>1, InMemoryShape
  <2> QED BY <2>3, <2>4
<1>5. Edges' = [Edges EXCEPT ![Entry] = <<>>]
  BY <1>4 DEF Edges
<1>6. <<>> \in InjectiveLists(LinkedNodes, R)
  <2>1. <<>> \in [1..0 -> LinkedNodes] /\ 0 \in 0..R
    OBVIOUS
  <2> QED BY <2>1 DEF InjectiveLists
<1> QED BY <1>2, <1>3, <1>5, <1>6, SameOperators DEF Graph!Link, Edges

LEMMA GraphStep ==
    ASSUME StoringInv, StoringInv', WorkInv, ListInv, ~AnyStoreOrder, [Next]_vars
    PROVE  [Graph!Next]_<<Edges, LinkedNodes>>
<1> USE ConstantFacts
<1>0. SafetyInv /\ TypeOK
  BY DEF StoringInv, SafetyInv
<1>1. ASSUME NEW t \in Tasks, SelectNeighbors(t) PROVE Graph!Next
  <2>1. row[t] \in Rows /\ Graph!Link(row[t])
    BY <1>0, <1>1, SelectLinks DEF TypeOK
  <2> QED BY <2>1 DEF Graph!Next
<1>2. ASSUME NEW t \in Tasks, LockTarget(t) PROVE Graph!Next
  <2>1. row[t] \in Rows /\ Target(t) \in Rows /\ Graph!LinkBack(Target(t), row[t])
    BY <1>0, <1>2, LockLinksBack, BackEdgeDecided DEF TypeOK
  <2> QED BY <2>1 DEF Graph!Next
<1>3. CASE \A t \in Tasks : ~SelectNeighbors(t) /\ ~LockTarget(t)
  <2>1. \A m \in Rows : ListOf(m)' = ListOf(m)
    BY <1>3, ListsStand
  <2>2. CASE LeaderInsertEntry
    BY <2>1, <2>2, LeaderLinks DEF Graph!Next
  <2>3. CASE ~LeaderInsertEntry
    <3>1. Edges' = Edges
      BY <2>1 DEF Edges
    <3>2. LinkedNodes' = LinkedNodes
      <4>1. CASE phase = "schedule"
        <5>1. \A t \in Tasks : pc[t] = "next" /\ fwd[t] = {} /\ bck[t] = {}
          BY <1>0, <4>1 DEF WorkInv, SafetyInv, RowsInv, Lists
        <5>2. UNCHANGED <<pc, row, built>>
          BY ZenonT(40), <2>3, <4>1, <5>1
             DEF Next, TaskStep, Finished, vars, task, StartInsert, PushResults, Expand,
                 ReadSlot, EndExpand, SelectNeighbors, StoreForward, Spin, LockTarget,
                 StoreBack, UnlockTarget, EndInsert, FinishEvent
        <5> QED BY <5>2 DEF LinkedNodes
      <4>2. CASE phase # "schedule"
        <5>1. Entry \in LinkedNodes
          BY <1>0, <4>2, LinkedHaveLists DEF Linked
        <5> QED BY <1>0, <1>3, <5>1, LinkedNodesStep
      <4> QED BY <4>1, <4>2
    <3> QED BY <3>1, <3>2
  <2> QED BY <2>2, <2>3
<1> QED BY <1>1, <1>2, <1>3

(* Every interleaving of the tasks' loads and stores, in program order,    *)
(* builds a graph that whole-list updates taken one at a time could have   *)
(* built.                                                                  *)
THEOREM BuildImplementsGraph == ASSUME ~AnyStoreOrder PROVE Spec => BuildsAtomically
<1>1. Init => Graph!Init
  BY GraphInit
<1>2. StoringInv /\ StoringInv' /\ WorkInv /\ ListInv /\ [Next]_vars
        => [Graph!Next]_<<[n \in Rows |-> ListOf(n)], LinkedNodes>>
  BY GraphStep DEF Edges
<1>3. Spec => []StoringInv
  BY StoringInvariant
<1>4. Spec => []BuildInv
  BY BuildInvariant
<1>5. BuildInv => WorkInv /\ ListInv
  BY DEF BuildInv
<1> QED BY <1>1, <1>2, <1>3, <1>4, <1>5, PTL DEF Spec, BuildsAtomically, Graph!Spec
=============================================================================
