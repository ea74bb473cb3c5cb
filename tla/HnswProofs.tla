----------------------------- MODULE HnswProofs -----------------------------
(***************************************************************************)
(* Theorems about HnswCore: the entry point is on top, edges join nodes of *)
(* their layer, the neighbour lists stay simple, a layer's search ends in  *)
(* a local optimum of it, and a search of a small index reaches every row: *)
(* for every number of nodes and levels, every degree, width and distance. *)
(***************************************************************************)
EXTENDS HnswCore, SequenceTheorems, FiniteSetTheorems, TLAPS

-----------------------------------------------------------------------------
(* The inductive invariant.                                                *)

Reach(n, l) == n \in Allocated /\ l <= level[n]

(* Every edge of a layer joins allocated nodes that reach the layer.       *)
EdgesReach ==
    \A n \in Nodes, l \in Layers : \A m \in Listed(links[n][l]) :
        Reach(n, l) /\ Reach(m, l)

(* The entry point is of the highest level, during an operation too.       *)
EntryHighest ==
    size > 0 =>
        /\ entry \in 0 .. size - 1 /\ level[entry] = maxLevel
        /\ \A n \in 0 .. size - 1 : level[n] <= maxLevel

(* Whatever an operation holds reaches the layer it is at; above the first *)
(* layer of an insert the new node has no edges to make.                   *)
HeldReach ==
    /\ op = "none" <=> pc = "idle"
    /\ op # "none" => size > 0
    /\ op = "insert" => size < MaxNodes
    /\ pc = "link" => op = "insert"
    /\ pc # "link" => sel = <<>>
    /\ pc \in {"idle", "greedy"} => cand = {} /\ W = {}
    /\ pc # "idle" => Reach(cur, layer)
    /\ pc = "greedy" => FirstLayer <= layer
    /\ op = "insert" /\ pc \in {"search", "read", "link"} => layer <= level[New]
    /\ pc = "read" => Reach(at, layer)
    /\ \A n \in cand \cup W \cup Listed(sel) : Reach(n, layer)

HInv == TypeOK /\ EdgesReach /\ EntryHighest /\ HeldReach

-----------------------------------------------------------------------------
(* Facts about lists and constants.                                        *)

LEMMA ConstantFacts ==
    /\ MaxNodes \in Nat /\ MaxLevel \in Nat \ {0} /\ Queries \subseteq Vectors
    /\ Nodes \subseteq Nat /\ NoNode \notin Nodes /\ Layers \subseteq Nat
    /\ 0 \in Layers /\ MaxLevel \in Layers
    /\ Blank \in Vectors
BY HnswAssumption DEF Nodes, NoNode, Layers, Blank

LEMMA ListedIsRange ==
    ASSUME NEW S, NEW list \in Seq(S)
    PROVE  Listed(list) \subseteq S
BY DEF Listed

LEMMA EmptyList == Listed(<<>>) = {}
BY DEF Listed

LEMMA AppendedList ==
    ASSUME NEW S, NEW list \in Seq(S), NEW e \in S
    PROVE  /\ Append(list, e) \in Seq(S)
           /\ Listed(Append(list, e)) \subseteq Listed(list) \cup {e}
BY DEF Listed

(* A choice of neighbours is a list of candidates.                         *)
LEMMA ChosenShape ==
    ASSUME NEW S, NEW d, NEW n \in Nat, NEW list \in Chosen(S, d, n)
    PROVE  list \in Seq(S) /\ Listed(list) \subseteq S
<1>1. PICK k \in 0..n : list \in [1..k -> S]
  BY DEF Chosen, InjectiveLists
<1>2. list \in Seq(S) /\ Len(list) = k
  BY <1>1
<1> QED BY <1>1, <1>2 DEF Listed

LEMMA CapacityInNat == \A l \in Layers : Capacity(l) \in Nat
BY HnswAssumption DEF Capacity

(* Edges lie between nodes, so a list's members may be moved to.           *)
LEMMA NeighborsReach ==
    ASSUME HInv, NEW n \in Nodes, NEW k \in 1..Len(links[n][layer])
    PROVE  /\ links[n][layer] \in Seq(Nodes)
           /\ links[n][layer][k] \in Nodes /\ Reach(links[n][layer][k], layer)
<1>1. layer \in Layers /\ links[n][layer] \in Seq(Nodes)
  BY DEF HInv, TypeOK, GraphTypeOK, OperationTypeOK
<1>2. links[n][layer][k] \in Listed(links[n][layer])
  BY DEF Listed
<1> QED BY <1>1, <1>2 DEF HInv, EdgesReach

LEMMA AllocatedAreNodes ==
    ASSUME HInv PROVE Allocated \subseteq Nodes
BY ConstantFacts DEF HInv, TypeOK, GraphTypeOK, OperationTypeOK, HeldReach, Allocated, Nodes

LEMMA BottomIsLayer ==
    ASSUME HInv
    PROVE  /\ Bottom \in Layers /\ FirstLayer \in Layers
           /\ FirstLayer <= Bottom /\ FirstLayer <= maxLevel
           /\ Bottom \in Nat /\ FirstLayer \in Nat
           /\ maxLevel \in Nat /\ layer \in Nat
<1>1. op = "insert" => New \in Nodes
  BY ConstantFacts DEF HInv, TypeOK, GraphTypeOK, OperationTypeOK, HeldReach, New, Nodes
<1>2. Bottom \in Layers /\ maxLevel \in Layers /\ layer \in Layers
  BY <1>1, ConstantFacts DEF HInv, TypeOK, GraphTypeOK, OperationTypeOK, Bottom
<1> QED BY <1>2, ConstantFacts DEF FirstLayer, Min2

(* While the graph stands and an insert neither begins nor ends, the parts *)
(* about the graph hold on.                                                *)
LEMMA GraphStands ==
    ASSUME HInv, UNCHANGED graph, op' = "insert" <=> op = "insert"
    PROVE  /\ Allocated' = Allocated /\ EdgesReach' /\ EntryHighest'
           /\ GraphTypeOK'
           /\ \A n, l : Reach(n, l)' <=> Reach(n, l)
BY DEF HInv, graph, Allocated, EdgesReach, EntryHighest, Reach, TypeOK, GraphTypeOK

-----------------------------------------------------------------------------
(* The steps that search.                                                  *)

LEMMA InitHolds == Init => HInv
<1> SUFFICES ASSUME Init PROVE HInv
  OBVIOUS
<1>1. TypeOK
  BY ConstantFacts, HnswAssumption DEF Init, TypeOK, GraphTypeOK, OperationTypeOK, NoNode
<1>2. EdgesReach /\ EntryHighest
  BY EmptyList DEF Init, EdgesReach, EntryHighest
<1>3. HeldReach
  BY EmptyList DEF Init, HeldReach
<1> QED BY <1>1, <1>2, <1>3 DEF HInv, TypeOK

LEMMA SearchStep == HInv /\ Search => HInv'
<1> SUFFICES ASSUME HInv, Search PROVE HInv'
  OBVIOUS
<1> USE DEF HInv
<1>1. UNCHANGED graph /\ op' = "search" /\ op = "none" /\ pc' = "greedy"
      /\ layer' = maxLevel /\ cur' = entry /\ size > 0 /\ query' \in Vectors
  BY ConstantFacts DEF Search, Begin, HeldReach, TypeOK, GraphTypeOK, OperationTypeOK, Nodes
<1>2. OperationTypeOK'
  <2>1. layer' \in Layers /\ cur' \in Nodes \cup {NoNode}
    BY <1>1 DEF TypeOK, GraphTypeOK
  <2> QED BY <1>1, <2>1 DEF TypeOK, OperationTypeOK, Search, search
<1>3. EdgesReach' /\ EntryHighest' /\ GraphTypeOK' /\ Allocated' = Allocated
      /\ \A n, l : Reach(n, l)' <=> Reach(n, l)
  BY <1>1, GraphStands
<1>4. Reach(cur, layer)' /\ FirstLayer' <= layer'
  BY <1>1, ConstantFacts
     DEF EntryHighest, Reach, Allocated, TypeOK, GraphTypeOK, OperationTypeOK, FirstLayer, Bottom, Min2, graph
<1>5. sel' = <<>> /\ cand' = {} /\ W' = {}
  BY <1>1 DEF HeldReach, Search, search
<1>6. HeldReach'
  BY <1>1, <1>4, <1>5, EmptyList DEF HeldReach, graph
<1> QED BY <1>2, <1>3, <1>6 DEF TypeOK

LEMMA GreedyMoveStep == HInv /\ GreedyMove => HInv'
<1> SUFFICES ASSUME HInv, GreedyMove PROVE HInv'
  OBVIOUS
<1>1. UNCHANGED <<graph, pc, op, query, layer, search, sel, si>> /\ pc = "greedy"
  BY DEF GreedyMove
<1>2. cur' \in Nodes /\ Reach(cur', layer)
  <2>1. cur \in Nodes
    BY <1>1, AllocatedAreNodes DEF HInv, HeldReach, Reach
  <2> QED BY <2>1, NeighborsReach DEF GreedyMove
<1>3. EdgesReach' /\ EntryHighest' /\ GraphTypeOK' /\ Allocated' = Allocated
      /\ \A n, l : Reach(n, l)' <=> Reach(n, l)
  BY <1>1, GraphStands
<1>4. OperationTypeOK'
  BY <1>1, <1>2 DEF HInv, TypeOK, OperationTypeOK, search
<1>5. HeldReach'
  BY <1>1, <1>2, <1>3
     DEF HInv, HeldReach, FirstLayer, Bottom, New, graph, search
<1> QED BY <1>3, <1>4, <1>5 DEF HInv, TypeOK

LEMMA GreedyDownStep == HInv /\ GreedyDown => HInv'
<1> SUFFICES ASSUME HInv, GreedyDown PROVE HInv'
  OBVIOUS
<1>1. UNCHANGED <<graph, pc, op, query, cur, search, sel, si>>
      /\ pc = "greedy" /\ layer > Bottom /\ layer' = layer - 1
  BY DEF GreedyDown, Descending
<1>2. layer' \in Layers /\ Bottom <= layer' /\ layer' <= layer
  BY <1>1, BottomIsLayer, ConstantFacts DEF HInv, TypeOK, GraphTypeOK, OperationTypeOK, Layers
<1>3. EdgesReach' /\ EntryHighest' /\ GraphTypeOK' /\ Allocated' = Allocated
      /\ \A n, l : Reach(n, l)' <=> Reach(n, l)
  BY <1>1, GraphStands
<1>4. OperationTypeOK'
  BY <1>1, <1>2 DEF HInv, TypeOK, OperationTypeOK, search
<1>5. FirstLayer' = FirstLayer /\ FirstLayer' <= layer'
  <2>1. FirstLayer' = FirstLayer
    BY <1>1 DEF FirstLayer, Bottom, New, graph
  <2>2. layer' \in Nat
    BY <1>2, ConstantFacts
  <2> QED BY <1>2, <2>1, <2>2, BottomIsLayer
<1>6. Reach(cur, layer)'
  <2>1. cur \in Nodes /\ level[cur] \in Layers
    BY <1>1, AllocatedAreNodes DEF HInv, HeldReach, Reach, TypeOK, GraphTypeOK, OperationTypeOK
  <2>2. Reach(cur, layer) /\ cur' = cur /\ level' = level
    BY <1>1 DEF HInv, HeldReach, graph
  <2>3. level[cur] \in Nat /\ layer \in Nat /\ layer' \in Nat
    BY <1>2, <2>1, ConstantFacts DEF HInv, TypeOK, OperationTypeOK
  <2>4. layer' <= level[cur]
    BY <1>2, <2>2, <2>3 DEF Reach
  <2> QED BY <1>3, <2>2, <2>4 DEF Reach
<1>7. HeldReach'
  BY <1>1, <1>5, <1>6, EmptyList DEF HInv, HeldReach, search, graph
<1> QED BY <1>3, <1>4, <1>7 DEF HInv, TypeOK

(* A layer's search starts with a node that reaches the layer.             *)
LEMMA SeedHolds ==
    ASSUME HInv, NEW n \in Nodes, NEW l \in Layers, Reach(n, l), Seed(n, l),
           UNCHANGED <<graph, op, query>>, op # "none",
           sel' = <<>>, si' \in Nat \ {0},
           op = "insert" => l <= level[New]
    PROVE  HInv'
<1>1. EdgesReach' /\ EntryHighest' /\ GraphTypeOK' /\ Allocated' = Allocated
      /\ \A m, k : Reach(m, k)' <=> Reach(m, k)
  BY GraphStands
<1>2. OperationTypeOK'
  <2>1. cand' \subseteq Nodes /\ W' \subseteq Nodes /\ marks' \subseteq Nodes
        /\ sel' \in Seq(Nodes) /\ cur' = n /\ layer' = l /\ i' = 1
        /\ at' = NoNode /\ pc' = "search"
    BY DEF Seed
  <2> QED BY <2>1 DEF HInv, TypeOK, OperationTypeOK
<1>3. HeldReach'
  BY <1>1, EmptyList DEF HInv, HeldReach, Seed, New, graph
<1> QED BY <1>1, <1>2, <1>3 DEF HInv, TypeOK

LEMMA EndGreedyStep == HInv /\ EndGreedy => HInv'
<1> SUFFICES ASSUME HInv, EndGreedy PROVE HInv'
  OBVIOUS
<1>1. pc = "greedy" /\ Seed(cur, FirstLayer) /\ UNCHANGED <<graph, op, query, sel, si>>
  BY DEF EndGreedy
<1>2. cur \in Nodes /\ Reach(cur, layer) /\ FirstLayer <= layer
  BY <1>1, AllocatedAreNodes DEF HInv, HeldReach, Reach
<1>3. Reach(cur, FirstLayer)
  <2>1. level[cur] \in Nat
    BY <1>2, ConstantFacts DEF HInv, TypeOK, GraphTypeOK, OperationTypeOK
  <2> QED BY <1>2, <2>1, BottomIsLayer DEF Reach
<1>4. op = "insert" => FirstLayer <= level[New]
  BY BottomIsLayer DEF Bottom
<1>5. sel' = <<>> /\ si' \in Nat \ {0} /\ op # "none"
  BY <1>1 DEF HInv, HeldReach, TypeOK, GraphTypeOK, OperationTypeOK
<1> QED BY <1>1, <1>2, <1>3, <1>4, <1>5, BottomIsLayer, SeedHolds

LEMMA ExpandStep == HInv /\ Expand => HInv'
<1> SUFFICES ASSUME HInv, Expand PROVE HInv'
  OBVIOUS
<1>1. pc = "search" /\ pc' = "read" /\ i' = 1
      /\ UNCHANGED <<graph, op, query, layer, cur, W, marks, sel, si>>
  BY DEF Expand
<1>2. at' \in cand /\ cand' \subseteq cand
  BY DEF Expand
<1>3. EdgesReach' /\ EntryHighest' /\ GraphTypeOK' /\ Allocated' = Allocated
      /\ \A n, l : Reach(n, l)' <=> Reach(n, l)
  BY <1>1, GraphStands
<1>4. OperationTypeOK'
  BY <1>1, <1>2 DEF HInv, TypeOK, OperationTypeOK
<1>5. HeldReach'
  BY <1>1, <1>2, <1>3 DEF HInv, HeldReach, New, graph
<1> QED BY <1>3, <1>4, <1>5 DEF HInv, TypeOK

LEMMA VisitStep == HInv /\ Visit => HInv'
<1> SUFFICES ASSUME HInv, Visit PROVE HInv'
  OBVIOUS
<1> DEFINE n == links[at][layer][i]
<1>1. pc = "read" /\ i <= Len(links[at][layer]) /\ i' = i + 1
      /\ UNCHANGED <<graph, pc, op, query, layer, cur, at, sel, si>>
  BY DEF Visit
<1>2. n \in Nodes /\ Reach(n, layer)
  <2>1. at \in Nodes
    BY <1>1, AllocatedAreNodes DEF HInv, HeldReach, Reach
  <2>2. i \in 1..Len(links[at][layer])
    <3>1. links[at][layer] \in Seq(Nodes) /\ i \in Nat \ {0}
      BY <2>1 DEF HInv, TypeOK, GraphTypeOK, OperationTypeOK
    <3> QED BY <1>1, <3>1
  <2> QED BY <2>1, <2>2, NeighborsReach
<1>3. marks' \subseteq marks \cup {n} /\ cand' \subseteq cand \cup {n}
  BY DEF Visit
<1>4. W' \subseteq W \cup {n}
  BY DEF Visit, Offered
<1> HIDE DEF n
<1>5. EdgesReach' /\ EntryHighest' /\ GraphTypeOK' /\ Allocated' = Allocated
      /\ \A m, l : Reach(m, l)' <=> Reach(m, l)
  BY <1>1, GraphStands
<1>6. OperationTypeOK'
  <2>1. cand' \subseteq Nodes /\ W' \subseteq Nodes /\ marks' \subseteq Nodes
        /\ i' \in Nat \ {0}
    BY <1>1, <1>2, <1>3, <1>4 DEF HInv, TypeOK, OperationTypeOK
  <2> QED BY <1>1, <2>1 DEF HInv, TypeOK, OperationTypeOK
<1>7. HeldReach'
  BY <1>1, <1>2, <1>3, <1>4, <1>5 DEF HInv, HeldReach, New, graph
<1> QED BY <1>5, <1>6, <1>7 DEF HInv, TypeOK

LEMMA EndOfListStep == HInv /\ EndOfList => HInv'
<1> SUFFICES ASSUME HInv, EndOfList PROVE HInv'
  OBVIOUS
<1>1. pc = "read" /\ pc' = "search" /\ at' = NoNode
      /\ UNCHANGED <<graph, op, query, layer, cur, cand, W, marks, i, sel, si>>
  BY DEF EndOfList
<1>2. EdgesReach' /\ EntryHighest' /\ GraphTypeOK' /\ Allocated' = Allocated
      /\ \A n, l : Reach(n, l)' <=> Reach(n, l)
  BY <1>1, GraphStands
<1>3. OperationTypeOK'
  BY <1>1 DEF HInv, TypeOK, OperationTypeOK
<1>4. HeldReach'
  BY <1>1, <1>2 DEF HInv, HeldReach, New, graph
<1> QED BY <1>2, <1>3, <1>4 DEF HInv, TypeOK

-----------------------------------------------------------------------------
(* The steps that change the graph.                                        *)

(* The node an insert makes has no edges, and no list names it yet.        *)
LEMMA NewNode ==
    ASSUME HInv, pc = "idle", size < MaxNodes, NEW v \in Vectors, NEW l \in Layers,
           vec' = [vec EXCEPT ![size] = v],
           level' = [level EXCEPT ![size] = l],
           links' = [links EXCEPT ![size] = [k \in Layers |-> <<>>]],
           Allocated' = 0 .. size
    PROVE  /\ vec' \in [Nodes -> Vectors] /\ level' \in [Nodes -> Layers]
           /\ links' \in [Nodes -> [Layers -> Seq(Nodes)]]
           /\ EdgesReach'
           /\ level'[size] = l /\ \A n \in 0 .. size - 1 : level'[n] = level[n]
<1>1. size \in Nodes /\ Allocated = 0 .. size - 1
      /\ 0 .. size - 1 \subseteq Nodes /\ size \in Nat
  BY ConstantFacts DEF HInv, TypeOK, GraphTypeOK, HeldReach, Allocated, Nodes
<1>2. /\ vec' \in [Nodes -> Vectors] /\ level' \in [Nodes -> Layers]
      /\ links' \in [Nodes -> [Layers -> Seq(Nodes)]]
  <2>1. [k \in Layers |-> <<>>] \in [Layers -> Seq(Nodes)]
    OBVIOUS
  <2> QED BY <1>1, <2>1 DEF HInv, TypeOK, GraphTypeOK
<1>3. level'[size] = l /\ \A n \in 0 .. size - 1 : level'[n] = level[n]
  BY <1>1 DEF HInv, TypeOK, GraphTypeOK
<1>4. \A n, k : Reach(n, k) => Reach(n, k)'
  BY <1>1, <1>3 DEF Reach
<1>5. ASSUME NEW n \in Nodes, NEW k \in Layers, NEW m \in Listed(links'[n][k])
      PROVE  Reach(n, k)' /\ Reach(m, k)'
  <2>1. n # size
    <3>1. n = size => Listed(links'[n][k]) = {}
      BY <1>1, EmptyList DEF HInv, TypeOK, GraphTypeOK
    <3> QED BY <1>5, <3>1
  <2>2. links'[n][k] = links[n][k]
    BY <2>1 DEF HInv, TypeOK, GraphTypeOK
  <2>3. Reach(n, k) /\ Reach(m, k)
    BY <2>2, <1>5 DEF HInv, EdgesReach
  <2> QED BY <1>4, <2>3
<1>6. EdgesReach'
  BY <1>5 DEF EdgesReach
<1> QED BY <1>2, <1>3, <1>6

LEMMA InsertStep == HInv /\ Insert => HInv'
<1> SUFFICES ASSUME HInv, Insert PROVE HInv'
  OBVIOUS
<1>1. pc = "idle" /\ size < MaxNodes /\ op = "none" /\ size \in Nat
      /\ UNCHANGED <<search, sel, si>> /\ sel = <<>> /\ cand = {} /\ W = {}
  BY DEF Insert, HInv, HeldReach, TypeOK, GraphTypeOK
<1>2. PICK v \in Vectors, l \in Layers :
        /\ vec' = [vec EXCEPT ![size] = v]
        /\ level' = [level EXCEPT ![size] = l]
        /\ links' = [links EXCEPT ![size] = [k \in Layers |-> <<>>]]
        /\ \/ /\ size = 0
              /\ entry' = size /\ maxLevel' = l /\ size' = 1
              /\ UNCHANGED <<pc, op, query, layer, cur>>
           \/ /\ size # 0
              /\ Begin("insert", v)
              /\ UNCHANGED <<size, entry, maxLevel>>
  BY DEF Insert
<1>3. CASE size = 0
  <2>1. entry' = size /\ maxLevel' = l /\ size' = 1
        /\ UNCHANGED <<pc, op, query, layer, cur>>
    BY <1>2, <1>3
  <2>2. Allocated' = 0 .. size
    BY <1>1, <1>3, <2>1 DEF Allocated
  <2>3. /\ vec' \in [Nodes -> Vectors] /\ level' \in [Nodes -> Layers]
        /\ links' \in [Nodes -> [Layers -> Seq(Nodes)]]
        /\ EdgesReach' /\ level'[size] = l
    BY <1>1, <1>2, <2>2, NewNode
  <2>4. EntryHighest'
    BY <1>3, <2>1, <2>3, ConstantFacts DEF EntryHighest
  <2>5. GraphTypeOK'
    BY <1>1, <1>3, <2>1, <2>3, ConstantFacts DEF GraphTypeOK, Nodes, NoNode
  <2>6. OperationTypeOK'
    BY <1>1, <2>1 DEF HInv, TypeOK, OperationTypeOK, search
  <2>7. HeldReach'
    BY <1>1, <2>1, EmptyList DEF HInv, HeldReach, search
  <2> QED BY <2>3, <2>4, <2>5, <2>6, <2>7 DEF HInv, TypeOK
<1>4. CASE size # 0
  <2>1. op' = "insert" /\ query' = v /\ pc' = "greedy" /\ layer' = maxLevel
        /\ cur' = entry /\ UNCHANGED <<size, entry, maxLevel>>
    BY <1>2, <1>4 DEF Begin
  <2>2. Allocated' = 0 .. size
    BY <2>1 DEF Allocated
  <2>3. /\ vec' \in [Nodes -> Vectors] /\ level' \in [Nodes -> Layers]
        /\ links' \in [Nodes -> [Layers -> Seq(Nodes)]]
        /\ EdgesReach' /\ level'[size] = l
        /\ \A n \in 0 .. size - 1 : level'[n] = level[n]
    BY <1>1, <1>2, <2>2, NewNode
  <2>4. EntryHighest'
    BY <1>1, <1>4, <2>1, <2>3 DEF HInv, EntryHighest
  <2>5. GraphTypeOK'
    BY <2>1, <2>3 DEF HInv, TypeOK, GraphTypeOK
  <2>6. layer' \in Layers /\ cur' \in Nodes \cup {NoNode}
    BY <2>1 DEF HInv, TypeOK, GraphTypeOK
  <2>7. OperationTypeOK'
    BY <1>1, <2>1, <2>6 DEF HInv, TypeOK, OperationTypeOK, search
  <2>8. Reach(cur, layer)'
    <3>1. entry \in 0 .. size - 1 /\ level'[entry] = maxLevel
      BY <1>1, <1>4, <2>3 DEF HInv, EntryHighest
    <3> QED BY <1>1, <2>1, <2>2, <2>6, <3>1, ConstantFacts DEF Reach
  <2>9. FirstLayer' <= layer'
    <3>1. Bottom' = l
      BY <2>1, <2>3 DEF Bottom, New
    <3> QED BY <2>1, <2>6, <3>1, ConstantFacts DEF FirstLayer, Min2
  <2>10. HeldReach'
    BY <1>1, <1>4, <2>1, <2>8, <2>9, EmptyList DEF HeldReach, search
  <2> QED BY <2>3, <2>4, <2>5, <2>7, <2>10 DEF HInv, TypeOK
<1> QED BY <1>3, <1>4
(* A list replaced by one of nodes that reach its layer.                   *)
LEMMA ListReplaced ==
    ASSUME HInv, NEW n \in Nodes, Reach(n, layer), NEW list \in Seq(Nodes),
           \A m \in Listed(list) : Reach(m, layer),
           links' = [links EXCEPT ![n][layer] = list],
           UNCHANGED <<size, entry, maxLevel, vec, level, op>>
    PROVE  /\ GraphTypeOK' /\ EdgesReach' /\ EntryHighest'
           /\ \A m, k : Reach(m, k)' <=> Reach(m, k)
<1>1. layer \in Layers /\ links \in [Nodes -> [Layers -> Seq(Nodes)]]
  BY DEF HInv, TypeOK, GraphTypeOK, OperationTypeOK
<1>2. links' \in [Nodes -> [Layers -> Seq(Nodes)]]
  BY <1>1
<1>3. GraphTypeOK'
  BY <1>2 DEF HInv, TypeOK, GraphTypeOK
<1>4. \A m, k : Reach(m, k)' <=> Reach(m, k)
  BY DEF Reach, Allocated
<1>5. ASSUME NEW m \in Nodes, NEW k \in Layers, NEW e \in Listed(links'[m][k])
      PROVE  Reach(m, k) /\ Reach(e, k)
  <2>1. CASE m = n /\ k = layer
    <3>1. links'[m][k] = list
      BY <1>1, <2>1
    <3> QED BY <1>5, <2>1, <3>1
  <2>2. CASE ~(m = n /\ k = layer)
    <3>1. links'[m][k] = links[m][k]
      BY <1>1, <2>2
    <3> QED BY <1>5, <3>1 DEF HInv, EdgesReach
  <2> QED BY <2>1, <2>2
<1>6. EdgesReach'
  BY <1>4, <1>5 DEF EdgesReach
<1>7. EntryHighest'
  BY DEF HInv, EntryHighest
<1> QED BY <1>3, <1>4, <1>6, <1>7

LEMMA SelectStep == HInv /\ Select => HInv'
<1> SUFFICES ASSUME HInv, Select PROVE HInv'
  OBVIOUS
<1>1. /\ pc = "search" /\ op = "insert" /\ si' = 1 /\ pc' = "link"
      /\ cand' = {} /\ marks' = {} /\ i' = 1
      /\ UNCHANGED <<size, entry, maxLevel, vec, level, op, query, layer, cur, W, at>>
  BY DEF Select
<1>2. PICK list \in Chosen(W, [n \in W |-> Near(n)], Capacity(layer)) :
        sel' = list /\ links' = [links EXCEPT ![New][layer] = list]
  BY DEF Select
<1>3. W \subseteq Nodes /\ layer \in Layers
  BY DEF HInv, TypeOK, OperationTypeOK
<1>4. list \in Seq(W) /\ Listed(list) \subseteq W
  BY <1>3, CapacityInNat, ChosenShape
<1>5. list \in Seq(Nodes) /\ \A m \in Listed(list) : Reach(m, layer)
  BY <1>3, <1>4 DEF HInv, HeldReach
<1>6. New \in Nodes /\ Reach(New, layer)
  BY <1>1, ConstantFacts
     DEF HInv, HeldReach, TypeOK, GraphTypeOK, New, Nodes, Reach, Allocated
<1>7. GraphTypeOK' /\ EdgesReach' /\ EntryHighest'
      /\ \A m, k : Reach(m, k)' <=> Reach(m, k)
  BY <1>1, <1>2, <1>5, <1>6, ListReplaced
<1>8. OperationTypeOK'
  BY <1>1, <1>2, <1>5 DEF HInv, TypeOK, OperationTypeOK
<1>9. HeldReach'
  BY <1>1, <1>2, <1>5, <1>7 DEF HInv, HeldReach, New
<1> QED BY <1>7, <1>8, <1>9 DEF HInv, TypeOK

LEMMA LinkBackStep == HInv /\ LinkBack => HInv'
<1> SUFFICES ASSUME HInv, LinkBack PROVE HInv'
  OBVIOUS
<1> DEFINE s    == sel[si]
           old  == links[s][layer]
           near == Listed(old) \cup {New}
           d    == [n \in near |-> IF n = New THEN Near(s)
                                   ELSE CodeDist(vec[s], vec[n])]
<1>1. /\ pc = "link" /\ si <= Len(sel) /\ si' = si + 1 /\ op = "insert"
      /\ UNCHANGED <<size, entry, maxLevel, vec, level, pc, op, query, layer, cur,
                     search, sel>>
  BY DEF LinkBack, HInv, HeldReach
<1>2. layer \in Layers /\ sel \in Seq(Nodes) /\ si \in Nat \ {0}
  BY DEF HInv, TypeOK, OperationTypeOK
<1>3. s \in Nodes /\ Reach(s, layer)
  <2>1. si \in 1..Len(sel)
    BY <1>1, <1>2
  <2>2. s \in Listed(sel) /\ s \in Nodes
    BY <1>2, <2>1 DEF Listed
  <2> QED BY <2>2 DEF HInv, HeldReach
<1>4. New \in Nodes /\ Reach(New, layer)
  BY <1>1, ConstantFacts
     DEF HInv, HeldReach, TypeOK, GraphTypeOK, New, Nodes, Reach, Allocated
<1>5. old \in Seq(Nodes)
  BY <1>2, <1>3 DEF HInv, TypeOK, GraphTypeOK
<1>6. near \subseteq Nodes /\ \A m \in near : Reach(m, layer)
  BY <1>2, <1>3, <1>4, <1>5, ListedIsRange DEF HInv, EdgesReach
<1>7. \E list \in Seq(Nodes) :
        /\ Listed(list) \subseteq near
        /\ links' = [links EXCEPT ![s][layer] = list]
  <2>1. \/ links' = [links EXCEPT ![s][layer] = Append(old, New)]
        \/ \E list \in Chosen(near, d, Capacity(layer)) :
             links' = [links EXCEPT ![s][layer] = list]
    BY DEF LinkBack
  <2> HIDE DEF s, old, d
  <2>2. CASE links' = [links EXCEPT ![s][layer] = Append(old, New)]
    BY <1>4, <1>5, <2>2, AppendedList
  <2> HIDE DEF near
  <2>3. ASSUME NEW list \in Chosen(near, d, Capacity(layer)),
               links' = [links EXCEPT ![s][layer] = list]
        PROVE  list \in Seq(Nodes) /\ Listed(list) \subseteq near
    <3>1. list \in Seq(near) /\ Listed(list) \subseteq near
      BY <1>2, CapacityInNat, ChosenShape
    <3> QED BY <1>6, <3>1
  <2> QED BY <2>1, <2>2, <2>3
<1> HIDE DEF s, old, near, d
<1>8. GraphTypeOK' /\ EdgesReach' /\ EntryHighest'
      /\ \A m, k : Reach(m, k)' <=> Reach(m, k)
  <2>1. PICK list \in Seq(Nodes) :
          /\ Listed(list) \subseteq near
          /\ links' = [links EXCEPT ![s][layer] = list]
    BY <1>7
  <2> QED BY <1>1, <1>3, <1>6, <2>1, ListReplaced
<1>9. OperationTypeOK'
  BY <1>1, <1>2 DEF HInv, TypeOK, OperationTypeOK, search
<1>10. HeldReach'
  BY <1>1, <1>8 DEF HInv, HeldReach, New, search
<1> QED BY <1>8, <1>9, <1>10 DEF HInv, TypeOK

LEMMA NextLayerStep == HInv /\ NextLayer => HInv'
<1> SUFFICES ASSUME HInv, NextLayer PROVE HInv'
  OBVIOUS
<1>1. /\ pc = "link" /\ layer > 0 /\ sel' = <<>> /\ si' = 1
      /\ UNCHANGED <<graph, op, query>>
  BY DEF NextLayer
<1>2. PICK n \in W : Seed(n, layer - 1)
  BY DEF NextLayer
<1>3. n \in Nodes /\ Reach(n, layer) /\ layer - 1 \in Layers /\ layer \in Nat
  BY <1>1, ConstantFacts DEF HInv, HeldReach, TypeOK, OperationTypeOK, Layers
<1>4. Reach(n, layer - 1)
  <2>1. level[n] \in Nat
    BY <1>3, ConstantFacts DEF HInv, TypeOK, GraphTypeOK
  <2> QED BY <1>3, <2>1 DEF Reach
<1>5. op = "insert" /\ layer - 1 <= level[New]
  <2>1. op = "insert" /\ layer <= level[New] /\ New \in Nodes
    BY <1>1, ConstantFacts
       DEF HInv, HeldReach, TypeOK, GraphTypeOK, New, Nodes
  <2>2. level[New] \in Nat
    BY <2>1, ConstantFacts DEF HInv, TypeOK, GraphTypeOK
  <2> QED BY <1>3, <2>1, <2>2
<1> QED BY <1>1, <1>2, <1>3, <1>4, <1>5, SeedHolds

LEMMA EndInsertStep == HInv /\ EndInsert => HInv'
<1> SUFFICES ASSUME HInv, EndInsert PROVE HInv'
  OBVIOUS
<1>1. /\ op = "insert" /\ size' = size + 1 /\ sel' = <<>> /\ si' = 1 /\ Rest
      /\ size > 0 /\ size < MaxNodes /\ size \in Nat
      /\ UNCHANGED <<vec, level, links>>
  BY DEF EndInsert, HInv, HeldReach, TypeOK, GraphTypeOK
<1>2. \/ level[size] > maxLevel /\ maxLevel' = level[size] /\ entry' = size
      \/ ~(level[size] > maxLevel) /\ UNCHANGED <<maxLevel, entry>>
  BY DEF EndInsert, Raised, New
<1>3. size \in Nodes /\ level[size] \in Layers /\ maxLevel \in Layers
      /\ level[size] \in Nat /\ maxLevel \in Nat
  <2>1. size \in Nodes
    BY <1>1, ConstantFacts DEF Nodes
  <2>2. level[size] \in Layers /\ maxLevel \in Layers
    BY <2>1 DEF HInv, TypeOK, GraphTypeOK
  <2> QED BY <2>1, <2>2, ConstantFacts
<1>4. Allocated' = Allocated /\ EdgesReach'
  <2>1. Allocated' = Allocated
    BY <1>1 DEF Allocated, Rest
  <2> QED BY <1>1, <2>1 DEF HInv, EdgesReach, Reach
<1>5. EntryHighest'
  <2>1. entry \in 0 .. size - 1 /\ level[entry] = maxLevel
        /\ \A n \in 0 .. size - 1 : level[n] <= maxLevel /\ level[n] \in Nat
    <3>1. 0 .. size - 1 \subseteq Nodes
      BY <1>1, ConstantFacts DEF Nodes
    <3>2. \A n \in 0 .. size - 1 : level[n] \in Layers
      BY <3>1 DEF HInv, TypeOK, GraphTypeOK
    <3> QED BY <1>1, <3>2, ConstantFacts DEF HInv, EntryHighest
  <2>2. \A n \in 0 .. size : n = size \/ n \in 0 .. size - 1
    BY <1>1
  <2> QED BY <1>1, <1>2, <1>3, <2>1, <2>2 DEF EntryHighest
<1>6. GraphTypeOK'
  <2>1. size' \in 0..MaxNodes /\ size' # 0
    BY <1>1, ConstantFacts
  <2>2. entry' \in Nodes /\ maxLevel' \in Layers
    <3>1. entry \in Nodes
      BY <1>1 DEF HInv, TypeOK, GraphTypeOK
    <3> QED BY <1>2, <1>3, <3>1
  <2> QED BY <1>1, <2>1, <2>2, ConstantFacts DEF HInv, TypeOK, GraphTypeOK
<1>7. OperationTypeOK'
  BY <1>1, ConstantFacts DEF Rest, OperationTypeOK
<1>8. HeldReach'
  BY <1>1, EmptyList DEF HeldReach, Rest
<1> QED BY <1>4, <1>5, <1>6, <1>7, <1>8 DEF HInv, TypeOK

LEMMA EndSearchStep == HInv /\ EndSearch => HInv'
<1> SUFFICES ASSUME HInv, EndSearch PROVE HInv'
  OBVIOUS
<1>1. pc = "search" /\ op = "search" /\ Rest /\ UNCHANGED <<graph, sel, si>>
      /\ sel = <<>>
  BY DEF EndSearch, HInv, HeldReach
<1>2. op' = "insert" <=> op = "insert"
  BY <1>1 DEF Rest
<1>3. EdgesReach' /\ EntryHighest' /\ GraphTypeOK'
  BY <1>1, <1>2, GraphStands
<1>4. OperationTypeOK'
  BY <1>1, ConstantFacts DEF HInv, TypeOK, OperationTypeOK, Rest
<1>5. HeldReach'
  BY <1>1, EmptyList DEF HeldReach, Rest
<1> QED BY <1>3, <1>4, <1>5 DEF HInv, TypeOK

-----------------------------------------------------------------------------
(* The theorems.                                                           *)

LEMMA NextHolds == HInv /\ [Next]_vars => HInv'
<1>1. HInv /\ UNCHANGED vars => HInv'
  BY DEF vars, graph, search, HInv, TypeOK, GraphTypeOK, OperationTypeOK,
         EdgesReach, EntryHighest, HeldReach, Reach, Allocated, FirstLayer,
         Bottom, New
<1> QED
  BY <1>1, InsertStep, SearchStep, GreedyMoveStep, GreedyDownStep, EndGreedyStep,
     ExpandStep, VisitStep, EndOfListStep, SelectStep, LinkBackStep,
     NextLayerStep, EndInsertStep, EndSearchStep
  DEF Next, Step

LEMMA HInvHolds == Spec => []HInv
BY InitHolds, NextHolds, PTL DEF Spec

(* Every reachable state of the HNSW core is well typed.                   *)
THEOREM HnswTypeCorrect == Spec => []TypeOK
<1>1. HInv => TypeOK
  BY DEF HInv
<1> QED BY <1>1, HInvHolds, PTL

(* No search and no insert reads a list past the end of a node's block,    *)
(* whatever levels are drawn and in whatever order vectors come.           *)
THEOREM ListsStayInBlocks == Spec => []NoReadPastBlock
<1>1. HInv => NoReadPastBlock
  BY AllocatedAreNodes DEF HInv, EdgesReach, HeldReach, Reach, NoReadPastBlock
<1> QED BY <1>1, HInvHolds, PTL

(* Between operations the entry point is a node of the highest level.      *)
THEOREM EntryStaysOnTop == Spec => []EntryIsTop
<1>1. HInv => EntryIsTop
  BY ConstantFacts
     DEF HInv, EntryHighest, EntryIsTop, TypeOK, GraphTypeOK
<1> QED BY <1>1, HInvHolds, PTL
-----------------------------------------------------------------------------
(* The inductive invariant, on top of HInv.                                *)

Injective(list) == \A a, b \in 1..Len(list) : list[a] = list[b] => a = b

Simple(list, n, l) ==
    Len(list) <= Capacity(l) /\ Injective(list) /\ n \notin Listed(list)

EveryListSimple == \A n \in Nodes, l \in Layers : Simple(links[n][l], n, l)

(* Layers on which no list names the node being inserted yet.              *)
Ahead(l) == pc = "greedy" \/ l < layer \/ (l = layer /\ pc # "link")

(* So a search on the way does not meet the new node.                      *)
NewIsUnmet ==
    op = "insert" =>
        /\ \A n \in Nodes, l \in Layers : Ahead(l) => New \notin Listed(links[n][l])
        /\ New \notin cand \cup W \cup Listed(sel) \cup {cur}

(* The selected nodes are linked one after the other; those still to come  *)
(* do not name the new node yet.                                           *)
LinksToCome ==
    pc = "link" =>
        /\ Injective(sel)
        /\ \A j \in 1..Len(sel) : j >= si => New \notin Listed(links[sel[j]][layer])

LInv == HInv /\ EveryListSimple /\ NewIsUnmet /\ LinksToCome

-----------------------------------------------------------------------------
(* Facts about lists.                                                      *)

(* A choice of neighbours names each at most once, and no more than asked. *)
LEMMA ChosenIsSimple ==
    ASSUME NEW S, NEW d, NEW n \in Nat, NEW list \in Chosen(S, d, n)
    PROVE  Len(list) <= n /\ Injective(list)
<1>1. PICK k \in 0..n : /\ list \in [1..k -> S]
                        /\ \A a, b \in 1..k : a # b => list[a] # list[b]
  BY DEF Chosen, InjectiveLists
<1>2. Len(list) = k
  BY <1>1
<1> QED BY <1>1, <1>2 DEF Injective

LEMMA AppendedIsSimple ==
    ASSUME NEW list \in Seq(Nodes), NEW e \in Nodes,
           Injective(list), e \notin Listed(list)
    PROVE  Len(Append(list, e)) = Len(list) + 1 /\ Injective(Append(list, e))
<1> DEFINE n == Len(list)
           longer == Append(list, e)
<1>1. n \in Nat /\ Len(longer) = n + 1 /\ longer[n + 1] = e
      /\ \A j \in 1..n : longer[j] = list[j]
  OBVIOUS
<1>2. \A j \in 1..n : longer[j] # e
  BY <1>1 DEF Listed
<1> HIDE DEF longer
<1>3. ASSUME NEW a \in 1..(n + 1), NEW b \in 1..(n + 1), longer[a] = longer[b]
      PROVE  a = b
  <2>1. CASE a \in 1..n /\ b \in 1..n
    BY <1>1, <1>3, <2>1 DEF Injective
  <2>2. CASE a = n + 1 \/ b = n + 1
    BY <1>1, <1>2, <1>3, <2>2
  <2> QED BY <1>1, <2>1, <2>2
<1>4. Injective(longer)
  BY <1>1, <1>3 DEF Injective
<1> QED BY <1>1, <1>4 DEF longer

(* A list without repetition names as many nodes as it is long.            *)
LEMMA InjectiveCardinality ==
    ASSUME NEW list \in Seq(Nodes), Injective(list)
    PROVE  Cardinality(Listed(list)) = Len(list)
<1>1. Len(list) \in Nat /\ list \in Bijection(1..Len(list), Listed(list))
  BY DEF Listed, Injective, Bijection, Injection, Surjection, IsInjective
<1>2. ExistsBijection(1..Len(list), Listed(list))
  BY <1>1 DEF ExistsBijection
<1> QED BY <1>1, <1>2, FS_CountingElements

LEMMA LayersAreNumbers ==
    ASSUME HInv
    PROVE  /\ layer \in Layers /\ layer \in Nat /\ Layers \subseteq Nat
           /\ links \in [Nodes -> [Layers -> Seq(Nodes)]] /\ size \in Nat
           /\ cand \subseteq Nodes /\ W \subseteq Nodes /\ sel \in Seq(Nodes)
<1>1. layer \in Layers /\ Layers \subseteq Nat
  BY ConstantFacts DEF HInv, TypeOK, OperationTypeOK
<1>2. links \in [Nodes -> [Layers -> Seq(Nodes)]] /\ size \in Nat
  BY ConstantFacts DEF HInv, TypeOK, GraphTypeOK
<1>3. cand \subseteq Nodes /\ W \subseteq Nodes /\ sel \in Seq(Nodes)
  BY DEF HInv, TypeOK, OperationTypeOK
<1> QED BY <1>1, <1>2, <1>3

LEMMA NewIsNode ==
    ASSUME HInv, op = "insert" PROVE New \in Nodes
BY ConstantFacts DEF HInv, HeldReach, TypeOK, GraphTypeOK, New, Nodes

(* Lists that do not change stay simple.                                   *)
LEMMA ListsKept ==
    ASSUME LInv, UNCHANGED links PROVE EveryListSimple'
BY DEF LInv, EveryListSimple, Simple

(* A step of a search keeps the invariant when it meets no new node and    *)
(* puts no layer ahead that was behind.                                    *)
LEMMA SearchKeeps ==
    ASSUME LInv, HInv', UNCHANGED <<graph, op, sel>>, pc' # "link",
           op = "insert" => /\ \A l \in Layers : Ahead(l)' => Ahead(l)
                            /\ New \notin cand' \cup W' \cup Listed(sel) \cup {cur'}
    PROVE  LInv'
<1>1. EveryListSimple'
  BY ListsKept DEF graph
<1>2. NewIsUnmet'
  <2>1. links' = links /\ New' = New /\ op' = op /\ sel' = sel
    BY DEF graph, New
  <2>2. ASSUME op = "insert", NEW n \in Nodes, NEW l \in Layers, Ahead(l)'
        PROVE  New \notin Listed(links[n][l])
    BY <2>2 DEF LInv, NewIsUnmet
  <2> QED BY <2>1, <2>2 DEF NewIsUnmet
<1>3. LinksToCome'
  BY DEF LinksToCome
<1> QED BY <1>1, <1>2, <1>3 DEF LInv

-----------------------------------------------------------------------------
(* The steps that search.                                                  *)

LEMMA InitSimple == Init => LInv
<1> SUFFICES ASSUME Init PROVE LInv
  OBVIOUS
<1>1. HInv
  BY InitHolds
<1>2. ASSUME NEW n \in Nodes, NEW l \in Layers PROVE Simple(links[n][l], n, l)
  <2>1. links[n][l] = <<>> /\ Capacity(l) \in Nat
    BY CapacityInNat DEF Init
  <2> QED BY <2>1, EmptyList DEF Simple, Injective
<1>3. EveryListSimple /\ NewIsUnmet /\ LinksToCome
  BY <1>2 DEF Init, EveryListSimple, NewIsUnmet, LinksToCome
<1> QED BY <1>1, <1>3 DEF LInv

LEMMA SearchSimple == LInv /\ HInv' /\ Search => LInv'
<1> SUFFICES ASSUME LInv, HInv', Search PROVE LInv'
  OBVIOUS
<1>1. op' = "search" /\ pc' = "greedy" /\ UNCHANGED links
  BY DEF Search, Begin, graph
<1> QED BY <1>1, ListsKept DEF LInv, NewIsUnmet, LinksToCome

LEMMA GreedySimple ==
    LInv /\ HInv' /\ (GreedyMove \/ GreedyDown \/ EndGreedy) => LInv'
<1> SUFFICES ASSUME LInv, HInv', GreedyMove \/ GreedyDown \/ EndGreedy PROVE LInv'
  OBVIOUS
<1>1. pc = "greedy" /\ pc' # "link" /\ UNCHANGED <<graph, op, sel>>
  BY DEF GreedyMove, GreedyDown, EndGreedy, Seed
<1>2. \A l \in Layers : Ahead(l)
  BY <1>1 DEF Ahead
<1>3. HInv /\ cand = {} /\ W = {} /\ cur \in Nodes
  BY <1>1, AllocatedAreNodes DEF LInv, HInv, HeldReach, Reach
<1>4. op = "insert" => New \notin Listed(sel) \cup {cur}
  BY DEF LInv, NewIsUnmet
<1>5. op = "insert" => New \notin cand' \cup W' \cup {cur'}
  <2>1. CASE GreedyMove
    <3>1. cand' = {} /\ W' = {} /\ cur' \in Listed(links[cur][layer])
      BY <1>3, <2>1 DEF GreedyMove, search, Listed
    <3>2. op = "insert" => New \notin Listed(links[cur][layer])
      BY <1>2, <1>3, LayersAreNumbers DEF LInv, NewIsUnmet
    <3> QED BY <3>1, <3>2
  <2>2. CASE GreedyDown
    BY <1>3, <1>4, <2>2 DEF GreedyDown, search
  <2>3. CASE EndGreedy
    BY <1>4, <2>3 DEF EndGreedy, Seed
  <2> QED BY <2>1, <2>2, <2>3
<1> QED BY <1>1, <1>2, <1>4, <1>5, SearchKeeps

LEMMA LayerSearchSimple ==
    LInv /\ HInv' /\ (Expand \/ Visit \/ EndOfList) => LInv'
<1> SUFFICES ASSUME LInv, HInv', Expand \/ Visit \/ EndOfList PROVE LInv'
  OBVIOUS
<1>1. pc \in {"search", "read"} /\ pc' \in {"search", "read"}
      /\ UNCHANGED <<graph, op, layer, cur, sel>>
  BY DEF Expand, Visit, EndOfList
<1>2. \A l \in Layers : Ahead(l)' => Ahead(l)
  BY <1>1 DEF Ahead
<1>3. op = "insert" => New \notin cand \cup W \cup Listed(sel) \cup {cur}
  BY DEF LInv, NewIsUnmet
<1>4. op = "insert" => New \notin cand' \cup W'
  <2>1. CASE Expand \/ EndOfList
    BY <1>3, <2>1 DEF Expand, EndOfList
  <2>2. CASE Visit
    <3> DEFINE n == links[at][layer][i]
    <3>1. pc = "read" /\ i <= Len(links[at][layer]) /\ HInv
      BY <2>2 DEF Visit, LInv
    <3>2. at \in Nodes /\ i \in Nat \ {0}
      BY <3>1, AllocatedAreNodes DEF HInv, HeldReach, Reach, TypeOK, OperationTypeOK
    <3>3. n \in Listed(links[at][layer])
      <4>1. links[at][layer] \in Seq(Nodes)
        BY <3>1, <3>2, LayersAreNumbers
      <4> QED BY <3>1, <3>2, <4>1 DEF Listed
    <3>4. op = "insert" => New # n
      BY <3>1, <3>2, <3>3, LayersAreNumbers DEF LInv, NewIsUnmet, Ahead
    <3>5. cand' \subseteq cand \cup {n} /\ W' \subseteq W \cup {n}
      BY <2>2 DEF Visit, Offered
    <3> QED BY <1>3, <3>4, <3>5
  <2> QED BY <2>1, <2>2
<1> QED BY <1>1, <1>2, <1>3, <1>4, SearchKeeps

LEMMA EndSearchSimple == LInv /\ HInv' /\ EndSearch => LInv'
<1> SUFFICES ASSUME LInv, HInv', EndSearch PROVE LInv'
  OBVIOUS
<1>1. op' = "none" /\ pc' = "idle" /\ UNCHANGED links
  BY DEF EndSearch, Rest, graph
<1> QED BY <1>1, ListsKept DEF LInv, NewIsUnmet, LinksToCome

-----------------------------------------------------------------------------
(* The steps that change the graph.                                        *)

LEMMA InsertSimple == LInv /\ HInv' /\ Insert => LInv'
<1> SUFFICES ASSUME LInv, HInv', Insert PROVE LInv'
  OBVIOUS
<1>1. /\ HInv /\ pc = "idle" /\ op = "none" /\ size < MaxNodes
      /\ links' = [links EXCEPT ![size] = [k \in Layers |-> <<>>]]
      /\ UNCHANGED sel /\ W' = {} /\ cand' = {} /\ sel = <<>>
  BY DEF Insert, LInv, HInv, HeldReach, search
<1>2. size \in Nodes /\ size \in Nat /\ Allocated = 0 .. size - 1
  BY <1>1, ConstantFacts, LayersAreNumbers DEF Nodes, Allocated
<1>3. ASSUME NEW n \in Nodes, NEW l \in Layers
      PROVE  links'[n][l] = <<>> \/ links'[n][l] = links[n][l]
  BY <1>1, <1>2, LayersAreNumbers
<1>4. EveryListSimple'
  <2> SUFFICES ASSUME NEW n \in Nodes, NEW l \in Layers
               PROVE  Simple(links'[n][l], n, l)
    BY DEF EveryListSimple, Simple
  <2>1. Simple(<<>>, n, l)
    BY EmptyList, CapacityInNat DEF Simple, Injective
  <2> QED BY <1>3, <2>1 DEF LInv, EveryListSimple
<1>5. ASSUME NEW n \in Nodes, NEW l \in Layers PROVE size \notin Listed(links'[n][l])
  <2>1. size \notin Listed(links[n][l])
    BY <1>1, <1>2 DEF HInv, EdgesReach, Reach
  <2> QED BY <1>3, <2>1, EmptyList
<1>6. pc' # "link"
  BY <1>1 DEF Insert, Begin
<1>7. CASE size = 0
  <2>1. op' = "none"
    BY <1>1, <1>7 DEF Insert
  <2> QED BY <1>4, <1>6, <2>1 DEF LInv, NewIsUnmet, LinksToCome
<1>8. CASE size # 0
  <2>1. size' = size /\ cur' = entry
    BY <1>8 DEF Insert, Begin
  <2>2. entry # size
    BY <1>1, <1>2, <1>8 DEF HInv, EntryHighest
  <2>3. NewIsUnmet'
    BY <1>1, <1>5, <2>1, <2>2, EmptyList DEF NewIsUnmet, New
  <2> QED BY <1>4, <1>6, <2>3 DEF LInv, LinksToCome
<1> QED BY <1>7, <1>8

(* A list replaced by a simple one.                                        *)
LEMMA ReplacedIsSimple ==
    ASSUME LInv, NEW n \in Nodes, NEW list, Simple(list, n, layer),
           links' = [links EXCEPT ![n][layer] = list]
    PROVE  /\ EveryListSimple'
           /\ \A m \in Nodes, k \in Layers :
                m # n \/ k # layer => links'[m][k] = links[m][k]
<1>1. layer \in Layers /\ links \in [Nodes -> [Layers -> Seq(Nodes)]]
  BY LayersAreNumbers DEF LInv
<1>2. links'[n][layer] = list
  BY <1>1
<1>3. ASSUME NEW m \in Nodes, NEW k \in Layers, m # n \/ k # layer
      PROVE  links'[m][k] = links[m][k]
  BY <1>1, <1>3
<1>4. ASSUME NEW m \in Nodes, NEW k \in Layers PROVE Simple(links'[m][k], m, k)
  <2>1. CASE m = n /\ k = layer
    BY <1>2, <2>1
  <2>2. CASE m # n \/ k # layer
    BY <1>3, <2>2 DEF LInv, EveryListSimple
  <2> QED BY <2>1, <2>2
<1> QED BY <1>3, <1>4 DEF EveryListSimple, Simple

(* The new node's own list: of nodes found before it was linked.           *)
LEMMA SelectSimple == LInv /\ HInv' /\ Select => LInv'
<1> SUFFICES ASSUME LInv, HInv', Select PROVE LInv'
  OBVIOUS
<1>1. /\ HInv /\ pc = "search" /\ op = "insert" /\ si' = 1 /\ pc' = "link" /\ cand' = {}
      /\ UNCHANGED <<size, op, layer, cur, W>> /\ New' = New
  BY DEF Select, LInv, New
<1>2. PICK list \in Chosen(W, [n \in W |-> Near(n)], Capacity(layer)) :
        sel' = list /\ links' = [links EXCEPT ![New][layer] = list]
  BY DEF Select
<1>3. New \in Nodes /\ layer \in Layers /\ layer \in Nat /\ W \subseteq Nodes
      /\ New \notin W /\ New # cur /\ Capacity(layer) \in Nat /\ Layers \subseteq Nat
  BY <1>1, NewIsNode, LayersAreNumbers, CapacityInNat DEF LInv, NewIsUnmet
<1>4. list \in Seq(W) /\ Listed(list) \subseteq W
      /\ Len(list) <= Capacity(layer) /\ Injective(list)
  BY <1>3, ChosenShape, ChosenIsSimple
<1>5. /\ EveryListSimple'
      /\ \A m \in Nodes, k \in Layers :
           m # New \/ k # layer => links'[m][k] = links[m][k]
  BY <1>2, <1>3, <1>4, ReplacedIsSimple DEF Simple
<1>6. ASSUME NEW n \in Nodes, NEW l \in Layers, Ahead(l), n # New \/ l # layer
      PROVE  New \notin Listed(links'[n][l])
  BY <1>1, <1>5, <1>6 DEF LInv, NewIsUnmet
<1>7. NewIsUnmet'
  <2>1. ASSUME NEW l \in Layers, Ahead(l)' PROVE Ahead(l) /\ l # layer
    BY <1>1, <1>3, <2>1 DEF Ahead
  <2>2. \A n \in Nodes, l \in Layers : Ahead(l)' => New \notin Listed(links'[n][l])
    BY <1>6, <2>1
  <2> QED BY <1>1, <1>2, <1>3, <1>4, <2>2 DEF NewIsUnmet
<1>8. LinksToCome'
  <2> SUFFICES ASSUME NEW j \in 1..Len(list)
               PROVE  New \notin Listed(links'[list[j]][layer])
    BY <1>1, <1>2, <1>4 DEF LinksToCome
  <2>1. list[j] \in Listed(list)
    BY DEF Listed
  <2>2. Ahead(layer)
    BY <1>1 DEF Ahead
  <2> QED BY <1>3, <1>4, <1>6, <2>1, <2>2
<1> QED BY <1>5, <1>7, <1>8 DEF LInv

(* The reciprocal edge: the list it goes into does not have it yet.        *)
LEMMA LinkBackSimple == LInv /\ HInv' /\ LinkBack => LInv'
<1> SUFFICES ASSUME LInv, HInv', LinkBack PROVE LInv'
  OBVIOUS
<1> DEFINE s    == sel[si]
           old  == links[s][layer]
           near == Listed(old) \cup {New}
           d    == [n \in near |-> IF n = New THEN Near(s)
                                   ELSE CodeDist(vec[s], vec[n])]
<1>1. /\ HInv /\ pc = "link" /\ op = "insert" /\ si <= Len(sel) /\ si' = si + 1
      /\ UNCHANGED <<size, pc, op, layer, cur, cand, W, sel>> /\ New' = New
  BY DEF LinkBack, LInv, HInv, HeldReach, search, New
<1>2. /\ New \in Nodes /\ layer \in Layers /\ layer \in Nat /\ Capacity(layer) \in Nat
      /\ sel \in Seq(Nodes) /\ Layers \subseteq Nat
  BY <1>1, NewIsNode, LayersAreNumbers, CapacityInNat
<1>3. si \in 1..Len(sel) /\ Injective(sel)
  BY <1>1, <1>2 DEF LInv, HInv, TypeOK, OperationTypeOK, LinksToCome
<1>4. s \in Nodes /\ s # New
  <2>1. s \in Listed(sel) /\ s \in Nodes
    BY <1>2, <1>3 DEF Listed
  <2> QED BY <1>1, <2>1 DEF LInv, NewIsUnmet
<1>5. old \in Seq(Nodes) /\ Simple(old, s, layer) /\ New \notin Listed(old)
      /\ Len(old) \in Nat
  <2>1. old \in Seq(Nodes) /\ Len(old) \in Nat
    BY <1>1, <1>2, <1>4, LayersAreNumbers
  <2>2. Simple(old, s, layer)
    BY <1>2, <1>4 DEF LInv, EveryListSimple
  <2>3. si >= si
    BY <1>3
  <2>4. New \notin Listed(old)
    BY <1>1, <1>3, <2>3 DEF LInv, LinksToCome
  <2> QED BY <2>1, <2>2, <2>4
<1>6. \E list : Simple(list, s, layer) /\ links' = [links EXCEPT ![s][layer] = list]
  <2>1. \/ /\ HasRoom(old)
           /\ links' = [links EXCEPT ![s][layer] = Append(old, New)]
        \/ \E list \in Chosen(near, d, Capacity(layer)) :
             links' = [links EXCEPT ![s][layer] = list]
    BY DEF LinkBack
  <2>2. s \notin near
    BY <1>4, <1>5 DEF Simple
  <2> HIDE DEF s, old, near, d
  <2>3. CASE HasRoom(old) /\ links' = [links EXCEPT ![s][layer] = Append(old, New)]
    <3>1. Len(Append(old, New)) = Len(old) + 1 /\ Injective(Append(old, New))
      BY <1>2, <1>5, AppendedIsSimple DEF Simple
    <3>2. Len(old) + 1 <= Capacity(layer)
      BY <1>2, <1>5, <2>3 DEF HasRoom
    <3>3. s \notin Listed(Append(old, New))
      BY <1>2, <1>4, <1>5, AppendedList DEF Simple
    <3> QED BY <2>3, <3>1, <3>2, <3>3 DEF Simple
  <2>4. ASSUME NEW list \in Chosen(near, d, Capacity(layer)),
               links' = [links EXCEPT ![s][layer] = list]
        PROVE  Simple(list, s, layer)
    <3>1. Listed(list) \subseteq near /\ Len(list) <= Capacity(layer) /\ Injective(list)
      BY <1>2, ChosenShape, ChosenIsSimple
    <3> QED BY <2>2, <3>1 DEF Simple
  <2> QED BY <2>1, <2>3, <2>4
<1>7. /\ EveryListSimple'
      /\ \A m \in Nodes, k \in Layers :
           m # s \/ k # layer => links'[m][k] = links[m][k]
  BY <1>4, <1>6, ReplacedIsSimple
<1> HIDE DEF s, old, near, d
<1>8. NewIsUnmet'
  <2>1. ASSUME NEW l \in Layers, Ahead(l)' PROVE Ahead(l) /\ l # layer
    BY <1>1, <1>2, <2>1 DEF Ahead
  <2>2. ASSUME NEW n \in Nodes, NEW l \in Layers, Ahead(l)'
        PROVE  New \notin Listed(links'[n][l])
    <3>1. links'[n][l] = links[n][l]
      BY <1>7, <2>1, <2>2
    <3> QED BY <1>1, <2>1, <2>2, <3>1 DEF LInv, NewIsUnmet
  <2>3. New \notin cand' \cup W' \cup Listed(sel') \cup {cur'}
    BY <1>1 DEF LInv, NewIsUnmet
  <2> QED BY <1>1, <2>2, <2>3 DEF NewIsUnmet
<1>9. LinksToCome'
  <2> SUFFICES ASSUME NEW j \in 1..Len(sel), j >= si + 1
               PROVE  New \notin Listed(links'[sel[j]][layer])
    BY <1>1, <1>3 DEF LinksToCome
  <2>1. j >= si /\ j # si
    BY <1>3
  <2>2. sel[j] # s /\ sel[j] \in Nodes
    BY <1>2, <1>3, <2>1 DEF Injective, s
  <2> QED BY <1>1, <1>2, <1>7, <2>1, <2>2 DEF LInv, LinksToCome
<1> QED BY <1>7, <1>8, <1>9 DEF LInv

(* On to the layer below, which nobody has linked the new node on yet.     *)
LEMMA NextLayerSimple == LInv /\ HInv' /\ NextLayer => LInv'
<1> SUFFICES ASSUME LInv, HInv', NextLayer PROVE LInv'
  OBVIOUS
<1>1. /\ HInv /\ pc = "link" /\ pc' = "search" /\ op = "insert" /\ sel' = <<>>
      /\ layer' = layer - 1 /\ UNCHANGED <<graph, op>> /\ New' = New
  BY DEF NextLayer, Seed, LInv, HInv, HeldReach, graph, New
<1>2. PICK n \in W : cand' = {n} /\ W' = {n} /\ cur' = n
  BY DEF NextLayer, Seed
<1>3. layer \in Nat /\ Layers \subseteq Nat
  BY <1>1, LayersAreNumbers
<1>4. ASSUME NEW l \in Layers, Ahead(l)' PROVE Ahead(l)
  BY <1>1, <1>3, <1>4 DEF Ahead
<1>5. NewIsUnmet'
  <2>1. New # n
    BY <1>1 DEF LInv, NewIsUnmet
  <2>2. ASSUME NEW m \in Nodes, NEW l \in Layers, Ahead(l)'
        PROVE  New \notin Listed(links[m][l])
    BY <1>1, <1>4, <2>2 DEF LInv, NewIsUnmet
  <2> QED BY <1>1, <1>2, <2>1, <2>2, EmptyList DEF NewIsUnmet, graph
<1>6. EveryListSimple' /\ LinksToCome'
  BY <1>1, ListsKept DEF LinksToCome, graph
<1> QED BY <1>5, <1>6 DEF LInv

LEMMA EndInsertSimple == LInv /\ HInv' /\ EndInsert => LInv'
<1> SUFFICES ASSUME LInv, HInv', EndInsert PROVE LInv'
  OBVIOUS
<1>1. op' = "none" /\ pc' = "idle" /\ UNCHANGED links
  BY DEF EndInsert, Rest
<1> QED BY <1>1, ListsKept DEF LInv, NewIsUnmet, LinksToCome

-----------------------------------------------------------------------------
(* The theorem.                                                            *)

LEMMA NextSimple == LInv /\ [Next]_vars => LInv'
<1> SUFFICES ASSUME LInv, [Next]_vars PROVE LInv'
  OBVIOUS
<1>1. HInv'
  BY NextHolds DEF LInv
<1>2. CASE Insert \/ Search
  BY <1>1, <1>2, InsertSimple, SearchSimple
<1>3. CASE GreedyMove \/ GreedyDown \/ EndGreedy
  BY <1>1, <1>3, GreedySimple
<1>4. CASE Expand \/ Visit \/ EndOfList \/ EndSearch
  BY <1>1, <1>4, LayerSearchSimple, EndSearchSimple
<1>5. CASE Select \/ LinkBack \/ NextLayer \/ EndInsert
  BY <1>1, <1>5, SelectSimple, LinkBackSimple, NextLayerSimple, EndInsertSimple
<1>6. CASE UNCHANGED vars
  BY <1>1, <1>6 DEF vars, graph, search, LInv, EveryListSimple, Simple, NewIsUnmet,
                    LinksToCome, Ahead, New
<1> QED BY <1>2, <1>3, <1>4, <1>5, <1>6 DEF Next, Step

LEMMA InvariantIsSimple == LInv => SimpleLists
<1> SUFFICES ASSUME LInv, NEW n \in Allocated, NEW l \in Layers
             PROVE  /\ Len(links[n][l]) <= Capacity(l)
                    /\ Cardinality(Listed(links[n][l])) = Len(links[n][l])
                    /\ n \notin Listed(links[n][l])
  BY DEF SimpleLists
<1>1. n \in Nodes /\ links[n][l] \in Seq(Nodes)
  BY AllocatedAreNodes, LayersAreNumbers DEF LInv
<1>2. Simple(links[n][l], n, l)
  BY <1>1 DEF LInv, EveryListSimple
<1> QED BY <1>1, <1>2, InjectiveCardinality DEF Simple

(* On every layer and in every reachable state no list outgrows its M (on  *)
(* layer 0, M0) slots, names a node twice or its own node, whether its     *)
(* edges were chosen, appended by ConnectAndPrune or chosen again.         *)
THEOREM HnswListsStaySimple == Spec => []SimpleLists
<1>1. Init => LInv
  BY InitSimple
<1>2. LInv /\ [Next]_vars => LInv'
  BY NextSimple
<1>3. LInv => SimpleLists
  BY InvariantIsSimple
<1> QED BY <1>1, <1>2, <1>3, PTL DEF Spec

-----------------------------------------------------------------------------
(* The inductive invariant of a layer's search.                            *)

Searching == pc \in {"search", "read"}

(* A marked node that is not a result: the results are full, and as near.  *)
PassedOver(m) == Cardinality(W) = Width /\ \A x \in W : Near(x) <= Near(m)

(* What was met is marked, and what is marked and not kept was passed over;*)
(* a result taken from the candidates has had its neighbours marked, the   *)
(* one being read those before i.                                          *)
SearchInv ==
    Searching =>
        /\ IsFiniteSet(W) /\ W # {} /\ Cardinality(W) <= Width
        /\ cand \cup W \subseteq marks
        /\ \A m \in marks \ W : PassedOver(m)
        /\ \A w \in W \ cand :
             pc = "search" \/ w # at => Listed(links[w][layer]) \subseteq marks
        /\ pc = "read" =>
             \A j \in 1..Len(links[at][layer]) : j < i => links[at][layer][j] \in marks
        /\ op = "search" => layer = 0

SInv == LInv /\ SearchInv

-----------------------------------------------------------------------------
(* The inductive invariant of a small graph.                               *)

Indexed == 0 .. size - 1

(* No list of layer 0 has overflowed, nor will when the insert is done.    *)
Small == IF op = "insert" THEN size <= M0 ELSE size <= M0 + 1

Closed(S) == \A n \in S : Listed(links[n][0]) \cap Indexed \subseteq S

(* Every indexed node is reached from every other on layer 0: a set that   *)
(* no edge leaves is empty or all of them.                                 *)
Joined ==
    Small => \A S \in SUBSET Indexed : S # {} /\ Closed(S) => S = Indexed

(* The new node's list is not empty, and those linked so far name it.      *)
LinkedBothWays ==
    pc = "link" /\ layer = 0 /\ Small =>
        /\ sel # <<>> /\ links[New][0] = sel
        /\ \A j \in 1..Len(sel) : j < si => New \in Listed(links[sel[j]][0])

JInv == SInv /\ Joined /\ LinkedBothWays

-----------------------------------------------------------------------------
(* Facts about distances and widths.                                       *)

LEMMA WidthFacts == Width \in Nat \ {0} /\ M0 \in Nat \ {0} /\ Ef \in Nat \ {0}
BY HnswAssumption DEF Width

LEMMA NearInNat == ASSUME HInv PROVE \A n \in Nodes : Near(n) \in Nat
BY HnswAssumption DEF HInv, TypeOK, GraphTypeOK, OperationTypeOK, Near

(* Distances and widths belong to the operation and the vectors stored.    *)
LEMMA NearStands ==
    ASSUME UNCHANGED <<vec, op, query>>
    PROVE  Width' = Width /\ \A n : Near(n)' = Near(n)
BY DEF Width, Near

-----------------------------------------------------------------------------
(* The steps of a layer's search.                                          *)

LEMMA SeedFound ==
    ASSUME NEW n, NEW l, Seed(n, l), UNCHANGED op, op = "search" => l = 0
    PROVE  SearchInv'
<1>1. cand' = {n} /\ W' = {n} /\ marks' = {n} /\ pc' = "search" /\ layer' = l
  BY DEF Seed
<1>2. IsFiniteSet(W') /\ Cardinality(W') = 1
  BY <1>1, FS_Singleton
<1>3. Width' \in Nat \ {0}
  BY WidthFacts DEF Width
<1> QED BY <1>1, <1>2, <1>3 DEF SearchInv

LEMMA ExpandFound == SInv /\ Expand => SearchInv'
<1> SUFFICES ASSUME SInv, Expand PROVE SearchInv'
  OBVIOUS
<1>1. /\ pc = "search" /\ pc' = "read" /\ i' = 1
      /\ UNCHANGED <<vec, links, op, query, layer, W, marks>>
  BY DEF Expand, graph
<1>2. PICK c \in cand : cand' = cand \ {c} /\ at' = c
  BY DEF Expand
<1>3. SearchInv /\ Searching
  BY <1>1 DEF SInv, Searching
<1>4. Width' = Width /\ \A n : Near(n)' = Near(n)
  BY <1>1, NearStands
<1>5. \A m \in marks \ W : PassedOver(m)'
  BY <1>1, <1>3, <1>4 DEF SearchInv, PassedOver
<1>6. \A w \in W \ cand' : w # at' => Listed(links[w][layer]) \subseteq marks
  BY <1>1, <1>2, <1>3 DEF SearchInv
<1>7. \A j \in 1..Len(links'[at'][layer']) : ~(j < i')
  BY <1>1
<1> QED BY <1>1, <1>2, <1>3, <1>4, <1>5, <1>6, <1>7 DEF SearchInv

LEMMA EndOfListFound == SInv /\ EndOfList => SearchInv'
<1> SUFFICES ASSUME SInv, EndOfList PROVE SearchInv'
  OBVIOUS
<1>1. /\ pc = "read" /\ pc' = "search" /\ i > Len(links[at][layer])
      /\ UNCHANGED <<vec, links, op, query, layer, cand, W, marks>>
  BY DEF EndOfList, graph
<1>2. SearchInv /\ Searching
  BY <1>1 DEF SInv, Searching
<1>3. Width' = Width /\ \A n : Near(n)' = Near(n)
  BY <1>1, NearStands
<1>4. \A m \in marks \ W : PassedOver(m)'
  BY <1>1, <1>2, <1>3 DEF SearchInv, PassedOver
<1>5. Listed(links[at][layer]) \subseteq marks
  <2>1. HInv /\ at \in Nodes
    BY <1>1, AllocatedAreNodes DEF SInv, LInv, HInv, HeldReach, Reach
  <2>2. links[at][layer] \in Seq(Nodes) /\ i \in Nat
    BY <2>1, LayersAreNumbers DEF HInv, TypeOK, OperationTypeOK
  <2>3. \A j \in 1..Len(links[at][layer]) : j < i
    BY <1>1, <2>2
  <2> QED BY <1>1, <1>2, <2>3 DEF SearchInv, Listed
<1>6. \A w \in W \ cand : Listed(links[w][layer]) \subseteq marks
  BY <1>1, <1>2, <1>5 DEF SearchInv
<1> QED BY <1>1, <1>2, <1>3, <1>4, <1>6 DEF SearchInv

(* Taking a node in that is nearer than some result, or that there is room *)
(* for, keeps the results the nearest of what was met.                     *)
LEMMA OfferedFound ==
    ASSUME HInv, SearchInv, Searching, UNCHANGED <<vec, op, query>>,
           NEW n \in Nodes, n \notin marks, marks' = marks \cup {n},
           W' \in Offered(n),
           Cardinality(W) < Width \/ \E w \in W : Near(n) < Near(w)
    PROVE  /\ IsFiniteSet(W') /\ W' # {} /\ Cardinality(W') <= Width
           /\ W' \subseteq W \cup {n}
           /\ \A m \in marks' \ W' : PassedOver(m)'
<1>1. Width' = Width /\ \A m : Near(m)' = Near(m)
  BY NearStands
<1>2. /\ IsFiniteSet(W) /\ W # {} /\ Cardinality(W) <= Width /\ W \subseteq marks
      /\ \A m \in marks \ W : PassedOver(m)
  BY DEF SearchInv
<1>3. Cardinality(W) \in Nat /\ Width \in Nat \ {0}
  BY <1>2, FS_CardinalityType, WidthFacts
<1>4. n \notin W
  BY <1>2
<1>5. IsFiniteSet(W \cup {n}) /\ Cardinality(W \cup {n}) = Cardinality(W) + 1
  BY <1>2, <1>4, FS_AddElement
<1>6. CASE Cardinality(W) < Width
  <2>1. W' = W \cup {n}
    BY <1>6 DEF Offered
  <2>2. marks = W
    BY <1>2, <1>3, <1>6 DEF PassedOver
  <2> QED BY <1>3, <1>5, <1>6, <2>1, <2>2
<1>7. CASE ~(Cardinality(W) < Width)
  <2>1. PICK f \in W : W' = (W \cup {n}) \ {f} /\ \A x \in W : Near(x) <= Near(f)
    BY <1>7 DEF Offered
  <2>2. PICK w \in W : Near(n) < Near(w)
    BY <1>7
  <2>3. Cardinality(W) = Width
    BY <1>2, <1>3, <1>7
  <2>4. IsFiniteSet(W') /\ Cardinality(W') = Width /\ n \in W'
    <3>1. f \in W \cup {n} /\ f # n
      BY <1>4, <2>1
    <3>2. Cardinality(W') = Cardinality(W \cup {n}) - 1 /\ IsFiniteSet(W')
      BY <1>5, <2>1, <3>1, FS_RemoveElement
    <3> QED BY <1>3, <1>5, <2>1, <2>3, <3>1, <3>2
  <2>5. \A m \in Nodes : Near(m) \in Nat
    BY NearInNat
  <2>6. W \subseteq Nodes /\ marks \subseteq Nodes
    BY DEF HInv, TypeOK, OperationTypeOK
  <2>7. ASSUME NEW m \in marks' \ W', NEW x \in W' PROVE Near(x) <= Near(m)
    <3>1. m \in Nodes /\ (m = f \/ m \in marks \ W)
      BY <2>1, <2>6
    <3>2. \A y \in W : Near(y) <= Near(m)
      BY <1>2, <2>1, <3>1 DEF PassedOver
    <3>3. CASE x \in W
      BY <3>2, <3>3
    <3>4. CASE x = n
      <4>1. Near(n) < Near(w) /\ Near(w) <= Near(m)
        BY <2>2, <3>2
      <4> QED BY <2>5, <2>6, <3>1, <3>4, <4>1
    <3> QED BY <2>1, <3>3, <3>4
  <2>8. \A m \in marks' \ W' : PassedOver(m)'
    BY <1>1, <2>4, <2>7 DEF PassedOver
  <2> QED BY <2>1, <2>4, <2>8, <1>3
<1> QED BY <1>6, <1>7

LEMMA VisitFound == SInv /\ Visit => SearchInv'
<1> SUFFICES ASSUME SInv, Visit PROVE SearchInv'
  OBVIOUS
<1> DEFINE n == links[at][layer][i]
<1>1. /\ pc = "read" /\ pc' = "read" /\ i <= Len(links[at][layer]) /\ i' = i + 1
      /\ UNCHANGED <<vec, links, op, query, layer, at>>
  BY DEF Visit, graph
<1>2. HInv /\ SearchInv /\ Searching
  BY <1>1 DEF SInv, LInv, Searching
<1>3. at \in Nodes /\ i \in Nat \ {0}
  BY <1>1, <1>2, AllocatedAreNodes DEF HInv, HeldReach, Reach, TypeOK, OperationTypeOK
<1>4. links[at][layer] \in Seq(Nodes) /\ i \in 1..Len(links[at][layer])
  BY <1>1, <1>2, <1>3, LayersAreNumbers
<1>5. n \in Nodes
  BY <1>4
<1>6. Width' = Width /\ \A m : Near(m)' = Near(m)
  BY <1>1, NearStands
<1>7. n \in marks' /\ marks \subseteq marks' /\ W \ cand' \subseteq W \ cand
  BY DEF Visit
<1>8. \A j \in 1..Len(links[at][layer]) : j < i + 1 => links[at][layer][j] \in marks'
  <2>1. \A j \in 1..Len(links[at][layer]) : j < i => links[at][layer][j] \in marks
    BY <1>1, <1>2 DEF SearchInv
  <2>2. \A j \in 1..Len(links[at][layer]) : j < i + 1 => j < i \/ j = i
    BY <1>3
  <2> QED BY <1>7, <2>1, <2>2
<1>9. \A w \in W \ cand : w # at => Listed(links[w][layer]) \subseteq marks'
  BY <1>1, <1>2, <1>7 DEF SearchInv
<1>10. CASE UNCHANGED <<cand, W, marks>>
  <2>1. \A m \in marks \ W : PassedOver(m)'
    BY <1>2, <1>6, <1>10 DEF SearchInv, PassedOver
  <2> QED BY <1>1, <1>2, <1>6, <1>8, <1>9, <1>10, <2>1 DEF SearchInv
<1>11. CASE /\ n \notin marks /\ marks' = marks \cup {n}
            /\ Cardinality(W) < Width \/ \E w \in W : Near(n) < Near(w)
            /\ cand' = cand \cup {n} /\ W' \in Offered(n)
  <2> HIDE DEF n
  <2>1. /\ IsFiniteSet(W') /\ W' # {} /\ Cardinality(W') <= Width
        /\ W' \subseteq W \cup {n} /\ \A m \in marks' \ W' : PassedOver(m)'
    BY <1>1, <1>2, <1>5, <1>11, OfferedFound
  <2>2. W' \ cand' \subseteq W \ cand
    BY <1>11, <2>1
  <2>3. cand' \cup W' \subseteq marks'
    BY <1>2, <1>11, <2>1 DEF SearchInv
  <2> QED BY <1>1, <1>2, <1>6, <1>8, <1>9, <2>1, <2>2, <2>3 DEF SearchInv
<1>12. CASE /\ n \notin marks /\ marks' = marks \cup {n} /\ Cardinality(W) >= Width
            /\ \A w \in W : Near(n) >= Near(w)
            /\ UNCHANGED <<cand, W>>
  <2>1. IsFiniteSet(W) /\ Cardinality(W) <= Width /\ Cardinality(W) \in Nat /\ Width \in Nat
    BY <1>2, FS_CardinalityType, WidthFacts DEF SearchInv
  <2>2. \A x \in W : Near(x) \in Nat /\ Near(n) \in Nat
    BY <1>2, <1>5, NearInNat DEF HInv, TypeOK, OperationTypeOK
  <2>3. PassedOver(n)
    BY <1>12, <2>1, <2>2 DEF PassedOver
  <2>4. \A m \in marks' \ W' : PassedOver(m)'
    BY <1>2, <1>6, <1>12, <2>3 DEF SearchInv, PassedOver
  <2> HIDE DEF n
  <2>5. cand' \cup W' \subseteq marks'
    BY <1>2, <1>12 DEF SearchInv
  <2> QED BY <1>1, <1>2, <1>6, <1>8, <1>9, <1>12, <2>4, <2>5 DEF SearchInv
<1> QED BY <1>10, <1>11, <1>12 DEF Visit

-----------------------------------------------------------------------------
(* Every step.                                                             *)

LEMMA InitFound == Init => SInv
BY InitSimple DEF Init, SInv, SearchInv, Searching

LEMMA NextFound == SInv /\ [Next]_vars => SInv'
<1> SUFFICES ASSUME SInv, [Next]_vars PROVE SInv'
  OBVIOUS
<1>1. LInv /\ LInv' /\ HInv
  BY NextSimple DEF SInv, LInv
<1>2. CASE Expand \/ Visit \/ EndOfList
  BY <1>1, <1>2, ExpandFound, VisitFound, EndOfListFound DEF SInv
<1>3. CASE EndGreedy
  <2>1. Seed(cur, FirstLayer) /\ UNCHANGED op
    BY <1>3 DEF EndGreedy
  <2>2. op = "search" => FirstLayer = 0
    <3>1. maxLevel \in Nat
      BY <1>1, BottomIsLayer
    <3> QED BY <3>1 DEF FirstLayer, Bottom, Min2
  <2> QED BY <1>1, <2>1, <2>2, SeedFound DEF SInv
<1>4. CASE NextLayer
  <2>1. op = "insert" /\ UNCHANGED op
    BY <1>1, <1>4 DEF NextLayer, HInv, HeldReach
  <2>2. \E n \in W : Seed(n, layer - 1)
    BY <1>4 DEF NextLayer
  <2> QED BY <1>1, <2>1, <2>2, SeedFound DEF SInv
<1>5. CASE Insert \/ Search \/ GreedyMove \/ GreedyDown \/ Select \/ LinkBack
           \/ EndInsert \/ EndSearch
  <2>1. ~Searching'
    BY <1>5 DEF Insert, Search, Begin, GreedyMove, GreedyDown, Select, LinkBack,
                EndInsert, EndSearch, Rest, Searching
  <2> QED BY <1>1, <2>1 DEF SInv, SearchInv
<1>6. CASE UNCHANGED vars
  BY <1>1, <1>6 DEF vars, graph, search, SInv, SearchInv, Searching, PassedOver,
                    Near, Width
<1> QED BY <1>2, <1>3, <1>4, <1>5, <1>6 DEF Next, Step

(* A search of a layer, an insert's or a query's, ends at a local optimum  *)
(* of it: a neighbour of a result is a result too, unless the search is as *)
(* full as it may be of nodes at least as near.                            *)
THEOREM SearchesEndLocallyOptimal == Spec => []LocallyOptimal
<1>1. SInv => LocallyOptimal
  <2> SUFFICES ASSUME SInv, pc = "search", LayerDone, NEW w \in W,
                      NEW n \in Listed(links[w][layer]) \ W
               PROVE  PassedOver(n)
    BY DEF LocallyOptimal, PassedOver
  <2>1. SearchInv /\ Searching /\ HInv
    BY DEF SInv, LInv, Searching
  <2>2. w \notin cand
    <3>1. Near(w) \in Nat
      BY <2>1, NearInNat DEF HInv, TypeOK, OperationTypeOK
    <3> QED BY <3>1 DEF LayerDone
  <2>3. n \in marks
    BY <2>1, <2>2 DEF SearchInv
  <2> QED BY <2>1, <2>3 DEF SearchInv
<1> QED BY <1>1, InitFound, NextFound, PTL DEF Spec

-----------------------------------------------------------------------------
(* Small graphs stay joined.                                               *)

LEMMA IndexedFacts ==
    ASSUME HInv
    PROVE  /\ size \in Nat /\ Indexed \subseteq Nodes /\ Indexed \subseteq Nat
           /\ IsFiniteSet(Indexed) /\ Cardinality(Indexed) = size
           /\ New \notin Indexed
           /\ op # "insert" => Allocated = Indexed
           /\ op = "insert" => Allocated = Indexed \cup {New}
           /\ 0 \in Layers
<1>1. size \in 0..MaxNodes /\ MaxNodes \in Nat /\ 0 \in Layers
  BY ConstantFacts DEF HInv, TypeOK, GraphTypeOK
<1>2. IsFiniteSet(Indexed) /\ Cardinality(Indexed) = size
  <2>1. 0 \in Int /\ size - 1 \in Int
    BY <1>1
  <2>2. IsFiniteSet(0 .. size - 1)
        /\ Cardinality(0 .. size - 1) = IF 0 > size - 1 THEN 0 ELSE (size - 1) - 0 + 1
    BY <2>1, FS_Interval
  <2> QED BY <1>1, <2>2 DEF Indexed
<1> QED BY <1>1, <1>2 DEF Indexed, Nodes, New, Allocated

(* The edges among the indexed nodes are what Joined speaks of.            *)
LEMMA EdgesStand ==
    ASSUME JInv, Small' => Small, Indexed' = Indexed,
           \A n \in Indexed :
             Listed(links'[n][0]) \cap Indexed = Listed(links[n][0]) \cap Indexed
    PROVE  Joined'
<1> SUFFICES ASSUME Small, NEW S \in SUBSET Indexed, S # {},
                    \A n \in S : Listed(links'[n][0]) \cap Indexed \subseteq S
             PROVE  S = Indexed
  BY DEF Joined, Closed
<1>1. Closed(S)
  BY DEF Closed
<1> QED BY <1>1 DEF JInv, Joined

LEMMA GraphStandsJoined ==
    ASSUME JInv, UNCHANGED <<size, links>>, op' = "insert" <=> op = "insert",
           pc' # "link"
    PROVE  Joined' /\ LinkedBothWays'
<1>1. Joined'
  BY EdgesStand DEF Small, Indexed
<1> QED BY <1>1 DEF LinkedBothWays

LEMMA InsertJoined == JInv /\ HInv' /\ Insert => Joined' /\ LinkedBothWays'
<1> SUFFICES ASSUME JInv, HInv', Insert PROVE Joined' /\ LinkedBothWays'
  OBVIOUS
<1>1. /\ HInv /\ pc = "idle" /\ op = "none"
      /\ links' = [links EXCEPT ![size] = [k \in Layers |-> <<>>]]
  BY DEF Insert, JInv, SInv, LInv, HInv, HeldReach
<1>2. LinkedBothWays'
  BY <1>1 DEF Insert, Begin, LinkedBothWays
<1>3. CASE size = 0
  <2>1. size' = 1
    BY <1>3 DEF Insert
  <2>2. Indexed' = {0}
    BY <2>1 DEF Indexed
  <2>3. Joined'
    BY <2>2 DEF Joined
  <2> QED BY <1>2, <2>3
<1>4. CASE size # 0
  <2>1. size' = size /\ op' = "insert"
    BY <1>4 DEF Insert, Begin
  <2>2. Small' => Small
    <3>1. size \in Nat /\ M0 \in Nat
      BY <1>1, IndexedFacts, WidthFacts
    <3> QED BY <1>1, <2>1, <3>1 DEF Small
  <2>3. Indexed' = Indexed
    BY <2>1 DEF Indexed
  <2>4. \A n \in Indexed : links'[n][0] = links[n][0]
    <3>1. size \notin Indexed /\ Indexed \subseteq Nodes
      BY <1>1, IndexedFacts DEF New
    <3> QED BY <1>1, <3>1, LayersAreNumbers
  <2>5. Joined'
    BY <2>2, <2>3, <2>4, EdgesStand
  <2> QED BY <1>2, <2>5
<1> QED BY <1>3, <1>4

(* There is always something to link the new node to.                      *)
LEMMA ChosenNotEmpty ==
    ASSUME NEW S, S # {}, NEW d, NEW n \in Nat \ {0}, NEW list \in Chosen(S, d, n)
    PROVE  list # <<>>
<1> SUFFICES ASSUME list = <<>> PROVE FALSE
  OBVIOUS
<1>1. Listed(list) = {} /\ Len(list) = 0
  BY EmptyList
<1>2. PICK c \in S : TRUE
  OBVIOUS
<1>3. IsChosen(list, S, d, n)
  BY DEF Chosen
<1>4. Len(list) = n \/ \E j \in 1..Len(list) : TRUE
  BY <1>1, <1>2, <1>3 DEF IsChosen
<1> QED BY <1>1, <1>4

LEMMA SelectJoined == JInv /\ HInv' /\ Select => Joined' /\ LinkedBothWays'
<1> SUFFICES ASSUME JInv, HInv', Select PROVE Joined' /\ LinkedBothWays'
  OBVIOUS
<1>1. /\ HInv /\ SearchInv /\ pc = "search" /\ op = "insert" /\ si' = 1
      /\ UNCHANGED <<size, op, layer>> /\ New' = New /\ Indexed' = Indexed
  BY DEF Select, JInv, SInv, LInv, New, Indexed
<1>2. PICK list \in Chosen(W, [n \in W |-> Near(n)], Capacity(layer)) :
        sel' = list /\ links' = [links EXCEPT ![New][layer] = list]
  BY DEF Select
<1>3. Capacity(layer) \in Nat \ {0} /\ W # {}
  BY <1>1, HnswAssumption DEF Capacity, SearchInv, Searching
<1>4. list # <<>>
  BY <1>3, ChosenNotEmpty
<1>5. New \in Nodes /\ New \notin Indexed /\ layer \in Layers /\ 0 \in Layers
      /\ Indexed \subseteq Nodes /\ links \in [Nodes -> [Layers -> Seq(Nodes)]]
  BY <1>1, NewIsNode, LayersAreNumbers, IndexedFacts
<1>6. Joined'
  <2>1. \A n \in Indexed : links'[n][0] = links[n][0]
    BY <1>2, <1>5
  <2>2. Small' => Small
    BY <1>1 DEF Small
  <2> QED BY <1>1, <2>1, <2>2, EdgesStand
<1>7. LinkedBothWays'
  <2>1. layer = 0 => links'[New][0] = list
    BY <1>2, <1>5
  <2>2. \A j \in 1..Len(list) : ~(j < 1)
    OBVIOUS
  <2> QED BY <1>1, <1>2, <1>4, <2>1, <2>2 DEF LinkedBothWays
<1> QED BY <1>6, <1>7

(* While every other node fits in a list of layer 0, none is full.         *)
LEMMA SmallHasRoom ==
    ASSUME LInv, op = "insert", Small, NEW s \in Indexed,
           New \notin Listed(links[s][0])
    PROVE  Len(links[s][0]) < M0
<1> DEFINE list == links[s][0]
<1>1. HInv /\ s \in Nodes /\ 0 \in Layers /\ M0 \in Nat /\ size \in Nat
  BY IndexedFacts, WidthFacts DEF LInv
<1>2. list \in Seq(Nodes) /\ Simple(list, s, 0)
  BY <1>1, LayersAreNumbers DEF LInv, EveryListSimple
<1>3. Listed(list) \subseteq Indexed \ {s}
  <2>1. \A m \in Listed(list) : m \in Allocated
    BY <1>1 DEF HInv, EdgesReach, Reach
  <2> QED BY <1>1, <1>2, <2>1, IndexedFacts DEF Simple
<1>4. IsFiniteSet(Indexed \ {s}) /\ Cardinality(Indexed \ {s}) = size - 1
  BY <1>1, IndexedFacts, FS_RemoveElement
<1>5. Cardinality(Listed(list)) <= size - 1
  BY <1>3, <1>4, FS_Subset
<1>6. Cardinality(Listed(list)) = Len(list)
  BY <1>2, InjectiveCardinality DEF Simple
<1>7. size <= M0
  BY DEF Small
<1>8. Len(list) \in Nat
  BY <1>2
<1> QED BY <1>1, <1>5, <1>6, <1>7, <1>8

LEMMA LinkBackJoined == JInv /\ HInv' /\ LinkBack => Joined' /\ LinkedBothWays'
<1> SUFFICES ASSUME JInv, HInv', LinkBack PROVE Joined' /\ LinkedBothWays'
  OBVIOUS
<1> DEFINE s    == sel[si]
           old  == links[s][layer]
           near == Listed(old) \cup {New}
           d    == [n \in near |-> IF n = New THEN Near(s)
                                   ELSE CodeDist(vec[s], vec[n])]
<1>1. /\ LInv /\ HInv /\ pc = "link" /\ op = "insert" /\ si <= Len(sel) /\ si' = si + 1
      /\ UNCHANGED <<size, pc, op, layer, sel>> /\ New' = New /\ Indexed' = Indexed
      /\ Small' = Small
  BY DEF LinkBack, JInv, SInv, LInv, HInv, HeldReach, New, Indexed, Small
<1>2. /\ New \in Nodes /\ New \notin Indexed /\ layer \in Layers /\ 0 \in Layers
      /\ Indexed \subseteq Nodes /\ links \in [Nodes -> [Layers -> Seq(Nodes)]]
      /\ sel \in Seq(Nodes) /\ si \in 1..Len(sel)
  BY SMTT(30), <1>1, NewIsNode, LayersAreNumbers, IndexedFacts DEF HInv, TypeOK, OperationTypeOK
<1>3. Listed(sel) \subseteq Indexed /\ s \in Listed(sel)
  <2>1. Listed(sel) \subseteq Allocated
    BY <1>1 DEF HInv, HeldReach, Reach
  <2>2. New \notin Listed(sel)
    BY <1>1 DEF LInv, NewIsUnmet
  <2>3. s \in Listed(sel)
    BY <1>2 DEF Listed
  <2> QED BY <1>1, <2>1, <2>2, <2>3, IndexedFacts
<1>4. \E list : links' = [links EXCEPT ![s][layer] = list]
  BY DEF LinkBack
<1>5. s \in Nodes /\ s # New /\ s \in Indexed
  BY <1>2, <1>3
<1>6. CASE layer # 0
  <2>1. \A n \in Nodes : links'[n][0] = links[n][0]
    BY SMTT(30), <1>2, <1>4, <1>6
  <2>2. Joined'
    BY <1>1, <1>2, <2>1, EdgesStand
  <2> QED BY <1>1, <1>6, <2>2 DEF LinkedBothWays
<1>7. CASE layer = 0 /\ ~Small
  BY <1>1, <1>7 DEF Joined, LinkedBothWays
<1>8. CASE layer = 0 /\ Small
  <2>1. New \notin Listed(old)
    <3>1. si >= si
      BY <1>2
    <3> QED BY <1>1, <1>2, <3>1 DEF LInv, LinksToCome
  <2>2. HasRoom(old)
    <3>1. Len(old) < M0
      BY <1>1, <1>5, <1>8, <2>1, SmallHasRoom
    <3> QED BY <1>8, <3>1 DEF HasRoom, Capacity
  <2>3. links' = [links EXCEPT ![s][layer] = Append(old, New)]
    BY <2>2 DEF LinkBack
  <2>4. old \in Seq(Nodes)
    BY <1>2, <1>5
  <2>5. links'[s][0] = Append(old, New) /\ old = links[s][0]
        /\ \A n \in Nodes \ {s} : links'[n][0] = links[n][0]
    BY <1>2, <1>5, <1>8, <2>3
  <2> HIDE DEF s, old
  <2>6. Listed(Append(old, New)) = Listed(old) \cup {New}
    <3>1. Listed(Append(old, New)) \subseteq Listed(old) \cup {New}
      BY <1>2, <2>4, AppendedList
    <3>2. Len(Append(old, New)) = Len(old) + 1 /\ Append(old, New)[Len(old) + 1] = New
          /\ \A j \in 1..Len(old) : Append(old, New)[j] = old[j]
          /\ Len(old) \in Nat
      BY <1>2, <2>4
    <3> HIDE DEF d
    <3>3. New \in Listed(Append(old, New))
      BY <3>2 DEF Listed
    <3>4. \A m \in Listed(old) : m \in Listed(Append(old, New))
      BY <3>2 DEF Listed
    <3> QED BY <3>1, <3>3, <3>4
  <2>7. Joined'
    <3>1. \A n \in Indexed :
            Listed(links'[n][0]) \cap Indexed = Listed(links[n][0]) \cap Indexed
      BY <1>2, <2>5, <2>6
    <3> QED BY <1>1, <3>1, EdgesStand
  <2>8. LinkedBothWays'
    <3>1. sel # <<>> /\ links[New][0] = sel
          /\ \A j \in 1..Len(sel) : j < si => New \in Listed(links[sel[j]][0])
      BY <1>1, <1>8 DEF JInv, LinkedBothWays
    <3>2. links'[New][0] = sel
      BY <1>2, <1>5, <2>5, <3>1
    <3>3. ASSUME NEW j \in 1..Len(sel), j < si + 1
          PROVE  New \in Listed(links'[sel[j]][0])
      <4>1. sel[j] \in Nodes
        BY <1>2
      <4>2. CASE sel[j] = s
        BY <2>5, <2>6, <4>2
      <4>3. CASE sel[j] # s
        <5>1. j # si
          BY <4>3 DEF s
        <5>2. j < si
          BY <1>2, <3>3, <5>1
        <5> QED BY <2>5, <3>1, <4>1, <4>3, <5>2
      <4> QED BY <4>2, <4>3
    <3> QED BY <1>1, <3>1, <3>2, <3>3 DEF LinkedBothWays
  <2> QED BY <2>7, <2>8
<1> QED BY <1>6, <1>7, <1>8

(* The linked node joins the others: a set with it has a node it is linked *)
(* to, and so the rest; a set with any of the rest has all, and so it.     *)
LEMMA EndInsertJoined == JInv /\ HInv' /\ EndInsert => Joined' /\ LinkedBothWays'
<1> SUFFICES ASSUME JInv, HInv', EndInsert PROVE Joined' /\ LinkedBothWays'
  OBVIOUS
<1>1. /\ LInv /\ HInv /\ pc = "link" /\ op = "insert" /\ layer = 0 /\ si > Len(sel)
      /\ size' = size + 1 /\ op' = "none" /\ pc' = "idle" /\ UNCHANGED links
  BY DEF EndInsert, Rest, JInv, SInv, LInv, HInv, HeldReach
<1>2. size \in Nat /\ M0 \in Nat /\ sel \in Seq(Nodes) /\ si \in Nat
  BY <1>1, WidthFacts, IndexedFacts DEF HInv, TypeOK, OperationTypeOK
<1>3. Indexed' = Indexed \cup {New} /\ New \notin Indexed
  BY <1>1, <1>2 DEF Indexed, New
<1>4. Small' => Small
  BY <1>1, <1>2 DEF Small
<1>5. LinkedBothWays'
  BY <1>1 DEF LinkedBothWays
<1>6. ASSUME Small, NEW S \in SUBSET (Indexed \cup {New}), S # {},
             \A n \in S : Listed(links[n][0]) \cap (Indexed \cup {New}) \subseteq S
      PROVE  S = Indexed \cup {New}
  <2>1. /\ sel # <<>> /\ links[New][0] = sel
        /\ \A j \in 1..Len(sel) : New \in Listed(links[sel[j]][0])
    <3>1. \A j \in 1..Len(sel) : j < si
      BY <1>1, <1>2
    <3> QED BY <1>1, <1>6, <3>1 DEF JInv, LinkedBothWays
  <2>2. 1 \in 1..Len(sel) /\ sel[1] \in Listed(sel)
    BY <1>2, <2>1 DEF Listed
  <2>3. sel[1] \in Indexed
    <3>1. sel[1] \in Allocated
      BY <1>1, <2>2 DEF HInv, HeldReach, Reach
    <3>2. sel[1] # New
      BY <1>1, <2>2 DEF LInv, NewIsUnmet
    <3> QED BY <1>1, <3>1, <3>2, IndexedFacts
  <2>4. New \in S => sel[1] \in S
    BY <1>6, <2>1, <2>2, <2>3
  <2>5. S \cap Indexed # {}
    BY <1>6, <2>3, <2>4
  <2>6. Closed(S \cap Indexed)
    BY <1>6 DEF Closed
  <2>7. Indexed \subseteq S
    <3>1. S \cap Indexed = Indexed
      BY <1>6, <2>5, <2>6 DEF JInv, Joined
    <3> QED BY <3>1
  <2>8. New \in S
    BY <1>6, <2>1, <2>2, <2>3, <2>7
  <2> QED BY <2>7, <2>8
<1>7. Joined'
  <2> SUFFICES ASSUME Small', NEW S \in SUBSET Indexed', S # {},
                      \A n \in S : Listed(links'[n][0]) \cap Indexed' \subseteq S
               PROVE  S = Indexed'
    BY DEF Joined, Closed
  <2> QED BY <1>1, <1>3, <1>4, <1>6
<1> QED BY <1>5, <1>7

LEMMA InitJoined == Init => JInv
<1> SUFFICES ASSUME Init PROVE JInv
  OBVIOUS
<1>1. Indexed = {}
  BY DEF Init, Indexed
<1> QED BY <1>1, InitFound DEF Init, JInv, Joined, LinkedBothWays

LEMMA NextJoined == JInv /\ [Next]_vars => JInv'
<1> SUFFICES ASSUME JInv, [Next]_vars PROVE JInv'
  OBVIOUS
<1>1. SInv' /\ HInv' /\ HInv
  BY NextFound DEF JInv, SInv, LInv
<1>2. CASE Insert \/ Select \/ LinkBack \/ EndInsert
  BY <1>1, <1>2, InsertJoined, SelectJoined, LinkBackJoined, EndInsertJoined DEF JInv
<1>3. CASE \/ Search \/ GreedyMove \/ GreedyDown \/ EndGreedy \/ Expand \/ Visit
           \/ EndOfList \/ NextLayer \/ EndSearch
  <2>1. UNCHANGED <<size, links>> /\ pc' # "link"
    BY <1>3 DEF Search, Begin, GreedyMove, GreedyDown, EndGreedy, Seed, Expand, Visit,
                EndOfList, NextLayer, EndSearch, Rest, graph
  <2>2. op' = "insert" <=> op = "insert"
    BY <1>1, <1>3 DEF Search, Begin, GreedyMove, GreedyDown, EndGreedy, Expand, Visit,
                      EndOfList, NextLayer, EndSearch, Rest, HInv, HeldReach
  <2> QED BY <1>1, <2>1, <2>2, GraphStandsJoined DEF JInv
<1>4. CASE UNCHANGED vars
  BY <1>1, <1>4 DEF vars, graph, JInv, Joined, LinkedBothWays, Small, Closed,
                    Indexed, New
<1> QED BY <1>2, <1>3, <1>4 DEF Next, Step

(* A search as wide as the index finds every row of it, while the index is *)
(* so small that no list of layer 0 can have overflowed: an edge leads out *)
(* of any smaller set of results, to a node the search would have met and  *)
(* had room to keep.                                                       *)
THEOREM SmallIndexAnswersExactly == Spec => []SmallIndexIsExact
<1>1. JInv => SmallIndexIsExact
  <2> SUFFICES ASSUME JInv, pc = "search", op = "search", LayerDone,
                      size <= M0 + 1, Ef >= size
               PROVE  W = Indexed
    BY DEF SmallIndexIsExact, Indexed
  <2>1. HInv /\ SInv /\ SearchInv /\ Searching /\ layer = 0 /\ Small /\ Width = Ef
    BY DEF JInv, SInv, LInv, SearchInv, Searching, Small, Width
  <2>2. W \subseteq Indexed /\ W # {} /\ IsFiniteSet(W)
    BY <2>1, IndexedFacts DEF HInv, HeldReach, Reach, SearchInv
  <2>3. ASSUME NEW w \in W, NEW n \in Listed(links[w][0]) \cap Indexed
        PROVE  n \in W
    <3> SUFFICES ASSUME n \notin W PROVE FALSE
      OBVIOUS
    <3>1. Cardinality(W) = Ef
      <4>1. w \notin cand
        <5>1. Near(w) \in Nat
          BY <2>1, NearInNat DEF HInv, TypeOK, OperationTypeOK
        <5> QED BY <5>1 DEF LayerDone
      <4>2. n \in marks
        BY <2>1, <4>1 DEF SearchInv
      <4> QED BY <2>1, <4>2 DEF SearchInv, PassedOver
    <3>2. IsFiniteSet(Indexed) /\ Cardinality(Indexed) = size /\ size \in Nat /\ Ef \in Nat
      BY <2>1, IndexedFacts, WidthFacts
    <3>3. Cardinality(W) <= Cardinality(Indexed)
          /\ (Cardinality(W) = Cardinality(Indexed) => W = Indexed)
      BY <2>2, <3>2, FS_Subset
    <3> QED BY <3>1, <3>2, <3>3
  <2>4. Closed(W)
    BY <2>3 DEF Closed
  <2> QED BY <2>1, <2>2, <2>4 DEF JInv, Joined
<1> QED BY <1>1, InitJoined, NextJoined, PTL DEF Spec
=============================================================================
