------------------------------ MODULE HnswCore ------------------------------
(***************************************************************************)
(* The HNSW graph: Insert, which draws a level, descends greedily to it    *)
(* and links the new node layer by layer, and Search.  The facade's lock   *)
(* keeps an insert alone; searches that overlap share only the visit marks *)
(* (VisitEpochs), so here one operation at a time steps through its loops. *)
(*                                                                         *)
(* A node's block has room for the lists of its own layers and no more:    *)
(* reading the list of a higher layer would read past the block.           *)
(***************************************************************************)
EXTENDS NodeLists, FiniteSets

CONSTANTS Vectors, Queries,   \* what is inserted, and what is searched for
          Dist(_, _),         \* distance of a query vector to a vector's code
          CodeDist(_, _),     \* distance of two vectors' codes
          M, M0,              \* degree on the layers above 0, and on layer 0
          EfConstruction, Ef, \* width of an insert's search and of a search
          MaxLevel,           \* params_.max_level
          MaxNodes            \* bound: nodes inserted

ASSUME HnswAssumption ==
    /\ Vectors # {} /\ Queries \subseteq Vectors
    /\ M \in Nat \ {0} /\ M0 \in Nat \ {0} /\ Ef \in Nat \ {0}
    /\ EfConstruction \in Nat /\ EfConstruction >= M
    /\ MaxLevel \in Nat \ {0} /\ MaxNodes \in Nat
    /\ \A v, w \in Vectors : Dist(v, w) \in Nat /\ CodeDist(v, w) \in Nat

VARIABLES
    size, entry, maxLevel,  \* size_, entry_, max_level_seen_
    vec, level, links,      \* per node: its code, its level, a list per layer
    pc, op,                 \* where the operation stands, and which it is
    query, layer,           \* its vector, and the layer it is at
    cur,                    \* the entry point of that layer
    cand, W, marks, at, i,  \* SearchLayer's locals
    sel, si                 \* selected neighbours, and the next one to link

graph == <<size, entry, maxLevel, vec, level, links>>
search == <<cand, W, marks, at, i>>
vars == <<graph, pc, op, query, layer, cur, search, sel, si>>

Nodes == 0 .. MaxNodes - 1  \* internal ids, in order of insertion
NoNode == MaxNodes
Layers == 0..MaxLevel
New == size                 \* the node an insert is linking
Capacity(l) == IF l = 0 THEN M0 ELSE M
Blank == CHOOSE v \in Vectors : TRUE
Min2(a, b) == IF a <= b THEN a ELSE b

Init ==
    /\ size = 0 /\ entry = NoNode /\ maxLevel = 0
    /\ vec = [n \in Nodes |-> Blank]
    /\ level = [n \in Nodes |-> 0]
    /\ links = [n \in Nodes |-> [l \in Layers |-> <<>>]]
    /\ pc = "idle" /\ op = "none" /\ query = Blank
    /\ layer = 0 /\ cur = NoNode
    /\ cand = {} /\ W = {} /\ marks = {} /\ at = NoNode /\ i = 1
    /\ sel = <<>> /\ si = 1

-----------------------------------------------------------------------------
(* Both operations start at the entry point, on the highest layer.         *)

Begin(o, v) ==
    /\ op' = o /\ query' = v
    /\ pc' = "greedy" /\ layer' = maxLevel /\ cur' = entry

(* Insert draws a level; the first node becomes the entry point.           *)
Insert ==
    /\ pc = "idle" /\ size < MaxNodes
    /\ \E v \in Vectors, l \in Layers :
         /\ vec' = [vec EXCEPT ![size] = v]
         /\ level' = [level EXCEPT ![size] = l]
         /\ links' = [links EXCEPT ![size] = [k \in Layers |-> <<>>]]
         /\ \/ /\ size = 0
               /\ entry' = size /\ maxLevel' = l /\ size' = 1
               /\ UNCHANGED <<pc, op, query, layer, cur>>
            \/ /\ size # 0
               /\ Begin("insert", v)
               /\ UNCHANGED <<size, entry, maxLevel>>
    /\ UNCHANGED <<search, sel, si>>

Search ==
    /\ pc = "idle" /\ size # 0
    /\ \E v \in Queries : Begin("search", v)
    /\ UNCHANGED <<graph, search, sel, si>>

-----------------------------------------------------------------------------
(* GreedySearch.                                                           *)

Near(n) == Dist(query, vec[n])
Neighbors(n) == Listed(links[n][layer])
IsNearest(n, S) == n \in S /\ \A m \in S : Near(n) <= Near(m)

(* Layers above this one are searched greedily.                            *)
Bottom == IF op = "insert" THEN level[New] ELSE 0

Descending == layer > Bottom

Closer_OrEqual(n) == Near(n) <= Near(cur)
Closer(n) == Near(n) < Near(cur)

(* The nearest of a list, the first of equals.                             *)
GreedyMove ==
    /\ pc = "greedy" /\ Descending
    /\ \E k \in 1..Len(links[cur][layer]) :
         LET list == links[cur][layer] IN
         /\ Closer(list[k]) /\ IsNearest(list[k], Neighbors(cur))
         /\ \A j \in 1 .. k - 1 : Near(list[j]) # Near(list[k])
         /\ cur' = list[k]
    /\ UNCHANGED <<graph, pc, op, query, layer, search, sel, si>>

GreedyDown ==
    /\ pc = "greedy" /\ Descending
    /\ \A n \in Neighbors(cur) : ~Closer(n)
    /\ layer' = layer - 1
    /\ UNCHANGED <<graph, pc, op, query, cur, search, sel, si>>

-----------------------------------------------------------------------------
(* SearchLayer, from the node nearest so far.                              *)

Seed(n, l) ==
    /\ cand' = {n} /\ W' = {n} /\ marks' = {n}
    /\ at' = NoNode /\ i' = 1
    /\ cur' = n /\ layer' = l
    /\ pc' = "search"

(* The first layer an insert links on: its level, or the highest there is. *)
FirstLayer_Unclamped == Bottom
FirstLayer == Min2(Bottom, maxLevel)

EndGreedy ==
    /\ pc = "greedy" /\ ~Descending
    /\ Seed(cur, FirstLayer)
    /\ UNCHANGED <<graph, op, query, sel, si>>

Width_OneLess == IF op = "insert" THEN EfConstruction - 1 ELSE Ef - 1
Width == IF op = "insert" THEN EfConstruction ELSE Ef

LayerDone_Narrow == cand = {} \/ Cardinality(W) >= Width
LayerDone ==
    \/ cand = {}
    \/ /\ Cardinality(W) >= Width
       /\ \A c \in cand, w \in W : Near(c) > Near(w)

Expand ==
    /\ pc = "search" /\ ~LayerDone
    /\ \E c \in cand :
         /\ IsNearest(c, cand)
         /\ cand' = cand \ {c}
         /\ at' = c
    /\ i' = 1 /\ pc' = "read"
    /\ UNCHANGED <<graph, op, query, layer, cur, W, marks, sel, si>>

(* W after taking node n in: the Width nearest stay.                       *)
Offered(n) ==
    IF Cardinality(W) < Width THEN {W \cup {n}}
    ELSE {(W \cup {n}) \ {f} :
            f \in {w \in W : \A x \in W : Near(x) <= Near(w)}}

Visit ==
    /\ pc = "read" /\ i <= Len(links[at][layer])
    /\ i' = i + 1
    /\ LET n == links[at][layer][i] IN
       \/ /\ n \in marks
          /\ UNCHANGED <<cand, W, marks>>
       \/ /\ n \notin marks
          /\ marks' = marks \cup {n}
          /\ \/ /\ \/ Cardinality(W) < Width
                   \/ \E w \in W : Near(n) < Near(w)
                /\ cand' = cand \cup {n}
                /\ W' \in Offered(n)
             \/ /\ Cardinality(W) >= Width
                /\ \A w \in W : Near(n) >= Near(w)
                /\ UNCHANGED <<cand, W>>
    /\ UNCHANGED <<graph, pc, op, query, layer, cur, at, sel, si>>

EndOfList ==
    /\ pc = "read" /\ i > Len(links[at][layer])
    /\ pc' = "search" /\ at' = NoNode
    /\ UNCHANGED <<graph, op, query, layer, cur, cand, W, marks, i, sel, si>>

-----------------------------------------------------------------------------
(* SelectNeighborsHeuristic and ConnectAndPrune.                           *)

(* list is a result of Algorithm 4 on the nodes S, d giving each one's     *)
(* distance to the base: nearest first (std::sort leaves ties in any       *)
(* order), a node taken unless a taken one is closer to it than the base,  *)
(* until n are taken.                                                      *)
Rejects(w, c, d) == CodeDist(vec[c], vec[w]) < d[c]

IsChosen(list, S, d, n) ==
    /\ \A j, k \in 1..Len(list) :
         j < k => /\ d[list[j]] <= d[list[k]]
                  /\ ~Rejects(list[j], list[k], d)
    /\ \A c \in S \ Listed(list) :
         \/ \E j \in 1..Len(list) : d[list[j]] <= d[c] /\ Rejects(list[j], c, d)
         \/ Len(list) = n /\ \A j \in 1..n : d[list[j]] <= d[c]

Chosen(S, d, n) == {list \in InjectiveLists(S, n) : IsChosen(list, S, d, n)}

(* The search of a layer ends: the new node takes its list.                *)
Select ==
    /\ pc = "search" /\ LayerDone /\ op = "insert"
    /\ \E list \in Chosen(W, [n \in W |-> Near(n)], Capacity(layer)) :
         /\ sel' = list
         /\ links' = [links EXCEPT ![New][layer] = list]
    /\ si' = 1 /\ pc' = "link"
    /\ cand' = {} /\ marks' = {} /\ i' = 1
    /\ UNCHANGED <<size, entry, maxLevel, vec, level, op, query, layer, cur, W, at>>

HasRoom_Off(list) == Len(list) <= Capacity(layer)
HasRoom(list) == Len(list) < Capacity(layer)

(* The reciprocal edge: appended while there is room; in a full list the   *)
(* neighbours and the new node are chosen from again.                      *)
LinkBack ==
    /\ pc = "link" /\ si <= Len(sel)
    /\ LET s    == sel[si]
           old  == links[s][layer]
           near == Listed(old) \cup {New}
           d    == [n \in near |-> IF n = New THEN Near(s)
                                   ELSE CodeDist(vec[s], vec[n])]
       IN  \/ /\ HasRoom(old)
              /\ links' = [links EXCEPT ![s][layer] = Append(old, New)]
           \/ /\ ~HasRoom(old)
              /\ \E list \in Chosen(near, d, Capacity(layer)) :
                   links' = [links EXCEPT ![s][layer] = list]
    /\ si' = si + 1
    /\ UNCHANGED <<size, entry, maxLevel, vec, level, pc, op, query, layer, cur,
                   search, sel>>

(* The operation returns.                                                  *)
Rest ==
    /\ pc' = "idle" /\ op' = "none" /\ query' = Blank
    /\ layer' = 0 /\ cur' = NoNode
    /\ cand' = {} /\ W' = {} /\ marks' = {} /\ at' = NoNode /\ i' = 1

(* The layer is linked: on to the one below, from the nearest node found.  *)
NextLayer ==
    /\ pc = "link" /\ si > Len(sel) /\ layer > 0
    /\ \E n \in W : IsNearest(n, W) /\ Seed(n, layer - 1)
    /\ sel' = <<>> /\ si' = 1
    /\ UNCHANGED <<graph, op, query>>

(* Layer 0 is linked: a node above all others becomes the entry point.     *)
Raised_Never(l) == FALSE
Raised(l) == l > maxLevel

EndInsert ==
    /\ pc = "link" /\ si > Len(sel) /\ layer = 0
    /\ \/ /\ Raised(level[New])
          /\ maxLevel' = level[New] /\ entry' = New
       \/ /\ ~Raised(level[New])
          /\ UNCHANGED <<maxLevel, entry>>
    /\ size' = size + 1
    /\ sel' = <<>> /\ si' = 1 /\ Rest
    /\ UNCHANGED <<vec, level, links>>

(* Search returns W.                                                       *)
EndSearch ==
    /\ pc = "search" /\ LayerDone /\ op = "search"
    /\ Rest
    /\ UNCHANGED <<graph, sel, si>>

Step ==
    \/ GreedyMove \/ GreedyDown \/ EndGreedy
    \/ Expand \/ Visit \/ EndOfList
    \/ Select \/ LinkBack \/ NextLayer \/ EndInsert \/ EndSearch

Next == Insert \/ Search \/ Step

Spec == Init /\ [][Next]_vars

(* An operation that has begun runs on.                                    *)
FairSpec == Spec /\ WF_vars(Step)

-----------------------------------------------------------------------------
(* Properties.                                                             *)

(* Nodes with a block: those in the graph, and the one being linked.       *)
Allocated == 0 .. IF op = "insert" THEN size ELSE size - 1

GraphTypeOK ==
    /\ size \in 0..MaxNodes /\ maxLevel \in Layers
    /\ entry \in Nodes \cup {NoNode} /\ (size = 0 <=> entry = NoNode)
    /\ vec \in [Nodes -> Vectors] /\ level \in [Nodes -> Layers]
    /\ links \in [Nodes -> [Layers -> Seq(Nodes)]]

OperationTypeOK ==
    /\ pc \in {"idle", "greedy", "search", "read", "link"}
    /\ op \in {"none", "insert", "search"} /\ query \in Vectors /\ layer \in Layers
    /\ cur \in Nodes \cup {NoNode} /\ at \in Nodes \cup {NoNode}
    /\ cand \subseteq Nodes /\ W \subseteq Nodes /\ marks \subseteq Nodes
    /\ i \in Nat \ {0} /\ si \in Nat \ {0} /\ sel \in Seq(Nodes)

TypeOK == GraphTypeOK /\ OperationTypeOK

(* A list of layer l names only nodes that reach layer l, so that no step  *)
(* reads a list for which a node's block has no room: neither through an   *)
(* edge, nor from the entry point, nor on the way down.                    *)
NoReadPastBlock ==
    /\ \A n \in Allocated, l \in Layers : \A m \in Listed(links[n][l]) :
         m \in Allocated /\ l <= level[n] /\ l <= level[m]
    /\ pc \in {"greedy", "search", "link"} => layer <= level[cur]
    /\ pc = "read" => layer <= level[at]

(* Between operations the entry point is a node of the highest level.      *)
EntryIsTop ==
    pc = "idle" /\ size > 0 =>
        /\ entry < size /\ level[entry] = maxLevel
        /\ \A n \in 0 .. size - 1 : level[n] <= maxLevel

(* A list names a node once, never its own, and is never too long, whether *)
(* its edges came from its own insert, as reciprocal ones or from a choice *)
(* made again.                                                             *)
SimpleLists ==
    \A n \in Allocated, l \in Layers :
        /\ Len(links[n][l]) <= Capacity(l)
        /\ Cardinality(Listed(links[n][l])) = Len(links[n][l])
        /\ n \notin Listed(links[n][l])

(* As long as no list of layer 0 can have overflowed, a search as wide as  *)
(* the index returns every row: what small tables rely on.                 *)
SmallIndexIsExact ==
    pc = "search" /\ op = "search" /\ LayerDone /\ size <= M0 + 1 /\ Ef >= size
        => W = 0 .. size - 1

(* A search ends at a local optimum of its layer: a neighbour of a result  *)
(* is a result, unless the search is full of nodes at least as near.       *)
LocallyOptimal ==
    pc = "search" /\ LayerDone =>
        \A w \in W : \A n \in Listed(links[w][layer]) \ W :
            /\ Cardinality(W) = Width
            /\ \A x \in W : Near(x) <= Near(n)

(* Every operation ends: greedy descent does not circle among equals.      *)
OperationEnds == pc # "idle" ~> pc = "idle"
=============================================================================
