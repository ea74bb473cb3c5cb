---------------------------- MODULE DiskannCore ----------------------------
(***************************************************************************)
(* The DiskANN graph: Insert, which searches from the entry point, prunes  *)
(* what it found to a list of at most R and links back, and Search.  The   *)
(* facade's lock keeps an insert alone; what overlapping searches share is *)
(* the subject of VisitEpochs, so here one operation at a time steps       *)
(* through its loops.                                                      *)
(*                                                                         *)
(* RobustPrune runs here as the core writes it, one kept candidate and one *)
(* partition of the others at a time.                                      *)
(***************************************************************************)
EXTENDS NodeLists, FiniteSets

CONSTANTS Vectors, Queries,   \* what is inserted, and what is searched for
          Dist(_, _),         \* DistanceToCode: a query and a vector's code
          CodeDist(_, _),     \* distance of two vectors' codes
          R, LParam,          \* graph out-degree; params_.L as the options say
          AlphaNum, AlphaDen, \* params_.alpha as a fraction
          Ks, LSearches,      \* the k and L_search that searches ask for
          MaxNodes            \* bound: nodes inserted

ASSUME DiskannAssumption ==
    /\ Vectors # {} /\ Queries \subseteq Vectors
    /\ R \in Nat \ {0} /\ LParam \in Nat
    /\ AlphaNum \in Nat /\ AlphaDen \in Nat \ {0} /\ AlphaNum >= AlphaDen
    /\ Ks \subseteq Nat \ {0} /\ LSearches \subseteq Nat /\ MaxNodes \in Nat
    /\ \A v, w \in Vectors : Dist(v, w) \in Nat /\ CodeDist(v, w) \in Nat

VARIABLES
    size, entry,            \* size_, entry_
    vec, links,             \* per node: its code, and its neighbour list
    pc, op, query,          \* where the operation stands, which it is, its vector
    k, width,               \* what a search asked for; BeamSearch's L
    cand, W, marks, at, i,  \* BeamSearch's locals
    base, dist, todo, kept, \* RobustPrune's: whose list, distances, candidates
    sel, si                 \* selected neighbours, and the next one to link

graph == <<size, entry, vec, links>>
search == <<cand, W, marks, at, i>>
prune == <<base, dist, todo, kept>>
vars == <<graph, pc, op, query, k, width, search, prune, sel, si>>

Nodes == 0 .. MaxNodes - 1  \* internal ids, in order of insertion
NoNode == MaxNodes
New == size                 \* the node an insert is linking
Blank == CHOOSE v \in Vectors : TRUE
Max2(a, b) == IF a >= b THEN a ELSE b

(* The constructor raises L to R.                                          *)
L == Max2(LParam, R)

NodeDist(a, b) == CodeDist(vec[a], vec[b])
P == INSTANCE RobustPrune WITH CodeDist <- NodeDist

Init ==
    /\ size = 0 /\ entry = NoNode
    /\ vec = [n \in Nodes |-> Blank] /\ links = [n \in Nodes |-> <<>>]
    /\ pc = "idle" /\ op = "none" /\ query = Blank /\ k = 0 /\ width = 0
    /\ cand = {} /\ W = {} /\ marks = {} /\ at = NoNode /\ i = 1
    /\ base = NoNode /\ dist = <<>> /\ todo = {} /\ kept = <<>>
    /\ sel = <<>> /\ si = 1

-----------------------------------------------------------------------------
(* BeamSearch starts at the entry point.                                   *)

Seed(o, v, w) ==
    /\ op' = o /\ query' = v /\ width' = w
    /\ cand' = {entry} /\ W' = {entry} /\ marks' = {entry}
    /\ at' = NoNode /\ i' = 1 /\ pc' = "search"

(* Insert encodes and allocates; the first node becomes the entry point.   *)
Insert ==
    /\ pc = "idle" /\ size < MaxNodes
    /\ \E v \in Vectors :
         /\ vec' = [vec EXCEPT ![New] = v]
         /\ links' = [links EXCEPT ![New] = <<>>]
         /\ \/ /\ size = 0
               /\ entry' = New /\ size' = 1
               /\ UNCHANGED <<pc, op, query, width, search>>
            \/ /\ size # 0
               /\ Seed("insert", v, L)
               /\ UNCHANGED <<size, entry>>
    /\ UNCHANGED <<k, prune, sel, si>>

(* L_search defaults to L, and is never below k.                           *)
SearchWidth_NoFloor(n, l) == IF l = 0 THEN L ELSE l
SearchWidth(n, l) == Max2(n, IF l = 0 THEN L ELSE l)

Search ==
    /\ pc = "idle" /\ size # 0
    /\ \E v \in Queries, n \in Ks, l \in LSearches :
         /\ k' = n
         /\ Seed("search", v, SearchWidth(n, l))
    /\ UNCHANGED <<graph, prune, sel, si>>

Near(n) == Dist(query, vec[n])
IsNearest(n, S) == n \in S /\ \A m \in S : Near(n) <= Near(m)

BeamDone ==
    \/ cand = {}
    \/ /\ Cardinality(W) >= width
       /\ \A c \in cand, w \in W : Near(c) > Near(w)

Expand ==
    /\ pc = "search" /\ ~BeamDone
    /\ \E c \in cand : IsNearest(c, cand) /\ cand' = cand \ {c} /\ at' = c
    /\ i' = 1 /\ pc' = "read"
    /\ UNCHANGED <<graph, op, query, k, width, W, marks, prune, sel, si>>

(* W after taking node n in: the width nearest stay.                       *)
Offered(n) ==
    IF Cardinality(W) < width THEN {W \cup {n}}
    ELSE {(W \cup {n}) \ {f} : f \in {w \in W : \A x \in W : Near(x) <= Near(w)}}

Unseen(n) == n \notin marks

Visit ==
    /\ pc = "read" /\ i <= Len(links[at])
    /\ i' = i + 1
    /\ LET n == links[at][i]
           fits == Cardinality(W) < width \/ \E w \in W : Near(n) < Near(w)
       IN  /\ marks' = marks \cup {n}
           /\ \/ /\ Unseen(n) /\ fits
                 /\ cand' = cand \cup {n} /\ W' \in Offered(n)
              \/ /\ ~Unseen(n) \/ ~fits
                 /\ UNCHANGED <<cand, W>>
    /\ UNCHANGED <<graph, pc, op, query, k, width, at, prune, sel, si>>

EndOfList ==
    /\ pc = "read" /\ i > Len(links[at])
    /\ pc' = "search" /\ at' = NoNode
    /\ UNCHANGED <<graph, op, query, k, width, cand, W, marks, i, prune, sel, si>>

-----------------------------------------------------------------------------
(* RobustPrune.  The candidates are taken in the order of their distance   *)
(* to the base point; std::sort leaves ties in any order, so any of the    *)
(* nearest may come first.                                                 *)

StartPrune(b, S, d) ==
    /\ base' = b /\ dist' = d /\ todo' = S /\ kept' = <<>>
    /\ pc' = "prune"

Pruned == todo = {} \/ Len(kept) = R

(* The nearest candidate is kept; of the others those stay that are        *)
(* alpha times as far from it as from the base point, or farther.          *)
Remaining_OrEqual(p, rest) ==
    {pp \in rest : AlphaNum * NodeDist(p, pp) >= AlphaDen * dist[pp]}
Remaining(p, rest) ==
    {pp \in rest : AlphaNum * NodeDist(p, pp) > AlphaDen * dist[pp]}

Keep ==
    /\ pc = "prune" /\ ~Pruned
    /\ \E p \in todo :
         /\ \A pp \in todo : dist[p] <= dist[pp]
         /\ kept' = Append(kept, p)
         /\ todo' = Remaining(p, todo \ {p})
    /\ UNCHANGED <<graph, pc, op, query, k, width, search, base, dist, sel, si>>

-----------------------------------------------------------------------------
(* ConnectAndPrune.                                                        *)

(* An insert's search ends: what it found is pruned around the new node.   *)
Select ==
    /\ pc = "search" /\ BeamDone /\ op = "insert"
    /\ StartPrune(New, W, [n \in W |-> Near(n)])
    /\ cand' = {} /\ W' = {} /\ marks' = {} /\ i' = 1
    /\ UNCHANGED <<graph, op, query, k, width, at, sel, si>>

(* The forward edges.                                                      *)
Forward ==
    /\ pc = "prune" /\ Pruned /\ base = New
    /\ links' = [links EXCEPT ![New] = kept]
    /\ sel' = kept /\ si' = 1 /\ pc' = "link"
    /\ UNCHANGED <<size, entry, vec, op, query, k, width, search, prune>>

HasRoom_Off(list) == Len(list) <= R
HasRoom(list) == Len(list) < R

(* The reciprocal edge is appended while there is room.                    *)
LinkBack ==
    /\ pc = "link" /\ si <= Len(sel) /\ HasRoom(links[sel[si]])
    /\ links' = [links EXCEPT ![sel[si]] = Append(@, New)]
    /\ si' = si + 1
    /\ UNCHANGED <<size, entry, vec, pc, op, query, k, width, search, prune, sel>>

(* In a full list the neighbours and the new node are pruned again.        *)
Overfull(s) == Listed(links[s]) \cup {New}

Reprune ==
    /\ pc = "link" /\ si <= Len(sel) /\ ~HasRoom(links[sel[si]])
    /\ LET s == sel[si] IN
       StartPrune(s, Overfull(s), [n \in Overfull(s) |-> NodeDist(s, n)])
    /\ UNCHANGED <<graph, op, query, k, width, search, sel, si>>

Rewrite ==
    /\ pc = "prune" /\ Pruned /\ base # New
    /\ links' = [links EXCEPT ![base] = kept]
    /\ si' = si + 1 /\ pc' = "link"
    /\ UNCHANGED <<size, entry, vec, op, query, k, width, search, prune, sel>>

(* The operation returns.                                                  *)
Rest ==
    /\ pc' = "idle" /\ op' = "none" /\ query' = Blank /\ k' = 0 /\ width' = 0
    /\ cand' = {} /\ W' = {} /\ marks' = {} /\ at' = NoNode /\ i' = 1
    /\ base' = NoNode /\ dist' = <<>> /\ todo' = {} /\ kept' = <<>>
    /\ sel' = <<>> /\ si' = 1

EndInsert ==
    /\ pc = "link" /\ si > Len(sel)
    /\ size' = size + 1 /\ Rest
    /\ UNCHANGED <<entry, vec, links>>

(* Search returns the k nearest of W.                                      *)
EndSearch ==
    /\ pc = "search" /\ BeamDone /\ op = "search"
    /\ Rest /\ UNCHANGED graph

Step ==
    \/ Expand \/ Visit \/ EndOfList \/ Keep
    \/ Select \/ Forward \/ LinkBack \/ Reprune \/ Rewrite
    \/ EndInsert \/ EndSearch

Next == Insert \/ Search \/ Step

Spec == Init /\ [][Next]_vars

-----------------------------------------------------------------------------
(* Properties.                                                             *)

(* Lists stay within a node's R slots, and name a node once, never its own *)
(* - neither through the forward edges, nor through a reciprocal one, nor  *)
(* through a list pruned again - and the nodes they name are allocated.    *)
SimpleLists ==
    \A n \in Nodes :
        /\ Len(links[n]) <= R
        /\ Cardinality(Listed(links[n])) = Len(links[n])
        /\ Listed(links[n]) \subseteq (0 .. New) \ {n}

(* When the loop of RobustPrune ends, what it kept is one of the lists its *)
(* definition (module RobustPrune) allows, and the only one when no two    *)
(* distances are equal: the definition the AiSAQ build is checked with     *)
(* neither misses a result of this code nor adds one.                      *)
LoopMatchesDefinition ==
    pc = "prune" /\ Pruned =>
        LET S == DOMAIN dist
            lists == P!KeptLists(S, dist)
        IN  /\ kept \in lists
            /\ (\A a, b \in S : a # b => dist[a] # dist[b]) => lists = {kept}

(* As long as no list can have overflowed, a search that asks for as many  *)
(* rows as the index has finds them all, whatever L_search it was given.   *)
SmallIndexIsExact ==
    pc = "search" /\ op = "search" /\ BeamDone /\ size <= R + 1 /\ k >= size
        => W = 0 .. size - 1
=============================================================================
