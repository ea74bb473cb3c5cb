--------------------------- MODULE ProximityGraph ---------------------------
(***************************************************************************)
(* What the parallel build promises of the graph: nodes are linked one at  *)
(* a time, each with its whole list of earlier nodes, and every reciprocal *)
(* edge is one atomic update of one list, which appends it or, when the    *)
(* list is full, prunes the list again.  AisaqBuild implements this with   *)
(* unlocked searches, word-sized stores and per-node spinlocks.            *)
(***************************************************************************)
EXTENDS Integers, Sequences, RobustPrune

CONSTANT Nodes

VARIABLES edges,    \* per node: its neighbours, nearest candidates first
          linked    \* nodes that have their forward list

Init == edges = [n \in Nodes |-> <<>>] /\ linked = {}

(* A new node gets its forward list: at most R nodes linked before it, and *)
(* at least one of them unless it is the first.                            *)
Link(n) ==
    /\ n \notin linked
    /\ \E list \in InjectiveLists(linked, R) :
         /\ list = <<>> => linked = {}
         /\ edges' = [edges EXCEPT ![n] = list]
    /\ linked' = linked \cup {n}

(* The reciprocal edge s -> n.                                             *)
LinkBack(s, n) ==
    /\ s \in linked /\ n \in linked \ (Listed(edges[s]) \cup {s})
    /\ \/ /\ Len(edges[s]) < R
          /\ edges' = [edges EXCEPT ![s] = Append(@, n)]
       \/ /\ Len(edges[s]) = R
          /\ LET cand == Listed(edges[s]) \cup {n} IN
             \E list \in KeptLists(cand, [x \in cand |-> CodeDist(s, x)]) :
                edges' = [edges EXCEPT ![s] = list]
    /\ UNCHANGED linked

Next == \E n \in Nodes : Link(n) \/ \E s \in Nodes : LinkBack(s, n)

Spec == Init /\ [][Next]_<<edges, linked>>
=============================================================================
