----------------------------- MODULE BeamSearch -----------------------------
(***************************************************************************)
(* The steps of a Vamana beam search (DiskAnnCore::BeamSearch; the AiSAQ   *)
(* core's loop is the same), by any number of threads on a graph nobody    *)
(* writes: searches hold the index lock shared, writers exclusively.       *)
(*                                                                         *)
(* How a search knows the nodes it has visited is left to the modules that *)
(* extend this one: `seen` is that set, and `pc` grows their own places.   *)
(***************************************************************************)
EXTENDS Integers, Sequences, Bags

CONSTANTS Threads, Nodes,
          Neighbors,      \* per node, the sequence of its neighbours
          Entry,          \* entry_
          Queries,        \* the query vectors
          Dist(_, _),     \* distance of a query to a node
          L               \* search width, at least k

ASSUME GraphAssumption ==
    /\ Neighbors \in [Nodes -> Seq(Nodes)] /\ Entry \in Nodes
    /\ L \in Nat \ {0} /\ Queries # {}
    /\ \A q \in Queries, n \in Nodes : Dist(q, n) \in Nat

VARIABLES
    pc,         \* per thread: "idle", "search", "read", ...
    frontier,   \* per thread: the candidates to expand, a bag of nodes
    W,          \* per thread: the working set, a bag of at most L nodes
    query,      \* per thread: the query of its last search
    at, i       \* per thread: the node being expanded, and its next slot

beam == <<pc, query, frontier, W, at, i>>

Near(t, n) == Dist(query[t], n)

Only(n) == SetToBag({n})

(* The number of members of a bag, copies counted.                         *)
Size(B) ==
    LET copies[S \in SUBSET DOMAIN B] ==
          IF S = {} THEN 0
          ELSE LET n == CHOOSE n \in S : TRUE IN B[n] + copies[S \ {n}]
    IN  copies[DOMAIN B]

BeamInit ==
    /\ pc = [t \in Threads |-> "idle"]
    /\ query \in [Threads -> Queries]
    /\ frontier = [t \in Threads |-> EmptyBag]
    /\ W = [t \in Threads |-> EmptyBag]
    /\ at = [t \in Threads |-> Entry]
    /\ i = [t \in Threads |-> 1]

(* The search of some query; the entry point is the first candidate.       *)
Seed(t) ==
    /\ \E q \in Queries : query' = [query EXCEPT ![t] = q]
    /\ frontier' = [frontier EXCEPT ![t] = Only(Entry)]
    /\ W' = [W EXCEPT ![t] = Only(Entry)]
    /\ pc' = [pc EXCEPT ![t] = "search"]
    /\ UNCHANGED <<at, i>>

Full(t) == Size(W[t]) >= L

(* The loop ends: the frontier is empty, or W is full and the popped node  *)
(* is farther than all of W.                                               *)
BeamDone_NearestOnly(t) ==
    \/ BagToSet(frontier[t]) = {}
    \/ /\ Full(t)
       /\ \A b \in BagToSet(frontier[t]) :
            \E w \in BagToSet(W[t]) : Near(t, b) > Near(t, w)
BeamDone(t) ==
    \/ BagToSet(frontier[t]) = {}
    \/ /\ Full(t)
       /\ \A b \in BagToSet(frontier[t]), w \in BagToSet(W[t]) :
            Near(t, b) > Near(t, w)

(* Pop the closest frontier node and start on its neighbour list.          *)
Popped_Stays(t, b) == frontier[t]
Popped(t, b) == frontier[t] (-) Only(b)

Pop(t) ==
    /\ pc[t] = "search" /\ ~BeamDone(t)
    /\ \E b \in BagToSet(frontier[t]) :
         /\ \A c \in BagToSet(frontier[t]) : Near(t, b) <= Near(t, c)
         /\ frontier' = [frontier EXCEPT ![t] = Popped(t, b)]
         /\ at' = [at EXCEPT ![t] = b]
    /\ i' = [i EXCEPT ![t] = 1]
    /\ pc' = [pc EXCEPT ![t] = "read"]
    /\ UNCHANGED <<query, W>>

Reading(t) == pc[t] = "read" /\ i[t] <= Len(Neighbors[at[t]])
Neighbor(t) == Neighbors[at[t]][i[t]]

(* A neighbour that is in `seen` is passed over.                           *)
Skip(t, seen) ==
    /\ Reading(t) /\ Neighbor(t) \in seen
    /\ i' = [i EXCEPT ![t] = @ + 1]
    /\ UNCHANGED <<pc, query, frontier, W, at>>

(* One that is not is visited, and kept when W has room or when it is      *)
(* closer than W's farthest, which then leaves.                            *)
Visit(t, seen) ==
    /\ Reading(t) /\ Neighbor(t) \notin seen
    /\ i' = [i EXCEPT ![t] = @ + 1]
    /\ LET n    == Neighbor(t)
           grown == W[t] (+) Only(n)
       IN  \/ /\ ~Full(t)
              /\ W' = [W EXCEPT ![t] = grown]
              /\ frontier' = [frontier EXCEPT ![t] = @ (+) Only(n)]
           \/ /\ Full(t)
              /\ \E far \in BagToSet(W[t]) :
                   /\ \A w \in BagToSet(W[t]) : Near(t, w) <= Near(t, far)
                   /\ Near(t, n) < Near(t, far)
                   /\ W' = [W EXCEPT ![t] = grown (-) Only(far)]
              /\ frontier' = [frontier EXCEPT ![t] = @ (+) Only(n)]
           \/ /\ Full(t)
              /\ \A w \in BagToSet(W[t]) : Near(t, n) >= Near(t, w)
              /\ UNCHANGED <<frontier, W>>
    /\ UNCHANGED <<pc, query, at>>

EndOfList(t) ==
    /\ pc[t] = "read" /\ i[t] > Len(Neighbors[at[t]])
    /\ pc' = [pc EXCEPT ![t] = "search"]
    /\ UNCHANGED <<query, frontier, W, at, i>>

(* The working set is moved into the result.                               *)
Return(t) ==
    /\ pc[t] = "search" /\ BeamDone(t)
    /\ pc' = [pc EXCEPT ![t] = "idle"]
    /\ frontier' = [frontier EXCEPT ![t] = EmptyBag]
    /\ W' = [W EXCEPT ![t] = EmptyBag]
    /\ at' = [at EXCEPT ![t] = Entry]
    /\ i' = [i EXCEPT ![t] = 1]
    /\ UNCHANGED query

-----------------------------------------------------------------------------
(* Properties.                                                             *)

(* What a finished search returns is complete as far as the graph allows:  *)
(* a neighbour of a result is a result itself, unless L results are at     *)
(* least as close.  A search that skips a node it never visited stops      *)
(* short of that.                                                          *)
LocallyOptimal ==
    \A t \in Threads : pc[t] = "search" /\ BeamDone(t) =>
        \A w \in BagToSet(W[t]) : \A s \in 1..Len(Neighbors[w]) :
            \/ Neighbors[w][s] \in BagToSet(W[t])
            \/ /\ Size(W[t]) = L
               /\ \A x \in BagToSet(W[t]) : Near(t, x) <= Near(t, Neighbors[w][s])

=============================================================================
