---------------------------- MODULE VisitEpochs ----------------------------
(***************************************************************************)
(* VamanaTLS: how searches really remember the nodes they visited.  Every  *)
(* search takes the next epoch of a scratch instance and marks a node by   *)
(* storing the epoch in the instance's table, which is never cleared until *)
(* the counter wraps.                                                      *)
(*                                                                         *)
(* A thread uses the instance Scratch says.  Build tasks have one each     *)
(* (aisaq_index.cpp, InsertBuildRange); the searches of an index all use   *)
(* the core's one `tls_` member, and hold the index lock only shared.      *)
(* The counter and the marks are plain memory: a load and the store that   *)
(* follows it are two steps.                                               *)
(***************************************************************************)
EXTENDS BeamSearch

CONSTANTS Instances, Scratch, \* the instances, and each thread's own
          EpochLimit          \* visit_counter is modulo this: 2^32

ASSUME ScratchAssumption ==
    /\ Scratch \in [Threads -> Instances]
    /\ EpochLimit \in Nat /\ EpochLimit > 1

VARIABLES counter,  \* per instance: visit_counter
          marks,    \* per instance: visit_marks
          vc        \* per thread: the epoch it loaded, then its own epoch

scratch == <<counter, marks, vc>>
vars == <<beam, scratch>>

Epochs == 0 .. EpochLimit - 1
Unmarked == [n \in Nodes |-> 0]

Init ==
    /\ BeamInit
    /\ counter = [s \in Instances |-> 0]
    /\ marks = [s \in Instances |-> Unmarked]
    /\ vc = [t \in Threads |-> 0]

(* NextVisitEpoch: load the counter, ...                                   *)
LoadCounter(t) ==
    /\ pc[t] = "idle"
    /\ vc' = [vc EXCEPT ![t] = counter[Scratch[t]]]
    /\ pc' = [pc EXCEPT ![t] = "bump"]
    /\ UNCHANGED <<query, frontier, W, at, i, counter, marks>>

Increment(e) == (e + 1) % EpochLimit
AfterWrap_Kept(m) == m
AfterWrap(m) == Unmarked

(* ... store its successor; when that is 0, clear the table and store 1.   *)
StoreCounter(t) ==
    LET s == Scratch[t]
        e == Increment(vc[t])
    IN  /\ pc[t] = "bump"
        /\ \/ /\ e # 0
              /\ vc' = [vc EXCEPT ![t] = e]
              /\ counter' = [counter EXCEPT ![s] = e]
              /\ UNCHANGED marks
           \/ /\ e = 0
              /\ vc' = [vc EXCEPT ![t] = 1]
              /\ counter' = [counter EXCEPT ![s] = 1]
              /\ marks' = [marks EXCEPT ![s] = AfterWrap(@)]
        /\ pc' = [pc EXCEPT ![t] = "seed"]
        /\ UNCHANGED <<query, frontier, W, at, i>>

Marked(t, n) == [marks EXCEPT ![Scratch[t]][n] = vc[t]]

(* The entry point is marked and becomes the first candidate.              *)
SeedSearch(t) ==
    /\ pc[t] = "seed"
    /\ Seed(t)
    /\ marks' = Marked(t, Entry)
    /\ UNCHANGED <<counter, vc>>

Seen(t) == {n \in Nodes : marks[Scratch[t]][n] = vc[t]}

Search(t) ==
    \/ (Pop(t) \/ Skip(t, Seen(t)) \/ EndOfList(t) \/ Return(t))
         /\ UNCHANGED scratch
    \/ Visit(t, Seen(t)) /\ marks' = Marked(t, Neighbor(t))
         /\ UNCHANGED <<counter, vc>>

ThreadStep(t) ==
    LoadCounter(t) \/ StoreCounter(t) \/ SeedSearch(t) \/ Search(t)

Next == \E t \in Threads : ThreadStep(t)

Spec == Init /\ [][Next]_vars

(* A query thread that is searching keeps running.                         *)
Fairness == \A t \in Threads : WF_vars(pc[t] # "idle" /\ ThreadStep(t))

FairSpec == Spec /\ Fairness

-----------------------------------------------------------------------------
(* Properties.                                                             *)

(* A search's steps between its seeding and its return.                    *)
Searching(t) == pc[t] \in {"search", "read"}

TypeOK ==
    /\ pc \in [Threads -> {"idle", "bump", "seed", "search", "read"}]
    /\ query \in [Threads -> Queries]
    /\ at \in [Threads -> Nodes] /\ i \in [Threads -> Nat \ {0}]
    /\ DOMAIN frontier = Threads /\ DOMAIN W = Threads
    /\ \A t \in Threads : BagToSet(frontier[t]) \cup BagToSet(W[t]) \subseteq Nodes
    /\ counter \in [Instances -> Epochs]
    /\ marks \in [Instances -> [Nodes -> Epochs]]
    /\ vc \in [Threads -> Epochs]

(* Threads with an instance each search as if the visited set were a set   *)
(* of their own: no mark of an earlier search, of an earlier cycle of the  *)
(* counter or of another thread is ever taken for one of this search.      *)
Alone == INSTANCE PrivateSearch WITH
            pc <- [t \in Threads |->
                     IF Searching(t) THEN pc[t] ELSE "idle"],
            visited <- [t \in Threads |->
                          IF Searching(t) THEN Seen(t) ELSE {}]

SearchesAreAlone == Alone!Spec

(* A search that starts returns: no node is expanded for ever.             *)
SearchReturns == \A t \in Threads : pc[t] = "seed" ~> pc[t] = "idle"
=============================================================================
