--------------------------- MODULE PrivateSearch ---------------------------
(***************************************************************************)
(* What a beam search promises: the set of nodes it has visited is its     *)
(* own.  It starts empty, a node enters it when the search meets it, and   *)
(* nothing another thread does is seen in it.                              *)
(***************************************************************************)
EXTENDS BeamSearch

VARIABLE visited

Init == BeamInit /\ visited = [t \in Threads |-> {}]

Start(t) ==
    /\ pc[t] = "idle"
    /\ Seed(t)
    /\ visited' = [visited EXCEPT ![t] = {Entry}]

Step(t) ==
    \/ (Pop(t) \/ Skip(t, visited[t]) \/ EndOfList(t)) /\ UNCHANGED visited
    \/ Visit(t, visited[t])
         /\ visited' = [visited EXCEPT ![t] = @ \cup {Neighbor(t)}]

Finish(t) == Return(t) /\ visited' = [visited EXCEPT ![t] = {}]

Next == \E t \in Threads : Start(t) \/ Step(t) \/ Finish(t)

vars == <<beam, visited>>

Spec == Init /\ [][Next]_vars
=============================================================================
