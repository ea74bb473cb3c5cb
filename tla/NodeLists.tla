----------------------------- MODULE NodeLists ------------------------------
(* Neighbour lists: sequences that name each node once.                    *)
EXTENDS Integers, Sequences

Listed(list) == {list[i] : i \in 1..Len(list)}

(* Lists of distinct members of S, no longer than n.                       *)
InjectiveLists(S, n) ==
    UNION {{l \in [1..k -> S] : \A i, j \in 1..k : i # j => l[i] # l[j]}
             : k \in 0..n}
=============================================================================
