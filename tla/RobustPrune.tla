---------------------------- MODULE RobustPrune ----------------------------
(***************************************************************************)
(* Vamana's neighbour selection, AiSaqCore::RobustPrune: what the loop     *)
(* returns, stated without the loop.                                       *)
(*                                                                         *)
(* The code sorts the candidates by their distance to the base point, then *)
(* repeatedly keeps the closest surviving candidate p and removes every    *)
(* later candidate pp with alpha * d(p, pp) <= d(base, pp), until R are    *)
(* kept.  std::sort leaves ties in any order, so a call may return any     *)
(* list KeptLists contains.                                                *)
(***************************************************************************)
EXTENDS NodeLists

CONSTANTS R,                  \* graph out-degree (params_.R)
          AlphaNum, AlphaDen, \* params_.alpha as a fraction
          CodeDist(_, _)      \* symmetric distance of two nodes' PQ codes

(* The constructor raises alpha to at least 1 and refuses R = 0.           *)
ASSUME PruneAssumption ==
    /\ R \in Nat \ {0}
    /\ AlphaNum \in Nat /\ AlphaDen \in Nat \ {0}
    /\ AlphaNum >= AlphaDen

(* p, once kept, removes pp, whose distance to the base is d[pp].          *)
Removes(p, pp, d) == AlphaNum * CodeDist(p, pp) <= AlphaDen * d[pp]

(* list is a result of pruning the candidates S, d giving each one's       *)
(* distance to the base point: nearest first, no member removes a later    *)
(* one, and a candidate is left out only because a kept one at least as    *)
(* close removed it, or because R closer ones were kept first.             *)
IsPruned(list, S, d) ==
    /\ \A i, j \in 1..Len(list) :
         i < j => /\ d[list[i]] <= d[list[j]]
                  /\ ~Removes(list[i], list[j], d)
    /\ \A c \in S \ Listed(list) :
         \/ \E i \in 1..Len(list) :
               d[list[i]] <= d[c] /\ Removes(list[i], c, d)
         \/ Len(list) = R /\ \A i \in 1..R : d[list[i]] <= d[c]

KeptLists(S, d) == {list \in InjectiveLists(S, R) : IsPruned(list, S, d)}
=============================================================================
