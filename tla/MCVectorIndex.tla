--------------------------- MODULE MCVectorIndex ---------------------------
(* VectorIndex over a core that keeps its entries in a list and finds the  *)
(* nearest of those a search happens to reach: what a graph core does,     *)
(* whose overflowing neighbour lists may cut nodes off.                    *)
EXTENDS VectorIndex, TLC

Distance(v, q) == IF v < q THEN q - v ELSE v - q
ListInsert(c, r, v) == Append(c, <<r, v>>)
ListEntries(c) == {c[i] : i \in 1..Len(c)}
NoEntries == <<>>

(* Row ids are only compared.                                              *)
RowSymmetry == Permutations(Rows)

(* The k nearest of the entries of c within reach, nearest first, ties in  *)
(* any order.                                                              *)
Nearer(c, q, i, j) == Distance(c[i][2], q) <= Distance(c[j][2], q)
Nearest(c, q, k, reach) ==
    LET n == Cardinality(reach)
        found == IF k < n THEN k ELSE n
    IN {[p \in 1..found |-> c[s[p]][1]] :
         s \in {s \in [1..found -> reach] :
                 /\ \A a, b \in 1..found : a < b =>
                      s[a] # s[b] /\ Nearer(c, q, s[a], s[b])
                 /\ \A e \in reach \ {s[p] : p \in 1..found} :
                      \A p \in 1..found : Nearer(c, q, s[p], e)}}

(* A search reaches some of the entries; at least one, if there are any.   *)
ListSearch(c, q, k) ==
    UNION {Nearest(c, q, k, reach) :
             reach \in {r \in SUBSET (1..Len(c)) : c # <<>> => r # {}}}
=============================================================================
