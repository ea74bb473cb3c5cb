--------------------------- MODULE MCCreateIndex ---------------------------
(* CreateIndex with vectors that are multiples of six: the means of up to  *)
(* three of them are integers.                                             *)
EXTENDS CreateIndex

(* Tables of no or three rows; the others come later.                      *)
FirstRows == {1..n : n \in {0, 3}}

ThreadSymmetry == Permutations(Threads)
=============================================================================
