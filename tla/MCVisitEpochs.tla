--------------------------- MODULE MCVisitEpochs ---------------------------
(* Two query threads on a pruned graph of five points of a line.           *)
EXTENDS VisitEpochs

Position == <<5, 8, 7, 9, 4>>
Abs(x) == IF x < 0 THEN -x ELSE x
LineDist(q, n) == Abs(q - Position[n])

Links == << <<2, 3>>, <<5>>, <<2, 5>>, <<3, 1>>, <<1, 4>> >>
OwnScratch == <<1, 2>>
OneScratch == <<1, 1>>
=============================================================================
