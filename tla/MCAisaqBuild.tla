---------------------------- MODULE MCAisaqBuild ----------------------------
(* AisaqBuild on points of a line: row i's vector is Position[i + 1].      *)
EXTENDS AisaqBuildAtomic

CONSTANT Position

Abs(x) == IF x < 0 THEN -x ELSE x
LineDist(a, b) == Abs(Position[a + 1] - Position[b + 1])

FivePoints == <<5, 1, 9, 6, 3>>
=============================================================================
