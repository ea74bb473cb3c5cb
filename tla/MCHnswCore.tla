---------------------------- MODULE MCHnswCore ----------------------------
(* HnswCore on points of a line: codes are the points themselves.          *)
EXTENDS HnswCore

LineDist(v, w) == IF v < w THEN w - v ELSE v - w
=============================================================================
