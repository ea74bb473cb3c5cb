--------------------------- MODULE MCDiskannCore ---------------------------
(* DiskannCore on points of a line: codes are the points themselves.       *)
EXTENDS DiskannCore

LineDist(v, w) == IF v < w THEN w - v ELSE v - w
=============================================================================
