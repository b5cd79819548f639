----------------------------- MODULE MCRecords -----------------------------
(* Two settings of two values each, and a branch that moves between two commits. *)
EXTENDS Records

CONSTANTS shared, compiler, x, y, rev1, rev2
=============================================================================
