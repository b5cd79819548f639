----------------------------- MODULE MCSources -----------------------------
(* Three builds and a fetch of one package, whose branch moves between two commits. *)
EXTENDS Sources, TLC

CONSTANTS r1, r2, r3, f, c1, c2

RunSymmetry == Permutations({r1, r2, r3})
=============================================================================
