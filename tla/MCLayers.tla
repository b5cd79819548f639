------------------------------ MODULE MCLayers ------------------------------
(* Any sources and revisions with no other fields, and any fields with no revisions. *)
EXTENDS Layers

MCDeclared ==
  [Layer -> {e \in Entry : ~e.patches /\ ~e.plain}] \cup [Layer -> {e \in Entry : e.ref = None}]
=============================================================================
