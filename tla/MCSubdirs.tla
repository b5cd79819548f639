------------------------------ MODULE MCSubdirs ------------------------------
(***************************************************************************)
(* Projects of two packages, p with or without a manifest that lists r.    *)
(* A project's file lists what nested manifests add before what adds it,   *)
(* as merge_nested leaves it.                                              *)
(***************************************************************************)
EXTENDS Subdirs, TLC

CONSTANTS p, r, ON, OFF

MCVar == {"BUILD_SHARED_LIBS", "OPTION"}

\* The files of a run for a project, with r and p, and of one for a package with r alone.
MCFiles ==
  {[x \in {p, r, Root} |-> IF x = Root THEN root ELSE IF x = p THEN ofp ELSE ofr] :
     root \in {<<r, p>>, <<p>>, <<r>>}, ofp \in {Unset, <<>>, <<r>>}, ofr \in {Unset, <<>>}}
IsMerged(f) == f[Root] = <<p>> => f[p] # <<r>>

\* `shared` and BUILD_SHARED_LIBS in the options of p, and what else either sets.
MCOptions(x) ==
  IF x = p THEN {<<>>, <<<<"BUILD_SHARED_LIBS", OFF>>>>, <<<<"OPTION", OFF>>>>}
  ELSE {<<>>, <<<<"OPTION", ON>>>>}

MCProjects ==
  {[file |-> f, shared |-> (p :> s @@ r :> OFF), options |-> (p :> o @@ r :> t),
    asks |-> a, active |-> b, given |-> ("BUILD_SHARED_LIBS" :> g @@ "OPTION" :> Unset)] :
     f \in {f \in MCFiles : IsMerged(f)}, s \in {ON, Unset},
     o \in MCOptions(p), t \in MCOptions(r),
     a \in [{p, r} -> BOOLEAN], b \in BOOLEAN, g \in {OFF, Unset}}
=============================================================================
