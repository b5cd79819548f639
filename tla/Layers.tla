------------------------------- MODULE Layers -------------------------------
(***************************************************************************)
(* How the declaration of one dependency is put together (crates/          *)
(* unideps-cli/src/project.rs build_graph, apply_recipe; unideps-core/src/ *)
(* graph.rs apply_override): the manifest's entry, its recipe, and the     *)
(* overrides of the manifest and of .local.toml, one after another.  Of a  *)
(* value only the layer that it is from matters.                           *)
(***************************************************************************)
EXTENDS Naturals

CONSTANTS
  Declared,  \* what the files considered say of the dependency
  None

Layer == {"recipe", "manifest", "overrides", "local"}

Height == [l \in Layer |-> CASE l = "recipe" -> 1 [] l = "manifest" -> 2
                             [] l = "overrides" -> 3 [] l = "local" -> 4]

\* What a layer says: where the sources are, at which revision, with which patches, and a
\* plain field (the strategy, or a key of cmake_options).
Source == {"git", "path"}
Ref == {"commit", "tag", "branch"}
Entry == [source : Source \cup {None}, ref : Ref \cup {None}, patches : BOOLEAN, plain : BOOLEAN]

ASSUME LayersAssumption ==
  /\ None \notin Layer \cup Source \cup Ref \cup {"manifest dir", "recipe dir"}
  /\ Declared \subseteq [Layer -> Entry]

VARIABLES
  says,   \* says[l]: the entry of layer l, empty if there is none
  phase,  \* the layer that is next, then "validate"
  node,   \* for every field the layer whose value it has
  dir     \* the directory its path and its patches were resolved against

vars == <<says, phase, node, dir>>

-----------------------------------------------------------------------------
FromIf(l, said) == IF said THEN l ELSE None

Init ==
  /\ says \in Declared
  /\ phase = "manifest"
  /\ node = [f \in Source \cup Ref \cup {"patches", "plain"} |-> None]
  /\ dir = [f \in {"path", "patches"} |-> None]

\* from_target_dep; relative paths are made absolute at once.
Manifest ==
  /\ phase = "manifest"
  /\ LET e == says["manifest"]
     IN /\ node' = [f \in DOMAIN node |->
                      FromIf("manifest", CASE f \in Source -> e.source = f
                                           [] f \in Ref -> e.ref = f
                                           [] f \in {"patches", "plain"} -> e[f])]
        /\ dir' = [f \in DOMAIN dir |-> FromIf("manifest dir", node'[f] # None)]
  /\ phase' = "recipe"
  /\ UNCHANGED says

\* apply_recipe: what is unset.  A ref comes with the git it belongs to.
TakesSource == node["git"] = None /\ node["path"] = None
TakesPlain_Always == TRUE
TakesPlain == node["plain"] = None

Recipe ==
  /\ phase = "recipe"
  /\ LET e == says["recipe"]
         taken(f) == CASE f \in Source -> TakesSource /\ e.source = f
                       [] f \in Ref -> TakesSource /\ e.source = "git" /\ e.ref = f /\ node[f] = None
                       [] f = "plain" -> e.plain /\ TakesPlain
                       [] f = "patches" -> e.patches /\ node[f] = None
     IN /\ node' = [f \in DOMAIN node |-> IF taken(f) THEN "recipe" ELSE node[f]]
        /\ dir' = [f \in DOMAIN dir |-> IF taken(f) THEN "recipe dir" ELSE dir[f]]
  /\ phase' = "overrides"
  /\ UNCHANGED says

\* apply_override: a source replaces the whole source, a ref all previous refs.
Replaces_OneField(e, f) == e.source = f \/ e.ref = f
Replaces(e, f) == IF f \in Source THEN e.source # None ELSE e.ref # None

\* resolve_override_paths: the paths that came with the override, and no others.
Resolves(e, f) == IF f = "path" THEN e.source = "path" ELSE e.patches

Override(l, next) ==
  /\ phase = l
  /\ LET e == says[l]
     IN /\ node' = [f \in DOMAIN node |->
                      IF f \in Source \cup Ref
                      THEN IF Replaces(e, f) THEN FromIf(l, f \in {e.source, e.ref}) ELSE node[f]
                      ELSE IF e[f] THEN l ELSE node[f]]
        /\ dir' = [f \in DOMAIN dir |->
                     IF node'[f] = None THEN None
                     ELSE IF node'[f] = node[f] THEN dir[f]
                     ELSE FromIf("manifest dir", Resolves(e, f))]
  /\ phase' = next
  /\ UNCHANGED says

Validate ==
  /\ phase = "validate"
  /\ phase' = IF node["git"] = None /\ node["path"] = None THEN "failed" ELSE "done"
  /\ UNCHANGED <<says, node, dir>>

Next ==
  \/ Manifest \/ Recipe
  \/ Override("overrides", "local") \/ Override("local", "validate")
  \/ Validate

Spec == Init /\ [][Next]_vars

-----------------------------------------------------------------------------
\* The highest of the layers in S.
Highest(S) == CHOOSE l \in S : \A k \in S : Height[k] <= Height[l]

\* Where the sources come from (a path goes before git) and which revision is checked out.
UsedSource == IF node["path"] # None THEN "path" ELSE "git"
UsedRef ==
  IF node["commit"] # None THEN "commit"
  ELSE IF node["tag"] # None THEN "tag"
  ELSE IF node["branch"] # None THEN "branch" ELSE None

TypeOK ==
  /\ says \in [Layer -> Entry]
  /\ phase \in (Layer \ {"recipe"}) \cup {"recipe", "validate", "done", "failed"}
  /\ node \in [Source \cup Ref \cup {"patches", "plain"} -> Layer \cup {None}]
  /\ dir \in [{"path", "patches"} -> {"manifest dir", "recipe dir", None}]
  /\ \A f \in {"path", "patches"} : dir[f] = None <=> node[f] = None  \* all are absolute

Saying(f) == {l \in Layer : says[l][f]}
WithSource == {l \in Layer : says[l].source # None}
WithRef(S) == {l \in S : says[l].ref # None}

\* A package is refused only if no layer has a source, and otherwise it has the source of
\* the highest layer that names one, whatever the others say.
SourceIsOfTheHighest ==
  /\ phase = "failed" => WithSource = {}
  /\ phase = "done" =>
       LET l == Highest(WithSource)
       IN WithSource # {} /\ says[l].source = UsedSource /\ node[UsedSource] = l

\* "setting commit, tag or branch replaces all previous refs" (DOCUMENTATION.md:218).
OverrideRefWins ==
  LET refs == WithRef({"overrides", "local"})
  IN phase = "done" /\ refs # {} => UsedRef = says[Highest(refs)].ref /\ node[UsedRef] = Highest(refs)

\* A recipe never lends its revision to sources that the manifest names itself.
RecipeRefNeedsItsSource ==
  phase = "done" /\ UsedRef # None /\ says["manifest"].source # None => node[UsedRef] # "recipe"

\* Every other field has the value of the highest layer that sets it.
FieldIsOfTheHighest ==
  \A f \in {"patches", "plain"} :
    phase = "done" /\ Saying(f) # {} => node[f] = Highest(Saying(f))

\* The revision is of the sources, and an override's goes before all others.
RefIsOfItsLayer == OverrideRefWins /\ RecipeRefNeedsItsSource

\* A recipe's paths are relative to the recipe, all others to the manifest.
PathsAreOfTheirFile ==
  \A f \in {"path", "patches"} :
    phase = "done" /\ node[f] # None =>
      dir[f] = IF node[f] = "recipe" THEN "recipe dir" ELSE "manifest dir"

\* What a file says of a field reaches the package, paths as that file means them.
FieldsAreOfTheirLayer == FieldIsOfTheHighest /\ PathsAreOfTheirFile

\* "Manifest values always win over the recipe" (project.rs:287).
ManifestRefWins ==
  phase = "done" /\ says["manifest"].ref # None /\ UsedRef # None => node[UsedRef] # "recipe"
=============================================================================
