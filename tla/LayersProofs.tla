---------------------------- MODULE LayersProofs ----------------------------
(***************************************************************************)
(* Proofs about Layers, for any entries that the four layers may have: the *)
(* types, and the three properties of what comes out.  The invariant says  *)
(* of every field from which of the layers read so far it has its value.   *)
(***************************************************************************)
EXTENDS Layers, TLAPS

Fields == Source \cup Ref \cup {"patches", "plain"}

\* The layers that have been read.
Seen ==
  IF phase = "manifest" THEN {}
  ELSE IF phase = "recipe" THEN {"manifest"}
  ELSE IF phase = "overrides" THEN {"manifest", "recipe"}
  ELSE IF phase = "local" THEN {"manifest", "recipe", "overrides"}
  ELSE Layer

\* Highest, without a choice, and None for no layers.
Top(S) ==
  IF "local" \in S THEN "local"
  ELSE IF "overrides" \in S THEN "overrides"
  ELSE IF "manifest" \in S THEN "manifest"
  ELSE IF "recipe" \in S THEN "recipe"
  ELSE None

SourceInv ==
  LET l == Top(WithSource \cap Seen)
  IN \A f \in Source : node[f] = FromIf(l, l # None /\ says[l].source = f)

OverrideInv ==
  LET l == Top(WithRef({"overrides", "local"}) \cap Seen)
  IN l # None => \A f \in Ref : node[f] = FromIf(l, says[l].ref = f)

RecipeInv == says["manifest"].source # None => \A f \in Ref : node[f] # "recipe"

FieldInv == \A f \in {"patches", "plain"} : node[f] = Top(Saying(f) \cap Seen)

PathInv ==
  \A f \in {"path", "patches"} :
    dir[f] = IF node[f] = None THEN None
             ELSE IF node[f] = "recipe" THEN "recipe dir" ELSE "manifest dir"

\* A package is refused only for want of a source.
EndInv ==
  /\ phase = "failed" => node["git"] = None /\ node["path"] = None
  /\ phase = "done" => node["git"] # None \/ node["path"] # None

LInv == TypeOK /\ SourceInv /\ OverrideInv /\ RecipeInv /\ FieldInv /\ PathInv /\ EndInv

-----------------------------------------------------------------------------
\* Top is the choice that Highest makes.
LEMMA HighestIsTop ==
  ASSUME NEW S, S \subseteq Layer, S # {}
  PROVE  Highest(S) = Top(S) /\ Highest(S) \in S /\ Top(S) # None
<1>1. Top(S) \in S /\ \A k \in S : Height[k] <= Height[Top(S)]
  BY DEF Layer, Top, Height
<1>2. \A l \in S : (\A k \in S : Height[k] <= Height[l]) => l = Top(S)
  <2> SUFFICES ASSUME NEW l \in S, \A k \in S : Height[k] <= Height[l] PROVE l = Top(S)
    OBVIOUS
  <2>1. Height[l] = Height[Top(S)]
    BY <1>1, S \subseteq Layer DEF Layer, Height
  <2>2. QED
    BY <2>1, <1>1 DEF Layer, Height
<1>3. Highest(S) = Top(S)
  BY <1>1, <1>2 DEF Highest
<1>4. QED
  BY <1>1, <1>3, LayersAssumption

\* Nothing has been read.
LEMMA TopOfNone == \A S : Top(S \cap {}) = None
  BY DEF Top

LEMMA LInit == Init => LInv
<1> SUFFICES ASSUME Init PROVE LInv
  OBVIOUS
<1> USE LayersAssumption DEF Init
<1>1. says \in [Layer -> Entry]
  OBVIOUS
<1>2. TypeOK
  BY <1>1 DEF TypeOK, Layer, Source
<1>3. Seen = {}
  BY DEF Seen
<1>4. \A f \in Source \cup Ref \cup {"patches", "plain"} : node[f] = None
  OBVIOUS
<1>5. Top(WithSource \cap Seen) = None /\ Top(WithRef({"overrides", "local"}) \cap Seen) = None
  BY <1>3, TopOfNone
<1>6. SourceInv /\ OverrideInv
  BY <1>4, <1>5 DEF SourceInv, OverrideInv, FromIf
<1>7. RecipeInv
  BY <1>4 DEF RecipeInv, Layer
<1>8. \A f : Top(Saying(f) \cap Seen) = None
  BY <1>3, TopOfNone
<1>9. FieldInv
  BY <1>4, <1>8 DEF FieldInv
<1>10. PathInv /\ EndInv
  BY <1>4 DEF PathInv, EndInv, Source
<1>11. QED
  BY <1>2, <1>6, <1>7, <1>9, <1>10 DEF LInv
-----------------------------------------------------------------------------
LEMMA ManifestStep == LInv /\ Manifest => LInv'
<1> SUFFICES ASSUME LInv, Manifest PROVE LInv'
  OBVIOUS
<1> DEFINE e == says["manifest"]
<1>1. e \in Entry /\ DOMAIN node = Fields /\ DOMAIN dir = {"path", "patches"}
  BY DEF LInv, TypeOK, Layer, Fields
<1>2. phase' = "recipe" /\ says' = says /\ Seen' = {"manifest"}
  BY DEF Manifest, Seen
<1>3. \A f \in Source : node'[f] = FromIf("manifest", e.source = f)
  BY <1>1 DEF Manifest, Fields, Source, Ref
<1>4. \A f \in Ref : node'[f] = FromIf("manifest", e.ref = f)
  BY <1>1 DEF Manifest, Fields, Source, Ref
<1>5. node'["patches"] = FromIf("manifest", e.patches) /\ node'["plain"] = FromIf("manifest", e.plain)
  BY <1>1 DEF Manifest, Fields, Source, Ref
<1>6. \A f \in {"path", "patches"} : dir'[f] = FromIf("manifest dir", node'[f] # None)
  BY <1>1 DEF Manifest
<1>7. Top((WithSource \cap Seen)') = IF e.source # None THEN "manifest" ELSE None
  BY <1>2 DEF Top, WithSource, Layer
<1>8. SourceInv'
  BY <1>2, <1>3, <1>7, <1>1, LayersAssumption DEF SourceInv, FromIf, Layer, Source, Entry
<1>9. OverrideInv'
  BY <1>2, LayersAssumption DEF OverrideInv, Top, WithRef
<1>10. RecipeInv'
  BY <1>4, LayersAssumption DEF RecipeInv, FromIf, Layer
<1>11. FieldInv'
  BY <1>2, <1>5 DEF FieldInv, Saying, Top, FromIf, Layer
<1>12. PathInv'
  BY <1>3, <1>5, <1>6, LayersAssumption DEF PathInv, FromIf, Source, Layer
<1>13. EndInv'
  BY <1>2 DEF EndInv
<1>14. TypeOK'
  <2>1. node' \in [Source \cup Ref \cup {"patches", "plain"} -> Layer \cup {None}]
    BY <1>1 DEF Manifest, Fields, FromIf, Layer
  <2>2. dir' \in [{"path", "patches"} -> {"manifest dir", "recipe dir", None}]
    <3>1. dir' = [f \in {"path", "patches"} |-> FromIf("manifest dir", node'[f] # None)]
      BY <1>1 DEF Manifest
    <3>2. QED
      BY <3>1 DEF FromIf
  <2>3. QED
    BY <2>1, <2>2, <1>2, <1>6, LayersAssumption DEF TypeOK, LInv, FromIf
<1>15. QED
  BY <1>8, <1>9, <1>10, <1>11, <1>12, <1>13, <1>14 DEF LInv

LEMMA RecipeStep == LInv /\ Recipe => LInv'
<1> SUFFICES ASSUME LInv, Recipe PROVE LInv'
  OBVIOUS
<1> DEFINE e == says["recipe"]
           m == says["manifest"]
<1>1. /\ e \in Entry /\ m \in Entry /\ DOMAIN node = Fields /\ DOMAIN dir = {"path", "patches"}
      /\ Seen = {"manifest"}
  BY DEF LInv, TypeOK, Layer, Fields, Recipe, Seen
<1>2. phase' = "overrides" /\ says' = says /\ Seen' = {"manifest", "recipe"}
  BY DEF Recipe, Seen
<1>3. Top(WithSource \cap Seen) = IF m.source # None THEN "manifest" ELSE None
  BY <1>1 DEF Top, WithSource, Layer
<1>4. TakesSource <=> m.source = None
  BY <1>1, <1>3, LayersAssumption DEF LInv, SourceInv, TakesSource, FromIf, Source, Layer, Entry
<1>5. \A f \in Source : node'[f] = IF TakesSource /\ e.source = f THEN "recipe" ELSE node[f]
  BY <1>1 DEF Recipe, Fields, Source, Ref
<1>6. \A f \in Ref : node'[f] = IF TakesSource /\ e.source = "git" /\ e.ref = f /\ node[f] = None
                                THEN "recipe" ELSE node[f]
  BY <1>1 DEF Recipe, Fields, Source, Ref
<1>7. /\ node'["patches"] = IF e.patches /\ node["patches"] = None THEN "recipe" ELSE node["patches"]
      /\ node'["plain"] = IF e.plain /\ node["plain"] = None THEN "recipe" ELSE node["plain"]
  BY <1>1 DEF Recipe, Fields, Source, Ref, TakesPlain
<1>8. /\ dir'["path"] = IF TakesSource /\ e.source = "path" THEN "recipe dir" ELSE dir["path"]
      /\ dir'["patches"] = IF e.patches /\ node["patches"] = None THEN "recipe dir" ELSE dir["patches"]
  BY <1>1 DEF Recipe, Source, Ref
<1>9. Top((WithSource \cap Seen)') =
        IF m.source # None THEN "manifest" ELSE IF e.source # None THEN "recipe" ELSE None
  BY <1>2 DEF Top, WithSource, Layer
<1>10. SourceInv'
  <2>1. CASE m.source # None
    BY <2>1, <1>2, <1>3, <1>4, <1>5, <1>9 DEF LInv, SourceInv
  <2>2. CASE m.source = None
    BY <2>2, <1>1, <1>2, <1>3, <1>4, <1>5, <1>9, LayersAssumption
    DEF LInv, SourceInv, FromIf, Source, Layer, Entry
  <2>3. QED
    BY <2>1, <2>2
<1>11. OverrideInv'
  BY <1>2, LayersAssumption DEF OverrideInv, Top, WithRef
<1>12. RecipeInv'
  BY <1>2, <1>4, <1>6 DEF LInv, RecipeInv
<1>13. FieldInv'
  BY <1>1, <1>2, <1>7, LayersAssumption DEF LInv, FieldInv, Saying, Top, Layer
<1>14. PathInv'
  BY <1>5, <1>7, <1>8, LayersAssumption DEF LInv, PathInv, TakesSource, Source, Layer
<1>15. EndInv'
  BY <1>2 DEF EndInv
<1>16. TypeOK'
  <2>1. node' \in [Source \cup Ref \cup {"patches", "plain"} -> Layer \cup {None}]
    BY <1>1 DEF LInv, TypeOK, Recipe, Fields, Layer
  <2>2. dir' \in [{"path", "patches"} -> {"manifest dir", "recipe dir", None}]
    BY <1>1 DEF LInv, TypeOK, Recipe
  <2>3. QED
    BY <2>1, <2>2, <1>2, <1>14, LayersAssumption DEF TypeOK, LInv, PathInv, Layer
<1>17. QED
  BY <1>10, <1>11, <1>12, <1>13, <1>14, <1>15, <1>16 DEF LInv

LEMMA OverrideStep ==
  ASSUME NEW l \in {"overrides", "local"}, NEW next,
         next = (IF l = "overrides" THEN "local" ELSE "validate")
  PROVE  LInv /\ Override(l, next) => LInv'
<1> SUFFICES ASSUME LInv, Override(l, next) PROVE LInv'
  OBVIOUS
<1> DEFINE e == says[l]
<1>1. /\ e \in Entry /\ DOMAIN node = Fields /\ DOMAIN dir = {"path", "patches"}
      /\ l \in Layer /\ l # None /\ l # "recipe"
  BY LayersAssumption DEF LInv, TypeOK, Layer, Fields
<1>2. /\ phase' = next /\ says' = says /\ Seen' = Seen \cup {l}
      /\ Seen \subseteq (IF l = "overrides" THEN {"manifest", "recipe"}
                         ELSE {"manifest", "recipe", "overrides"})
  BY DEF Override, Seen, Layer
<1>3. \A S : Top(S \cap Seen') = IF l \in S THEN l ELSE Top(S \cap Seen)
  <2> TAKE S  \* l is above all layers that were read before it
  <2>1. CASE l = "overrides"
    BY <2>1, <1>2 DEF Top
  <2>2. CASE l = "local"
    BY <2>2, <1>2 DEF Top
  <2>3. QED
    BY <2>1, <2>2
<1>4. \A f \in Source : node'[f] = IF e.source # None THEN FromIf(l, e.source = f) ELSE node[f]
  BY <1>1, LayersAssumption DEF Override, Fields, Replaces, FromIf, Source, Ref, Entry
<1>5. \A f \in Ref : node'[f] = IF e.ref # None THEN FromIf(l, e.ref = f) ELSE node[f]
  BY <1>1, LayersAssumption DEF Override, Fields, Replaces, FromIf, Source, Ref, Entry
<1>6. /\ node'["patches"] = IF e.patches THEN l ELSE node["patches"]
      /\ node'["plain"] = IF e.plain THEN l ELSE node["plain"]
  BY <1>1 DEF Override, Fields, Source, Ref
<1>7. \A f \in {"path", "patches"} :
        dir'[f] = IF node'[f] = None THEN None
                  ELSE IF node'[f] = node[f] THEN dir[f]
                  ELSE FromIf("manifest dir", Resolves(e, f))
  BY <1>1 DEF Override
<1>8. SourceInv'
  <2>1. l \in WithSource <=> e.source # None
    BY <1>1 DEF WithSource
  <2>2. WithSource' = WithSource
    BY <1>2 DEF WithSource
  <2>3. QED
    BY <2>1, <2>2, <1>1, <1>2, <1>3, <1>4 DEF LInv, SourceInv
<1>9. OverrideInv'
  <2>1. l \in WithRef({"overrides", "local"}) <=> e.ref # None
    BY DEF WithRef
  <2>2. WithRef({"overrides", "local"})' = WithRef({"overrides", "local"})
    BY <1>2 DEF WithRef
  <2>3. QED
    BY <2>1, <2>2, <1>1, <1>2, <1>3, <1>5 DEF LInv, OverrideInv
<1>10. RecipeInv'
  BY <1>1, <1>2, <1>5, LayersAssumption DEF LInv, RecipeInv, FromIf, Layer
<1>11. FieldInv'
  <2>1. \A f \in {"patches", "plain"} : Saying(f)' = Saying(f) /\ (l \in Saying(f) <=> e[f])
    BY <1>1, <1>2 DEF Saying
  <2>2. \A f \in {"patches", "plain"} : node'[f] = IF e[f] THEN l ELSE node[f]
    BY <1>1 DEF Override, Fields, Source, Ref
  <2>3. QED
    BY <2>1, <2>2, <1>3 DEF LInv, FieldInv
<1>12. PathInv'
  <2>1. \A f \in {"path", "patches"} :
          node'[f] \notin {node[f], None} => node'[f] = l /\ Resolves(e, f)
    <3>1. node'["path"] \notin {node["path"], None} => node'["path"] = l /\ e.source = "path"
      BY <1>4 DEF FromIf, Source
    <3>2. node'["patches"] # node["patches"] => node'["patches"] = l /\ e.patches
      BY <1>6
    <3>3. QED
      BY <3>1, <3>2 DEF Resolves
  <2>2. QED
    BY <2>1, <1>1, <1>7 DEF LInv, PathInv, FromIf
<1>13. EndInv'
  BY <1>2 DEF EndInv
<1>14. TypeOK'
  <2>1. node' \in [Source \cup Ref \cup {"patches", "plain"} -> Layer \cup {None}]
    BY <1>1 DEF LInv, TypeOK, Override, Fields, FromIf
  <2>2. dir' \in [{"path", "patches"} -> {"manifest dir", "recipe dir", None}]
    BY <1>1 DEF LInv, TypeOK, Override, FromIf
  <2>3. QED
    BY <2>1, <2>2, <1>2, <1>12, LayersAssumption DEF TypeOK, LInv, PathInv, Layer
<1>15. QED
  BY <1>8, <1>9, <1>10, <1>11, <1>12, <1>13, <1>14 DEF LInv

\* Steps that read no layer.
LEMMA SameFields ==
  ASSUME Seen' = Seen, says' = says, node' = node, dir' = dir
  PROVE  LInv => SourceInv' /\ OverrideInv' /\ RecipeInv' /\ FieldInv' /\ PathInv'
<1>1. WithSource' = WithSource
  BY DEF WithSource
<1>2. WithRef({"overrides", "local"})' = WithRef({"overrides", "local"})
  BY DEF WithRef
<1>3. \A f \in {"patches", "plain"} : Saying(f)' = Saying(f)
  BY DEF Saying
<1>4. SourceInv' = SourceInv /\ OverrideInv' = OverrideInv
  BY <1>1, <1>2 DEF SourceInv, OverrideInv
<1>5. FieldInv => FieldInv'
  BY <1>3 DEF FieldInv
<1>6. (RecipeInv => RecipeInv') /\ (PathInv => PathInv')
  BY DEF RecipeInv, PathInv
<1>7. QED
  BY <1>4, <1>5, <1>6 DEF LInv

LEMMA ValidateStep == LInv /\ Validate => LInv'
<1> SUFFICES ASSUME LInv, Validate PROVE LInv'
  OBVIOUS
<1>1. Seen' = Seen /\ says' = says /\ node' = node /\ dir' = dir /\ phase' \in {"failed", "done"}
  BY DEF Validate, Seen
<1>2. TypeOK'
  BY <1>1 DEF LInv, TypeOK
<1>3. SourceInv' /\ OverrideInv' /\ RecipeInv' /\ FieldInv' /\ PathInv'
  BY <1>1, SameFields
<1>4. EndInv'
  BY <1>1 DEF EndInv, Validate
<1>5. QED
  BY <1>2, <1>3, <1>4 DEF LInv

LEMMA StutterStep == LInv /\ UNCHANGED vars => LInv'
<1> SUFFICES ASSUME LInv, UNCHANGED vars PROVE LInv'
  OBVIOUS
<1>1. Seen' = Seen /\ says' = says /\ node' = node /\ dir' = dir /\ phase' = phase
  BY DEF vars, Seen
<1>2. SourceInv' /\ OverrideInv' /\ RecipeInv' /\ FieldInv' /\ PathInv'
  BY <1>1, SameFields
<1>3. TypeOK' /\ EndInv'
  BY <1>1 DEF LInv, TypeOK, EndInv
<1>4. QED
  BY <1>2, <1>3 DEF LInv

\* The invariant, for any entries of the four layers (project.rs:128-184, 287-335).
THEOREM LayersInvariant == Spec => []LInv
<1>1. LInv /\ [Next]_vars => LInv'
  BY ManifestStep, RecipeStep, OverrideStep, ValidateStep, StutterStep DEF Next
<1>2. QED
  BY <1>1, LInit, PTL DEF Spec

-----------------------------------------------------------------------------
\* Every node is well-formed, and its paths are absolute (graph.rs:88-126).
THEOREM LayersTypes == Spec => []TypeOK
BY LayersInvariant, PTL DEF LInv

\* The sources are those of the highest layer that names any, and a package is refused only
\* if none does (graph.rs:132-142, project.rs:214-251).
THEOREM SourceTheorem == Spec => []SourceIsOfTheHighest
<1>1. LInv => SourceIsOfTheHighest
  <2> SUFFICES ASSUME LInv PROVE SourceIsOfTheHighest
    OBVIOUS
  <2> DEFINE l == Top(WithSource)
  <2>1. ASSUME phase \in {"failed", "done"}
        PROVE  \A f \in Source : node[f] = FromIf(l, l # None /\ says[l].source = f)
    <3>1. WithSource \cap Seen = WithSource
      BY <2>1 DEF Seen, WithSource
    <3>2. QED
      BY <3>1 DEF LInv, SourceInv
  <2>2. ASSUME WithSource # {}
        PROVE  l = Highest(WithSource) /\ l \in Layer /\ l # None /\ says[l].source \in Source
    BY <2>2, HighestIsTop DEF WithSource, LInv, TypeOK, Entry
  <2>3. phase = "failed" => WithSource = {}
    BY <2>1, <2>2 DEF LInv, EndInv, FromIf, Source
  <2>4. ASSUME phase = "done" PROVE WithSource # {}
    <3>1. WithSource = {} => Top(WithSource) = None
      BY DEF Top
    <3>2. QED
      BY <2>1, <2>4, <3>1 DEF LInv, EndInv, FromIf, Source
  <2>5. ASSUME phase = "done" PROVE says[l].source = UsedSource /\ node[UsedSource] = l
    BY <2>1, <2>2, <2>4, <2>5 DEF UsedSource, FromIf, Source
  <2>6. QED
    BY <2>2, <2>3, <2>4, <2>5 DEF SourceIsOfTheHighest
<1>2. QED
  BY <1>1, LayersInvariant, PTL

\* The revision is of the highest override that names one, and never a recipe's for sources
\* that the manifest names (graph.rs:132-142, project.rs:324-331).
THEOREM RefTheorem == Spec => []RefIsOfItsLayer
<1>1. LInv => OverrideRefWins
  <2> SUFFICES ASSUME LInv, phase = "done", WithRef({"overrides", "local"}) # {}
               PROVE  LET h == Highest(WithRef({"overrides", "local"}))
                      IN UsedRef = says[h].ref /\ node[UsedRef] = h
    BY DEF OverrideRefWins
  <2> DEFINE refs == WithRef({"overrides", "local"})
             l == Top(refs)
  <2>1. refs \subseteq Layer /\ refs \cap Seen = refs
    BY DEF WithRef, Seen, Layer
  <2>2. l = Highest(refs) /\ l \in refs /\ l # None
    BY <2>1, HighestIsTop
  <2>3. l \in Layer /\ says[l].ref \in Ref
    BY <2>2 DEF WithRef, LInv, TypeOK, Entry, Layer
  <2>4. \A f \in Ref : node[f] = FromIf(l, says[l].ref = f)
    BY <2>1, <2>2 DEF LInv, OverrideInv
  <2>5. UsedRef = says[l].ref /\ node[UsedRef] = l
    BY <2>2, <2>3, <2>4 DEF UsedRef, FromIf, Ref
  <2>6. QED
    BY <2>2, <2>5
<1>2. LInv => RecipeRefNeedsItsSource
  BY DEF LInv, RecipeInv, RecipeRefNeedsItsSource, UsedRef, Ref
<1>3. QED
  BY <1>1, <1>2, LayersInvariant, PTL DEF RefIsOfItsLayer

\* Patches and plain fields are of the highest layer that sets them, and paths mean what
\* they mean in their file (project.rs:176-184, 290-295).
THEOREM FieldsTheorem == Spec => []FieldsAreOfTheirLayer
<1>1. LInv => FieldIsOfTheHighest
  <2> SUFFICES ASSUME LInv, NEW f \in {"patches", "plain"}, phase = "done", Saying(f) # {}
               PROVE  node[f] = Highest(Saying(f))
    BY DEF FieldIsOfTheHighest
  <2>1. Saying(f) \subseteq Layer /\ Saying(f) \cap Seen = Saying(f)
    BY DEF Saying, Seen
  <2>2. QED
    BY <2>1, HighestIsTop DEF LInv, FieldInv
<1>2. LInv => PathsAreOfTheirFile
  BY DEF LInv, PathInv, PathsAreOfTheirFile
<1>3. QED
  BY <1>1, <1>2, LayersInvariant, PTL DEF FieldsAreOfTheirLayer
=============================================================================
