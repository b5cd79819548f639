-------------------------------- MODULE Plan --------------------------------
(***************************************************************************)
(* What a run will build, in which order and under which ids: from the     *)
(* declarations of one manifest to the graph (crates/unideps-core/src/     *)
(* graph.rs, project.rs connect_graph) to the order and the configuration  *)
(* of its packages (build.rs, strategy.rs).  Nodes are looked up by name   *)
(* and linked by index, and removing one gives its index to the last node. *)
(***************************************************************************)
EXTENDS Naturals, Sequences, FiniteSets

CONSTANTS
  Names,           \* all package names there are, in alphabetical order
  Manifests,       \* the manifests considered
  Options,         \* the options of the consumer, or those that a package was probed for
  Described,       \* the names of the target: its system, its processor, ...
  Cascade, Exact   \* packages with a [[strategy]] rule of that scope

Package == {Names[i] : i \in DOMAIN Names}

\* The tokens of an enabled_if: operators, and atoms <<key>> and <<key, value>> in between.
\* A text gives no two atoms next to each other, nor one before a negation.
Or == <<"||">>
And == <<"&&">>
Not == <<"!">>
Condition == {c \in Seq(Seq(STRING)) :
                \A i \in DOMAIN c : c[i] \in {Or, And, Not} \/ i = Len(c) \/ c[i + 1] \in {Or, And}}

\* What [tools] and [dependencies] say of a name.
Declaration == [kind  : {"none", "tool", "installed", "subdirectory", "declared twice"},
                deps  : SUBSET Package,                    \* its `dependencies`
                tools : SUBSET Package,                    \* its `tools`
                enabled_if : Condition,
                platforms  : Seq([name : STRING, negated : BOOLEAN])]

\* from_host_tool: a tool depends on nothing, and is not optional.
ASSUME PlanAssumption ==
  /\ Names \in Seq(Package)
  /\ \A i, j \in DOMAIN Names : Names[i] = Names[j] => i = j
  /\ \A m \in Manifests :
       /\ DOMAIN m = Package
       /\ \A p \in Package :
            /\ m[p] \in Declaration
            /\ m[p].kind = "tool" =>
                 m[p].deps = {} /\ m[p].tools = {} /\ m[p].enabled_if = <<>> /\ m[p].platforms = <<>>
  /\ Cascade \subseteq Package /\ Exact \subseteq Package

VARIABLES
  decl,             \* the manifest
  phase,
  layout, indices,  \* the nodes by index, and the index of a name
  edges,            \* pairs of indices: a dependent and what it needs
  config, ids       \* of the packages built: the rules applied, the build id

vars == <<decl, phase, layout, indices, edges, config, ids>>

-----------------------------------------------------------------------------
(* The filters: enabled_if and platforms.                                  *)

HasToken(t, s) == \E i \in DOMAIN s : s[i] = t

\* str::split
Split(s, t) ==
  {SubSeq(s, b[1], b[2]) : b \in
     {b \in (1 .. Len(s) + 1) \X (0 .. Len(s)) :
        /\ b[1] = 1 \/ s[b[1] - 1] = t
        /\ b[2] = Len(s) \/ s[b[2] + 1] = t
        /\ b[1] <= b[2] + 1 /\ ~HasToken(t, SubSeq(s, b[1], b[2]))}}

IsTrue(v) == v \in {"on", "true", "1", "yes", "y"}
Holds(atom) ==
  IF atom[1] \in DOMAIN Options
  THEN IF Len(atom) = 2 THEN Options[atom[1]] = atom[2] ELSE IsTrue(Options[atom[1]])
  ELSE Len(atom) = 2 /\ atom[2] \in {"off", "false", "0"}

EvalCondition(cond) ==
  LET eval[s \in Condition] ==
        IF s = <<>> THEN TRUE
        ELSE IF HasToken(Or, s) THEN \E part \in Split(s, Or) : eval[part]
        ELSE IF HasToken(And, s) THEN \A part \in Split(s, And) : eval[part]
        ELSE IF Head(s) = Not THEN ~eval[Tail(s)]
        ELSE Holds(Head(s))
  IN eval[cond]

\* One of the names that are given, if there are any, and none of those that are excluded.
MatchesFilter(f) == (f.name \in Described) # f.negated
MatchesAllFilters(filters) ==
  LET positive == {i \in DOMAIN filters : ~filters[i].negated}
  IN /\ \A i \in DOMAIN filters \ positive : MatchesFilter(filters[i])
     /\ positive # {} => \E i \in positive : MatchesFilter(filters[i])

-----------------------------------------------------------------------------
\* What a sequence has of a set, in its order.
Filter(s, S) ==
  LET kept[n \in 0 .. Len(s)] ==
        IF n = 0 THEN <<>>
        ELSE IF s[n] \in S THEN Append(kept[n - 1], s[n])
        ELSE kept[n - 1]
  IN kept[Len(s)]

InNameOrder(S) == Filter(Names, S)
OfKind(kinds) == {p \in Package : decl[p].kind \in kinds}
Refs(p) == decl[p].deps \cup decl[p].tools

\* petgraph's remove_node: the last node takes the index of the removed one.
SwapRemove(s, i) == [j \in 1 .. Len(s) - 1 |-> IF j = i THEN s[Len(s)] ELSE s[j]]

NamesIn(s) == {s[i] : i \in DOMAIN s}
IndicesOf(s) == [p \in NamesIn(s) |-> CHOOSE i \in DOMAIN s : s[i] = p]

\* rebuild_indices after the node p was removed, with a fault and as it is.
Rebuilt_Shifted(s, p) ==
  [q \in DOMAIN indices \ {p} |-> indices[q] - (IF indices[q] > indices[p] THEN 1 ELSE 0)]
Rebuilt(s, p) == IndicesOf(s)

\* reachable: the smallest set that is closed under the edges from i, or to i.
Reachable(i, next) ==
  {j \in DOMAIN layout : \A S \in SUBSET DOMAIN layout :
     (\A k \in S \cup {i} : next[k] \subseteq S) => j \in S}
Outgoing == [i \in DOMAIN layout |-> {j \in DOMAIN layout : <<i, j>> \in edges}]
Incoming == [i \in DOMAIN layout |-> {j \in DOMAIN layout : <<j, i>> \in edges}]

\* ordered_dependencies: the transitive dependencies of a node, in the order of the
\* nodes, and in that of their names.
OrderedDependencies_ByIndex(i) == Filter(layout, {layout[j] : j \in Reachable(i, Outgoing)})
OrderedDependencies(i) == InNameOrder({layout[j] : j \in Reachable(i, Outgoing)})

\* The transitive dependents of a node, by index.
Dependents(i) == Filter(layout, {layout[j] : j \in Reachable(i, Incoming)})

\* resolve_for_node: later rules override earlier ones.
RulesFor(p, dependents) ==
  LET cascading == Filter(dependents, Cascade) \o (IF p \in Cascade THEN <<p>> ELSE <<>>)
  IN [k \in DOMAIN cascading |-> <<"cascade", cascading[k]>>]
       \o (IF p \in Exact THEN <<<<"exact", p>>>> ELSE <<>>)

-----------------------------------------------------------------------------
Init ==
  /\ decl \in Manifests
  /\ phase = "declare"
  /\ layout = <<>> /\ indices = IndicesOf(<<>>)
  /\ edges = {}
  /\ config = <<>> /\ ids = <<>>

\* Project::build_graph: the tools, then the dependencies; they share one namespace.
Declare ==
  /\ phase = "declare"
  /\ IF OfKind({"declared twice"}) # {}
     THEN phase' = "failed" /\ UNCHANGED <<layout, indices>>
     ELSE /\ phase' = "condition"
          /\ layout' = InNameOrder(OfKind({"tool"}))
                         \o InNameOrder(OfKind({"installed", "subdirectory"}))
          /\ indices' = IndicesOf(layout')
  /\ UNCHANGED <<decl, edges, config, ids>>

Passes(filter, p) ==
  IF filter = "condition" THEN EvalCondition(decl[p].enabled_if)
  ELSE decl[p].kind = "tool" \/ MatchesAllFilters(decl[p].platforms)
Dropped(filter) == {i \in DOMAIN layout : ~Passes(filter, layout[i])}

\* filter_conditions, filter_platforms: one round of the loop, which looks from the start.
Drop(filter) ==
  /\ phase = filter
  /\ LET dropped == Dropped(filter) IN
     \E i \in dropped :
       /\ \A j \in dropped : i <= j
       /\ layout' = SwapRemove(layout, i)
       /\ indices' = Rebuilt(layout', layout[i])
  /\ UNCHANGED <<decl, phase, edges, config, ids>>

Filtered(filter, next) ==
  /\ phase = filter
  /\ Dropped(filter) = {}
  /\ phase' = next
  /\ UNCHANGED <<decl, layout, indices, edges, config, ids>>

\* A reference that connect_graph refuses; one to a package that was dropped is none.
IsBadRef_Dropped(p, r) == r \notin DOMAIN indices
IsBadRef(p, r) ==
  \/ r = p
  \/ r \in DOMAIN indices /\ r \in decl[p].tools /\ decl[r].kind # "tool"
  \/ decl[r].kind = "none"

\* connect_graph after the filters.
Connect ==
  /\ phase = "connect"
  /\ IF \E p \in NamesIn(layout) : \E r \in Refs(p) : IsBadRef(p, r)
     THEN phase' = "failed" /\ UNCHANGED edges
     ELSE /\ phase' = "order"
          /\ edges' = UNION {{<<i, indices[r]>> : r \in Refs(layout[i]) \cap DOMAIN indices}
                             : i \in DOMAIN layout}
  /\ UNCHANGED <<decl, layout, indices, config, ids>>

\* topological_order: "Fail on cycles before touching the storage."
HasCycle_OfTwo == \E i, j \in DOMAIN layout : {<<i, j>>, <<j, i>>} \subseteq edges
HasCycle == \E i \in DOMAIN layout : i \in Reachable(i, Outgoing)

Order ==
  /\ phase = "order"
  /\ phase' = IF HasCycle THEN "failed" ELSE "preflight"
  /\ UNCHANGED <<decl, layout, indices, edges, config, ids>>

\* A package built on its own that needs one which is built in the consumer.
IsSub(i) == decl[layout[i]].kind = "subdirectory"
Outside(i) == {j \in Reachable(i, Incoming) : ~IsSub(j)}

Preflight ==
  /\ phase = "preflight"
  /\ phase' = IF \E i \in DOMAIN layout : IsSub(i) /\ Outside(i) # {} THEN "failed" ELSE "build"
  /\ UNCHANGED <<decl, layout, indices, edges, config, ids>>

\* build_node, in any order that toposort may give: the id has the rules and the ids of
\* whatever has one by then (filter_map).
Build(i) ==
  /\ phase = "build"
  /\ layout[i] \notin DOMAIN ids
  /\ \A j \in Outgoing[i] : layout[j] \in DOMAIN ids
  /\ LET p == layout[i]
         rules == RulesFor(p, Dependents(i))
         deps == Filter(OrderedDependencies(i), DOMAIN ids)
         id == <<p, rules, [k \in DOMAIN deps |-> ids[deps[k]]]>>
         known == DOMAIN ids \cup {p}
     IN /\ config' = [q \in known |-> IF q = p THEN rules ELSE config[q]]
        /\ ids' = [q \in known |-> IF q = p THEN id ELSE ids[q]]
  /\ UNCHANGED <<decl, phase, layout, indices, edges>>

Finish ==
  /\ phase = "build"
  /\ DOMAIN ids = NamesIn(layout)
  /\ phase' = "done"
  /\ UNCHANGED <<decl, layout, indices, edges, config, ids>>

Next ==
  \/ Declare
  \/ Drop("condition") \/ Filtered("condition", "platform")
  \/ Drop("platform") \/ Filtered("platform", "connect")
  \/ Connect \/ Order \/ Preflight
  \/ \E i \in DOMAIN layout : Build(i)
  \/ Finish

Spec == Init /\ [][Next]_vars /\ WF_vars(Next)

-----------------------------------------------------------------------------
(* What the declarations mean, by name alone.                              *)

\* A condition is a disjunction of conjunctions: tokens i to j between two of `t`, or the ends.
IsPart(c, t, first, last, i, j) ==
  /\ first <= i /\ i <= j + 1 /\ j <= last
  /\ i = first \/ c[i - 1] = t
  /\ j = last \/ c[j + 1] = t
  /\ \A k \in i .. j : c[k] # t

\* Of an atom under any number of negations; what is left out is true.
IsLiteralTrue(c, i, j) ==
  IF i <= j /\ c[j] # Not THEN Holds(c[j]) <=> (j - i) % 2 = 0 ELSE (j - i + 1) % 2 = 0

IsSatisfied(c) ==
  \E i \in 1 .. Len(c) + 1, j \in 0 .. Len(c) :
    /\ IsPart(c, Or, 1, Len(c), i, j)
    /\ \A k \in i .. j + 1, l \in i - 1 .. j :
         IsPart(c, And, i, j, k, l) => IsLiteralTrue(c, k, l)

IsEnabled(p) ==
  /\ IsSatisfied(decl[p].enabled_if)
  /\ LET named(negated) == {f.name : f \in {g \in {decl[p].platforms[i] : i \in DOMAIN decl[p].platforms} :
                                              g.negated = negated}}
     IN /\ named(TRUE) \cap Described = {}
        /\ named(FALSE) = {} \/ named(FALSE) \cap Described # {}

Enabled == {p \in OfKind({"tool", "installed", "subdirectory"}) : IsEnabled(p)}

\* All that p needs, directly or not.
NeedsAll(p) ==
  LET enabled == Enabled
      needs(r) == Refs(r) \cap enabled
  IN {q \in enabled : \A S \in SUBSET enabled :
        (needs(p) \subseteq S /\ \A r \in S : needs(r) \subseteq S) => q \in S}

\* A manifest that can be built: every set of packages has one that needs no other of it.
Sound ==
  LET enabled == Enabled IN
  /\ OfKind({"declared twice"}) = {}
  /\ \A p \in enabled :
       /\ p \notin Refs(p) /\ \A r \in Refs(p) : decl[r].kind # "none"
       /\ decl[p].tools \cap enabled \subseteq OfKind({"tool"})
       /\ decl[p].kind = "installed" => Refs(p) \cap enabled \cap OfKind({"subdirectory"}) = {}
  /\ \A S \in SUBSET enabled : S # {} => \E p \in S : Refs(p) \cap S = {}

TypeOK ==
  /\ DOMAIN decl = Package /\ \A p \in Package : decl[p] \in Declaration
  /\ phase \in {"declare", "condition", "platform", "connect", "order", "preflight", "build",
                "done", "failed"}
  /\ layout \in Seq(Package) /\ DOMAIN indices = NamesIn(layout)
  /\ \A p \in NamesIn(layout) : indices[p] \in DOMAIN layout /\ layout[indices[p]] = p
  /\ edges \subseteq (DOMAIN layout) \X (DOMAIN layout)
  /\ DOMAIN config = DOMAIN ids /\ DOMAIN ids \subseteq NamesIn(layout)

\* The edges are what the enabled packages refer to, although a removal moves indices.
EdgesAreTheReferences ==
  phase \in {"order", "preflight", "build", "done"} =>
    {<<layout[e[1]], layout[e[2]]>> : e \in edges} =
      LET enabled == Enabled IN {e \in enabled \X enabled : e[2] \in Refs(e[1])}

\* A manifest is refused, at whatever stage, exactly if it cannot be built: before anything
\* is built, and never for what its disabled packages say.
VerdictIsSound ==
  /\ phase \in {"build", "done"} => Sound
  /\ phase = "failed" => ~Sound

\* A build id has the ids of all its package needs, each once and in the order of names
\* (build.rs:602): dependencies are built first, and none is left out by the filter_map.
IdsNameDependencies ==
  \A p \in DOMAIN ids :
    LET needed == InNameOrder(NeedsAll(p))
    IN ids[p][3] = [k \in DOMAIN needed |-> ids[needed[k]]]

\* "cascade: package and all of its transitive dependencies" (DOCUMENTATION.md:211).
CascadeReachesAll ==
  \A p \in DOMAIN config : {d \in Cascade : \E k \in DOMAIN config[p] : config[p][k] = <<"cascade", d>>}
                             = {d \in Enabled \cap Cascade : d = p \/ p \in NeedsAll(d)}

\* What the id of a package is made of is found by the names of the graph, not by indices.
IdsNameThePackages == IdsNameDependencies /\ CascadeReachesAll

\* Every manifest is refused or built: an accepted graph always has a next package.
Settles == <>(phase \in {"done", "failed"})

\* build.rs:602: "Build IDs must depend on package identities, not on the graph's internal
\* layout": the rules of a package are those it has if what is disabled is not declared.
RulesIgnoreLayout ==
  \A p \in DOMAIN config :
    config[p] = RulesFor(p, InNameOrder({d \in Enabled : p \in NeedsAll(d)}))
=============================================================================
