--------------------------- MODULE ConfigureProofs ---------------------------
(***************************************************************************)
(* An id covers what a package is built with, whatever packages, rules,    *)
(* options and compilers there are and however many runs follow each       *)
(* other.  Whatever is installed was built by some run of some node under  *)
(* the id that calculate_build_id has for it, so it is enough to compare   *)
(* two nodes of one id.                                                    *)
(***************************************************************************)
EXTENDS Configure, WellFoundedInduction, TLAPS

\* Where a run is decides what it has of nodes and ids.
PhaseInv ==
  /\ phase \in {"idle", "preflight", "build", "failed"}
  /\ phase = "preflight" => built = {} /\ DOMAIN ids = {}
  /\ phase = "build" => DOMAIN node = Package
  /\ DOMAIN node \subseteq Package /\ DOMAIN ids \subseteq DOMAIN node /\ built \subseteq DOMAIN ids
  /\ count \in 0 .. MaxRuns

\* A node is what configure_node makes of the package, and of what the parser lets through.
NodeInv ==
  /\ phase # "idle" => IsRun(context.given)
  /\ \A p \in DOMAIN node : node[p] = ConfigureNode(context, p)

\* Ids are those of the nodes, over the ids of what these need.
AreIds(c, got) ==
  \A p \in DOMAIN got : /\ p \in Package /\ NeededBy(p) \subseteq DOMAIN got
                        /\ got[p] = IdOf(c, p, ConfigureNode(c, p), got)
IdsInv == AreIds(context, ids) /\ \A p \in DOMAIN ids : ids[p] \in DOMAIN installed
LastInv == last # None => AreIds(last.context, last.ids)

\* What is installed was built by some run, which had the ids `got`.
IsBuilt(id, build) ==
  \E c, p, got :
    LET n == ConfigureNode(c, p) IN
    /\ p \in Package /\ IsRun(c.given)
    /\ id = IdOf(c, p, n, got) /\ build = BuildOf(c, p, n, got)
    /\ n.headers \/ BadRefs(p, n) = {}
InstalledInv == \A id \in DOMAIN installed : IsBuilt(id, installed[id])

IInv == PhaseInv /\ NodeInv /\ IdsInv /\ LastInv /\ InstalledInv /\ FailsBeforeBuilding

-----------------------------------------------------------------------------
(* The operators.                                                          *)

\* What is before a package in the order has what it needs.
LEMMA NeedsFirst ==
  ASSUME NEW p \in Package, IsNext(p)
  PROVE  NeededBy(p) \subseteq DOMAIN ids /\ p \notin DOMAIN ids /\ p \notin NeededBy(p)
<1>1. PICK i \in DOMAIN Order : p = Order[i]
  BY DEF Package
<1>2. i \in Nat /\ \A j \in 1 .. i - 1 : j \in DOMAIN Order /\ j < i
  BY <1>1, ConfigureAssumption
<1>3. \A j \in 1 .. i - 1 : Order[j] \in DOMAIN ids
  BY <1>1, <1>2 DEF IsNext
<1>4. NeededBy(p) \subseteq {Order[j] : j \in 1 .. i - 1}
  BY <1>1, ConfigureAssumption
<1> QED BY <1>3, <1>4 DEF IsNext

\* The ids of what a package needs decide what it has of them.
LEMMA DepIdsAgree ==
  ASSUME NEW p, NEW got, NEW old, \A q \in NeededBy(p) : got[q] = old[q]
  PROVE  DepIds(p, got) = DepIds(p, old)
  BY DEF DepIds, NeededBy
LEMMA DepIdsDecide ==
  ASSUME NEW p, NEW got, NEW old, DepIds(p, got) = DepIds(p, old), NEW q \in NeededBy(p)
  PROVE  got[q] = old[q]
<1>1. PICK i \in DOMAIN Needs[p] : q = Needs[p][i]
  BY DEF NeededBy
<1>2. DepIds(p, got)[i] = got[q] /\ DepIds(p, old)[i] = old[q]
  BY <1>1 DEF DepIds
<1> QED BY <1>2

\* What is added leaves the ids there are as they are.
LEMMA IdsGrow ==
  ASSUME NEW c, NEW got, AreIds(c, got), NEW p \in Package, p \notin DOMAIN got,
         NeededBy(p) \subseteq DOMAIN got
  PROVE  AreIds(c, With(got, p, IdOf(c, p, ConfigureNode(c, p), got)))
<1> DEFINE id == IdOf(c, p, ConfigureNode(c, p), got)
           new == With(got, p, id)
<1> HIDE DEF id
<1>1. /\ DOMAIN new = DOMAIN got \cup {p} /\ new[p] = id
      /\ \A x \in DOMAIN got : new[x] = got[x]
  BY DEF With
<1> HIDE DEF new
<1>2. ASSUME NEW q \in DOMAIN new
      PROVE  q \in Package /\ NeededBy(q) \subseteq DOMAIN got /\ new[q] = IdOf(c, q, ConfigureNode(c, q), got)
  <2>1. CASE q = p
    BY <2>1, <1>1 DEF id
  <2>2. CASE q # p
    BY <2>2, <1>1 DEF AreIds
  <2> QED BY <2>1, <2>2
<1>3. ASSUME NEW q \in DOMAIN new
      PROVE  IdOf(c, q, ConfigureNode(c, q), new) = IdOf(c, q, ConfigureNode(c, q), got)
  <2>1. DepIds(q, new) = DepIds(q, got)
    BY <1>1, <1>2, DepIdsAgree
  <2> QED BY <2>1 DEF IdOf
<1>4. AreIds(c, new)
  BY <1>1, <1>2, <1>3 DEF AreIds
<1> QED BY <1>4 DEF new, id

-----------------------------------------------------------------------------
(* The invariant.                                                          *)

\* A package that is installed now is one that a run has built.
LEMMA InstalledGrow ==
  ASSUME InstalledInv, IsRun(context.given), NEW p \in Package, node[p] = ConfigureNode(context, p),
         NextId(p) \notin DOMAIN installed, ~CannotBuild(p),
         installed' = With(installed, NextId(p), BuildOf(context, p, node[p], ids))
  PROVE  InstalledInv'
<1> DEFINE id == NextId(p)
           build == BuildOf(context, p, node[p], ids)
<1>1. IsBuilt(id, build)
  <2>1. node[p].headers \/ BadRefs(p, node[p]) = {}
    BY DEF CannotBuild
  <2> QED BY <2>1 DEF IsBuilt, NextId
<1>2. \A x \in DOMAIN installed : IsBuilt(x, installed[x])
  BY DEF InstalledInv
<1> HIDE DEF id, build
<1>3. /\ DOMAIN installed' = DOMAIN installed \cup {id} /\ installed'[id] = build
      /\ \A x \in DOMAIN installed : x # id => installed'[x] = installed[x]
  BY DEF With, id, build
<1>4. ASSUME NEW x \in DOMAIN installed' PROVE IsBuilt(x, installed'[x])
  <2>1. CASE x = id
    BY <2>1, <1>1, <1>3
  <2>2. CASE x # id
    BY <2>2, <1>2, <1>3
  <2> QED BY <2>1, <2>2
<1> QED BY <1>4 DEF InstalledInv, IsBuilt

\* A package whose id is added has one that is installed.
LEMMA IdsStep ==
  ASSUME IInv, NEW p \in Package, IsNext(p), p \in DOMAIN node, UNCHANGED <<context, node, phase, last, count>>,
         ids' = With(ids, p, NextId(p)),
         DOMAIN installed \subseteq DOMAIN installed', NextId(p) \in DOMAIN installed'
  PROVE  /\ IdsInv' /\ NodeInv' /\ LastInv'
         /\ DOMAIN ids' = DOMAIN ids \cup {p} /\ DOMAIN node' = DOMAIN node
<1> USE DEF IInv
<1>1. NeededBy(p) \subseteq DOMAIN ids /\ p \notin DOMAIN ids
  BY NeedsFirst
<1>2. NextId(p) = IdOf(context, p, ConfigureNode(context, p), ids)
  BY DEF NextId, NodeInv
<1>3. AreIds(context, With(ids, p, NextId(p)))
  BY <1>1, <1>2, IdsGrow DEF IdsInv
<1>4. AreIds(context', ids')
  BY <1>3 DEF AreIds
<1>5. /\ DOMAIN ids' = DOMAIN ids \cup {p} /\ ids'[p] = NextId(p)
      /\ \A q \in DOMAIN ids : q # p => ids'[q] = ids[q]
  BY DEF With
<1>6. \A q \in DOMAIN ids' : ids'[q] \in DOMAIN installed'
  BY <1>5 DEF IdsInv
<1>7. IdsInv'
  BY <1>4, <1>6 DEF IdsInv
<1>8. NodeInv' /\ LastInv'
  BY DEF NodeInv, LastInv, AreIds
<1> QED BY <1>5, <1>7, <1>8

\* Every step keeps the invariant.
LEMMA Inductive == IInv /\ [Next]_vars => IInv'
<1> SUFFICES ASSUME IInv, [Next]_vars PROVE IInv'
  OBVIOUS
<1> USE DEF IInv
<1>1. CASE UNCHANGED vars
  BY <1>1 DEF vars, PhaseInv, NodeInv, AreIds, IdsInv, LastInv, InstalledInv, IsBuilt, FailsBeforeBuilding, CannotBuild
<1>2. CASE Start
  <2>1. PhaseInv'
    BY <1>2, ConfigureAssumption DEF Start, PhaseInv
  <2>2. NodeInv'
    BY <1>2 DEF Start, NodeInv, Context
  <2>3. IdsInv' /\ LastInv' /\ InstalledInv'
    BY <1>2 DEF Start, IdsInv, AreIds, LastInv, InstalledInv, IsBuilt
  <2>4. FailsBeforeBuilding'
    BY <1>2 DEF Start, FailsBeforeBuilding
  <2> QED BY <2>1, <2>2, <2>3, <2>4
<1>3. CASE Preflight
  <2>1. PhaseInv'
    BY <1>3 DEF Preflight, PhaseInv, Preflights
  <2>2. NodeInv'
    BY <1>3 DEF Preflight, NodeInv
  <2>3. IdsInv' /\ LastInv' /\ InstalledInv'
    BY <1>3 DEF Preflight, PhaseInv, IdsInv, AreIds, LastInv, InstalledInv, IsBuilt
  <2>4. FailsBeforeBuilding'
    BY <1>3 DEF Preflight, PhaseInv, FailsBeforeBuilding
  <2> QED BY <2>1, <2>2, <2>3, <2>4
<1>4. CASE Finish
  <2>1. PhaseInv'
    BY <1>4 DEF Finish, PhaseInv
  <2>2. NodeInv'
    BY <1>4 DEF Finish, NodeInv
  <2>3. IdsInv' /\ InstalledInv'
    BY <1>4 DEF Finish, IdsInv, AreIds, InstalledInv, IsBuilt
  <2>4. LastInv'
    BY <1>4 DEF Finish, IdsInv, AreIds, LastInv
  <2>5. FailsBeforeBuilding'
    BY <1>4 DEF Finish, FailsBeforeBuilding
  <2> QED BY <2>1, <2>2, <2>3, <2>4, <2>5
<1>5. ASSUME NEW p \in Package, Hit(p) PROVE IInv'
  <2>1. /\ IdsInv' /\ NodeInv' /\ LastInv'
        /\ DOMAIN ids' = DOMAIN ids \cup {p} /\ DOMAIN node' = DOMAIN node
    BY <1>5, IdsStep DEF Hit
  <2>2. PhaseInv' /\ FailsBeforeBuilding'
    BY <1>5, <2>1 DEF Hit, IsNext, PhaseInv, FailsBeforeBuilding
  <2>3. InstalledInv'
    BY <1>5 DEF Hit, InstalledInv, IsBuilt
  <2> QED BY <2>1, <2>2, <2>3
<1>6. ASSUME NEW p \in Package, Build(p) PROVE IInv'
  <2>1. DOMAIN installed' = DOMAIN installed \cup {NextId(p)}
    BY <1>6 DEF Build, With
  <2>2. /\ IdsInv' /\ NodeInv' /\ LastInv'
        /\ DOMAIN ids' = DOMAIN ids \cup {p} /\ DOMAIN node' = DOMAIN node
    BY <1>6, <2>1, IdsStep DEF Build
  <2>3. PhaseInv' /\ FailsBeforeBuilding'
    BY <1>6, <2>2 DEF Build, IsNext, PhaseInv, FailsBeforeBuilding
  <2>4. IsRun(context.given) /\ node[p] = ConfigureNode(context, p)
    BY <1>6 DEF Build, IsNext, NodeInv
  <2>5. InstalledInv'
    BY <1>6, <2>4, InstalledGrow DEF Build
  <2> QED BY <2>2, <2>3, <2>5
<1>7. ASSUME NEW p \in Package, Fail(p) PROVE IInv'
  <2>1. PhaseInv'
    BY <1>7 DEF Fail, PhaseInv
  <2>2. NodeInv'
    BY <1>7 DEF Fail, IsNext, NodeInv
  <2>3. IdsInv' /\ LastInv' /\ InstalledInv'
    BY <1>7 DEF Fail, IdsInv, AreIds, LastInv, InstalledInv, IsBuilt
  <2>4. p \in Package \ DOMAIN ids /\ CannotBuild(p) /\ DOMAIN node = Package
    BY <1>7 DEF Fail, IsNext, PhaseInv
  <2>5. FailsBeforeBuilding'
    BY <1>7, <2>4 DEF Fail, FailsBeforeBuilding, CannotBuild
  <2> QED BY <2>1, <2>2, <2>3, <2>5
<1> QED BY <1>1, <1>2, <1>3, <1>4, <1>5, <1>6, <1>7 DEF Next

THEOREM ConfigureInvariant == Spec => []IInv
<1>1. Init => IInv
  BY ConfigureAssumption
     DEF Init, IInv, PhaseInv, NodeInv, IdsInv, AreIds, LastInv, InstalledInv, FailsBeforeBuilding
<1> QED BY <1>1, Inductive, PTL DEF Spec

-----------------------------------------------------------------------------
(* Maps over each other.                                                   *)

\* A set of numbers has a least one.
LEMMA MinFacts ==
  ASSUME NEW S \in SUBSET Nat, S # {}
  PROVE  Min(S) \in S /\ \A n \in S : Min(S) <= n
<1>1. PICK m \in S : \A n \in S : <<n, m>> \notin OpToRel(<, Nat)
  BY WFMin, NatLessThanWellFounded, Zenon
<1>2. ASSUME NEW n \in S PROVE m <= n
  <2>1. <<n, m>> \notin OpToRel(<, Nat)
    BY <1>1, Zenon
  <2>2. m \in Nat /\ n \in Nat
    OBVIOUS
  <2>3. ~(n < m)
    BY <2>1, <2>2 DEF OpToRel
  <2> QED BY <2>2, <2>3
<1>3. \E x \in S : \A y \in S : x =< y
  BY <1>2
<1> QED BY <1>3, Zenon DEF Min

\* The first of the maps that has a key decides.
Having(maps, k) == {i \in DOMAIN maps : k \in DOMAIN maps[i]}

LEMMA OverlaidFirst ==
  ASSUME NEW n \in Nat, NEW maps, DOMAIN maps = 1 .. n, NEW k
  PROVE  /\ k \in DOMAIN Overlaid(maps) <=> Having(maps, k) # {}
         /\ k \in DOMAIN Overlaid(maps) =>
              /\ Min(Having(maps, k)) \in Having(maps, k)
              /\ \A i \in Having(maps, k) : Min(Having(maps, k)) <= i
              /\ Overlaid(maps)[k] = maps[Min(Having(maps, k))][k]
<1>1. k \in DOMAIN Overlaid(maps) <=> Having(maps, k) # {}
  BY DEF Overlaid, Having
<1>2. Having(maps, k) \in SUBSET Nat
  BY DEF Having
<1>3. k \in DOMAIN Overlaid(maps) => Overlaid(maps)[k] = maps[Min(Having(maps, k))][k]
  BY DEF Overlaid, Having
<1> QED BY <1>1, <1>2, <1>3, MinFacts

\* Two maps have the same for a key, if they have it.
Agree(f, g, k) == (k \in DOMAIN f <=> k \in DOMAIN g) /\ (k \in DOMAIN f => f[k] = g[k])

LEMMA OverlaidAgree ==
  ASSUME NEW n \in Nat, NEW f, DOMAIN f = 1 .. n, NEW g, DOMAIN g = 1 .. n, NEW k,
         \A i \in 1 .. n : Agree(f[i], g[i], k)
  PROVE  Agree(Overlaid(f), Overlaid(g), k)
<1>0. Having(f, k) = Having(g, k)
  BY DEF Having, Agree
<1>1. k \in DOMAIN Overlaid(f) <=> k \in DOMAIN Overlaid(g)
  BY <1>0, OverlaidFirst
<1>2. ASSUME k \in DOMAIN Overlaid(f) PROVE Overlaid(f)[k] = Overlaid(g)[k]
  <2>1. Min(Having(f, k)) \in Having(f, k) /\ Overlaid(f)[k] = f[Min(Having(f, k))][k]
    BY <1>2, OverlaidFirst
  <2>2. Overlaid(g)[k] = g[Min(Having(g, k))][k]
    BY <1>1, <1>2, OverlaidFirst
  <2>3. f[Min(Having(f, k))][k] = g[Min(Having(f, k))][k]
    BY <2>1 DEF Having, Agree
  <2> QED BY <1>0, <2>1, <2>2, <2>3
<1> QED BY <1>1, <1>2 DEF Agree

\* A map of one key, under a condition.
LEMMA WhenFacts ==
  ASSUME NEW a, NEW b, NEW k, NEW x, NEW y, NEW v
  PROVE  /\ DOMAIN When(a, k, x) \subseteq {k}
         /\ v # k => Agree(When(a, k, x), When(b, k, y), v)
         /\ (a <=> b) /\ x = y => Agree(When(a, k, x), When(b, k, y), v)
BY DEF When, Agree

-----------------------------------------------------------------------------
(* Two nodes of one id.                                                    *)

\* What two nodes n and m of a package p have in common.
Alike(n, m) ==
  /\ n.source = m.source /\ n.headers = m.headers /\ IsShared(n) = IsShared(m)
  /\ n.set.build_type = m.set.build_type /\ n.set.lto = m.set.lto
  /\ n.flags = m.flags /\ n.rules = m.rules /\ n.options = m.options
AlikeUnlessIgnored(n, m, t) ==
  /\ "compiler" \in n.ignores \/ n.prints = m.prints
  /\ t \notin Msvc \/ "vc_runtime" \in n.ignores \/ n.set.vc_runtime = m.set.vc_runtime
  /\ "cxx_std" \in n.ignores \/ n.set.cxx_std = m.set.cxx_std
  /\ "cxx_stdlib" \in n.ignores \/ n.set.cxx_stdlib = m.set.cxx_stdlib

LEMMA IdDecides ==
  ASSUME NEW n, NEW m, NEW t, NEW u, NEW deps, NEW olds, BuildId(n, t, deps) = BuildId(m, u, olds)
  PROVE  t = u /\ deps = olds /\ Alike(n, m) /\ AlikeUnlessIgnored(n, m, t)
<1> DEFINE A == BuildId(n, t, deps)
           B == BuildId(m, u, olds)
<1>1. /\ A.target = t /\ A.deps = deps /\ A.source = n.source /\ A.headers = n.headers
      /\ A.shared = IsShared(n) /\ A.build_type = n.set.build_type /\ A.lto = n.set.lto
      /\ A.flags = n.flags /\ A.rules = n.rules /\ A.options = n.options
      /\ A.prints = Unless("compiler" \in n.ignores, n.prints)
      /\ A.vc_runtime = Unless(t \notin Msvc \/ "vc_runtime" \in n.ignores, n.set.vc_runtime)
      /\ A.cxx_std = Unless("cxx_std" \in n.ignores, n.set.cxx_std)
      /\ A.cxx_stdlib = Unless("cxx_stdlib" \in n.ignores, n.set.cxx_stdlib)
  BY DEF BuildId
<1>2. /\ B.target = u /\ B.deps = olds /\ B.source = m.source /\ B.headers = m.headers
      /\ B.shared = IsShared(m) /\ B.build_type = m.set.build_type /\ B.lto = m.set.lto
      /\ B.flags = m.flags /\ B.rules = m.rules /\ B.options = m.options
      /\ B.prints = Unless("compiler" \in m.ignores, m.prints)
      /\ B.vc_runtime = Unless(u \notin Msvc \/ "vc_runtime" \in m.ignores, m.set.vc_runtime)
      /\ B.cxx_std = Unless("cxx_std" \in m.ignores, m.set.cxx_std)
      /\ B.cxx_stdlib = Unless("cxx_stdlib" \in m.ignores, m.set.cxx_stdlib)
  BY DEF BuildId
<1>3. A = B
  OBVIOUS
<1> HIDE DEF A, B
<1>4. t = u /\ deps = olds /\ Alike(n, m)
  BY <1>1, <1>2, <1>3 DEF Alike
<1>5. "compiler" \in n.ignores \/ n.prints = m.prints
  BY <1>1, <1>2, <1>3 DEF Unless
<1>6. t \notin Msvc \/ "vc_runtime" \in n.ignores \/ n.set.vc_runtime = m.set.vc_runtime
  BY <1>1, <1>2, <1>3 DEF Unless
<1>7. "cxx_std" \in n.ignores \/ n.set.cxx_std = m.set.cxx_std
  BY <1>1, <1>2, <1>3 DEF Unless
<1>8. "cxx_stdlib" \in n.ignores \/ n.set.cxx_stdlib = m.set.cxx_stdlib
  BY <1>1, <1>2, <1>3 DEF Unless
<1> QED BY <1>4, <1>5, <1>6, <1>7, <1>8 DEF AlikeUnlessIgnored

\* Where the ids of the dependencies are the same, so is what is made of them.
LEMMA PrefixesAgree ==
  ASSUME NEW p, NEW got, NEW old, DepIds(p, got) = DepIds(p, old), NEW ofTools
  PROVE  Prefixes(p, got, ofTools) = Prefixes(p, old, ofTools)
BY DEF Prefixes

LEMMA DefinitionsAgree ==
  ASSUME NEW p, NEW n, NEW m, Alike(n, m), BadRefs(p, m) = {},
         NEW got, NEW old, DepIds(p, got) = DepIds(p, old)
  PROVE  Definitions(n, got) = Definitions(m, old)
<1>1. Joined(n) = Joined(m)
  BY DEF Joined, Alike
<1>2. ASSUME NEW k \in DOMAIN Joined(m), Joined(m)[k][1] = "prefix"
      PROVE  got[Joined(m)[k][2]] = old[Joined(m)[k][2]]
  <2>1. Joined(m)[k][2] \in NeededBy(p)
    BY <1>2 DEF BadRefs, Refers
  <2> QED BY <2>1, DepIdsDecide
<1> QED BY <1>1, <1>2 DEF Definitions

LEMMA HintsAgree ==
  ASSUME NEW c, NEW d, NEW p, Names(c, p) = Names(d, p),
         NEW got, NEW old, DepIds(p, got) = DepIds(p, old)
  PROVE  Hints(c, p, got) = Hints(d, p, old)
<1>1. ASSUME NEW q \in NeededBy(p) \ Tools PROVE NamesOf(c, q) = NamesOf(d, q)
  <2>1. Names(c, p)[q] = NamesOf(c, q) /\ Names(d, p)[q] = NamesOf(d, q)
    BY DEF Names
  <2> QED BY <2>1
<1>2. \A v : Hinted(c, p, v) = Hinted(d, p, v)
  BY <1>1 DEF Hinted, NeededBy
<1> QED BY <1>2 DEF Hints

\* A hint names the prefix of a dependency.
LEMMA HintIsPrefix ==
  ASSUME NEW c, NEW p \in Package, NEW got, NEW v \in DOMAIN Hints(c, p, got)
  PROVE  /\ v \in RootVars
         /\ \E q \in NeededBy(p) \ Tools : Hints(c, p, got)[v] = <<"prefix", got[q]>>
<1> DEFINE at == Min(Hinted(c, p, v))
<1>1. v \in RootVars /\ Hinted(c, p, v) # {}
  BY DEF Hints
<1>2. Hinted(c, p, v) \in SUBSET Nat
  BY ConfigureAssumption DEF Hinted
<1>3. at \in Hinted(c, p, v)
  BY <1>1, <1>2, MinFacts
<1>4. Hints(c, p, got)[v] = <<"prefix", DepIds(p, got)[at]>>
  BY DEF Hints
<1> HIDE DEF at
<1>5. at \in DOMAIN Needs[p] /\ Needs[p][at] \notin Tools
  BY <1>3 DEF Hinted
<1>6. DepIds(p, got)[at] = got[Needs[p][at]] /\ Needs[p][at] \in NeededBy(p) \ Tools
  BY <1>5 DEF DepIds, NeededBy
<1> QED BY <1>1, <1>4, <1>6

\* Where the fingerprints are the same, so are the compilers and what is on disk of them.
LEMMA PrintsDecide ==
  ASSUME NEW c, NEW d, NEW p, Fingerprint(c, p) = Fingerprint(d, p)
  PROVE  /\ CompilersFor(c, p).compiler = CompilersFor(d, p).compiler
         /\ CompilersFor(c, p).toolchain = CompilersFor(d, p).toolchain
         /\ CompilersFor(c, p).compiler # None \/ CompilersFor(c, p).toolchain # None
              => Compiler(c, p) = Compiler(d, p)
<1>1. ASSUME NEW x \in {"compiler", "toolchain"}
      PROVE  PrintOf(c, CompilersFor(c, p)[x]) = PrintOf(d, CompilersFor(d, p)[x])
  <2>1. x \in DOMAIN CompilersFor(c, p) /\ x \in DOMAIN CompilersFor(d, p)
    BY DEF CompilersFor
  <2>2. Fingerprint(c, p)[x] = PrintOf(c, CompilersFor(c, p)[x])
    BY <2>1 DEF Fingerprint
  <2>3. Fingerprint(d, p)[x] = PrintOf(d, CompilersFor(d, p)[x])
    BY <2>1 DEF Fingerprint
  <2> QED BY <2>2, <2>3
<1>2. ASSUME NEW x, NEW y, PrintOf(c, x) = PrintOf(d, y) PROVE x = y
  BY <1>2 DEF PrintOf
<1>3. /\ CompilersFor(c, p)["compiler"] = CompilersFor(d, p)["compiler"]
      /\ CompilersFor(c, p)["toolchain"] = CompilersFor(d, p)["toolchain"]
  BY <1>1, <1>2
<1>4. /\ PrintOf(c, CompilersFor(c, p).compiler) = PrintOf(d, CompilersFor(d, p).compiler)
      /\ PrintOf(c, CompilersFor(c, p).toolchain) = PrintOf(d, CompilersFor(d, p).toolchain)
  BY <1>1
<1> QED BY <1>3, <1>4 DEF Compiler

\* Two command lines agree on what is not excused, map by map.
LEMMA ArgMapsAgree ==
  ASSUME NEW c, NEW d, NEW p, NEW n, NEW m, NEW got, NEW old,
         TripleFor(c, p) = TripleFor(d, p), DepIds(p, got) = DepIds(p, old), BadRefs(p, m) = {},
         Alike(n, m), AlikeUnlessIgnored(n, m, TripleFor(c, p)),
         "compiler" \in n.ignores \/ Fingerprint(c, p) = Fingerprint(d, p),
         NEW v, v \notin Excused(n), v \in RootVars => Names(c, p) = Names(d, p)
  PROVE  /\ \A i \in 1 .. 10 : Agree(ArgMaps(c, p, n, got)[i], ArgMaps(d, p, m, old)[i], v)
<1> DEFINE A == ArgMaps(c, p, n, got)
           B == ArgMaps(d, p, m, old)
           defs == Definitions(m, old)
<1>0. Definitions(n, got) = defs
  BY DefinitionsAgree
<1> HIDE DEF defs
<1>1. Agree(A[1], B[1], v)
  <2>1. CASE v # "CMAKE_CXX_FLAGS"
    BY <2>1 DEF ArgMaps, When, Agree
  <2>2. CASE v = "CMAKE_CXX_FLAGS"
    <3>1. n.set.cxx_stdlib = m.set.cxx_stdlib
      BY <2>2 DEF Excused, AlikeUnlessIgnored
    <3>2. FlagsOf(n, defs) = FlagsOf(m, defs)
      BY <3>1 DEF FlagsOf, Alike
    <3>3. A[1] = B[1]
      BY <1>0, <3>2 DEF ArgMaps, defs
    <3> QED BY <3>3 DEF Agree
  <2> QED BY <2>1, <2>2
<1>2. Agree(A[2], B[2], v)
  <2>1. A[2] = B[2]
    BY <1>0 DEF ArgMaps, defs
  <2> QED BY <2>1 DEF Agree
<1>3. Agree(A[3], B[3], v)
  <2>1. A[3] = Hints(c, p, got) /\ B[3] = Hints(d, p, old)
    BY DEF ArgMaps
  <2>2. CASE v \in RootVars
    <3>1. Hints(c, p, got) = Hints(d, p, old)
      BY <2>2, HintsAgree
    <3> QED BY <2>1, <3>1 DEF Agree
  <2>3. CASE v \notin RootVars
    <3>1. v \notin DOMAIN Hints(c, p, got) /\ v \notin DOMAIN Hints(d, p, old)
      BY <2>3 DEF Hints
    <3> QED BY <2>1, <3>1 DEF Agree
  <2> QED BY <2>2, <2>3
<1>4. Agree(A[4], B[4], v)
  <2>1. A[4] = B[4]
    BY DEF ArgMaps, Alike
  <2> QED BY <2>1 DEF Agree
<1>5. Agree(A[5], B[5], v)
  <2>1. CASE v # "CMAKE_MSVC_RUNTIME_LIBRARY"
    BY <2>1 DEF ArgMaps, When, Agree
  <2>2. CASE v = "CMAKE_MSVC_RUNTIME_LIBRARY"
    <3>1. TripleFor(c, p) \in Msvc => n.set.vc_runtime = m.set.vc_runtime
      BY <2>2 DEF Excused, AlikeUnlessIgnored
    <3>2. A[5] = B[5]
      BY <3>1 DEF ArgMaps, When
    <3> QED BY <3>2 DEF Agree
  <2> QED BY <2>1, <2>2
<1>6. Agree(A[6], B[6], v)
  <2>1. A[6] = StandardArgs(n.set.cxx_std) /\ B[6] = StandardArgs(m.set.cxx_std)
    BY DEF ArgMaps
  <2>2. CASE v \notin {"CMAKE_CXX_STANDARD", "CMAKE_CXX_EXTENSIONS"}
    BY <2>1, <2>2 DEF StandardArgs, Agree
  <2>3. CASE v \in {"CMAKE_CXX_STANDARD", "CMAKE_CXX_EXTENSIONS"}
    <3>1. n.set.cxx_std = m.set.cxx_std
      BY <2>3 DEF Excused, AlikeUnlessIgnored
    <3> QED BY <2>1, <3>1 DEF Agree
  <2> QED BY <2>2, <2>3
<1>7. Agree(A[7], B[7], v)
  <2>1. A[7] = B[7]
    BY DEF ArgMaps, Alike
  <2> QED BY <2>1 DEF Agree
<1>8. Agree(A[8], B[8], v)
  <2>1. Prefixes(p, got, FALSE) = Prefixes(p, old, FALSE)
    BY PrefixesAgree
  <2>2. A[8] = B[8]
    BY <2>1 DEF ArgMaps
  <2> QED BY <2>2 DEF Agree
<1>9. v \in {"CMAKE_TOOLCHAIN_FILE", "CMAKE_CXX_COMPILER"} =>
        /\ CompilersFor(c, p).compiler = CompilersFor(d, p).compiler
        /\ CompilersFor(c, p).toolchain = CompilersFor(d, p).toolchain
  BY PrintsDecide DEF Excused
<1>10. Agree(A[9], B[9], v)
  <2>1. CASE v # "CMAKE_TOOLCHAIN_FILE"
    BY <2>1 DEF ArgMaps, When, Agree
  <2>2. CASE v = "CMAKE_TOOLCHAIN_FILE"
    BY <2>2, <1>9 DEF ArgMaps, Agree
  <2> QED BY <2>1, <2>2
<1>11. Agree(A[10], B[10], v)
  <2>1. CASE v # "CMAKE_CXX_COMPILER"
    BY <2>1 DEF ArgMaps, When, Agree
  <2>2. CASE v = "CMAKE_CXX_COMPILER"
    BY <2>2, <1>9 DEF ArgMaps, Agree
  <2> QED BY <2>1, <2>2
<1> HIDE DEF A, B
<1>12. \A i \in 1 .. 10 : i \in {1, 2, 3, 4, 5, 6, 7, 8, 9, 10}
  OBVIOUS
<1>13. \A i \in 1 .. 10 : Agree(A[i], B[i], v)
  BY <1>1, <1>2, <1>3, <1>4, <1>5, <1>6, <1>7, <1>8, <1>10, <1>11, <1>12
<1> QED BY <1>13 DEF A, B

\* A variable <name>_ROOT is set by the options of a package or is a hint.
LEMMA RootsAreHints ==
  ASSUME NEW c, NEW p, NEW n, NEW got, NEW v \in RootVars, v \in DOMAIN ConfigureArgs(c, p, n, got)
  PROVE  LET a == ConfigureArgs(c, p, n, got)
             defs == Definitions(n, got)
         IN IF v \in DOMAIN defs THEN a[v] = defs[v]
            ELSE v \in DOMAIN Hints(c, p, got) /\ a[v] = Hints(c, p, got)[v]
<1> DEFINE M == ArgMaps(c, p, n, got)
           at == Min(Having(M, v))
<1>1. DOMAIN M = 1 .. 10 /\ M[2] = Definitions(n, got) /\ M[3] = Hints(c, p, got)
  BY DEF ArgMaps
<1>2. v \notin CMakeVars
  BY ConfigureAssumption
<1>3. ASSUME NEW a, NEW k, k \in CMakeVars, NEW x PROVE v \notin DOMAIN When(a, k, x)
  BY <1>2, <1>3 DEF When
<1>4. /\ v \notin DOMAIN M[1] /\ v \notin DOMAIN M[5] /\ v \notin DOMAIN M[7] /\ v \notin DOMAIN M[8]
      /\ v \notin DOMAIN M[9] /\ v \notin DOMAIN M[10]
  BY <1>3 DEF ArgMaps, CMakeVars
<1>5. v \notin DOMAIN M[4] /\ v \notin DOMAIN M[6]
  BY <1>2 DEF ArgMaps, StandardArgs, CMakeVars
<1> HIDE DEF M
<1>6. /\ at \in Having(M, v) /\ \A i \in Having(M, v) : at <= i
      /\ ConfigureArgs(c, p, n, got)[v] = M[at][v]
  BY <1>1, OverlaidFirst DEF ConfigureArgs, M
<1> HIDE DEF at
<1>7. at \in 1 .. 10 /\ v \in DOMAIN M[at]
  BY <1>1, <1>6 DEF Having
<1>8. at = 2 \/ at = 3
  BY <1>4, <1>5, <1>7
<1>9. v \in DOMAIN M[2] => at = 2
  <2>1. v \in DOMAIN M[2] => at <= 2
    BY <1>1, <1>6 DEF Having
  <2> QED BY <2>1, <1>8
<1> QED BY <1>1, <1>6, <1>7, <1>8, <1>9

\* What was built under an id is what would be built of any other node that has it.
LEMMA SameIdCovers ==
  ASSUME NEW c, NEW d, NEW p \in Package, NEW q \in Package, NEW got, NEW old, IsRun(d.given),
         IdOf(c, p, ConfigureNode(c, p), got) = IdOf(d, q, ConfigureNode(d, q), old),
         ConfigureNode(d, q).headers \/ BadRefs(q, ConfigureNode(d, q)) = {}
  PROVE  Covers(c, p, ConfigureNode(c, p), got, BuildOf(d, q, ConfigureNode(d, q), old))
<1> DEFINE n == ConfigureNode(c, p)
           m == ConfigureNode(d, q)
           mine == BuildOf(c, p, n, got)
           found == BuildOf(d, q, m, old)
<1>1. /\ n.source = <<p, c.given.nodes[p].source>> /\ m.source = <<q, d.given.nodes[q].source>>
      /\ n.prints = Fingerprint(c, p) /\ m.prints = Fingerprint(d, q)
      /\ m.headers \in BOOLEAN
  BY DEF ConfigureNode, IsRun
<1> HIDE DEF n, m
<1>2. /\ TripleFor(c, p) = TripleFor(d, q) /\ DepIds(p, got) = DepIds(q, old)
      /\ Alike(n, m) /\ AlikeUnlessIgnored(n, m, TripleFor(c, p))
  BY IdDecides DEF IdOf, n, m
<1>3. p = q
  BY <1>1, <1>2 DEF Alike
<1>4. n.source = found.source /\ (n.headers <=> found.headers # {})
  <2>1. n.source = m.source /\ n.headers = m.headers
    BY <1>2 DEF Alike
  <2>2. CASE m.headers
    <3>1. found = [source |-> m.source, headers |-> IncludeDirs(d, q)]
      BY <2>2 DEF BuildOf
    <3>2. IncludeDirs(d, q) # {}
      BY DEF IncludeDirs
    <3> QED BY <1>1, <2>1, <2>2, <3>1, <3>2
  <2>3. CASE ~m.headers
    <3>1. found.source = m.source /\ found.headers = {}
      BY <2>3 DEF BuildOf
    <3> QED BY <1>1, <2>1, <2>3, <3>1
  <2> QED BY <2>2, <2>3
<1>5. ASSUME ~n.headers
      PROVE  /\ SameArgs(mine.args, found.args,
                         Excused(n) \cup (IF mine.names = found.names THEN {} ELSE RootVars))
             /\ HintsAreOurs(mine.args, found.args, {<<"prefix", got[r]>> : r \in NeededBy(p) \ Tools})
             /\ mine.path = found.path
             /\ "compiler" \notin n.ignores
                /\ (CompilersFor(c, p).toolchain # None \/ CompilersFor(c, p).compiler # None)
                  => mine.compiler = found.compiler
  <2>1. ~m.headers /\ BadRefs(p, m) = {}
    BY <1>2, <1>3, <1>5 DEF Alike, n, m
  <2>2. /\ mine.args = ConfigureArgs(c, p, n, got) /\ mine.names = Names(c, p)
        /\ mine.path = Prefixes(p, got, TRUE) /\ mine.compiler = Compiler(c, p)
    BY <1>5 DEF BuildOf
  <2>3. /\ found.args = ConfigureArgs(d, p, m, old) /\ found.names = Names(d, p)
        /\ found.path = Prefixes(p, old, TRUE) /\ found.compiler = Compiler(d, p)
    BY <1>3, <2>1 DEF BuildOf
  <2> HIDE DEF mine, found
  <2>4. "compiler" \in n.ignores \/ Fingerprint(c, p) = Fingerprint(d, p)
    BY <1>1, <1>2, <1>3 DEF AlikeUnlessIgnored
  <2>5. ASSUME NEW v, v \notin Excused(n), v \in RootVars => Names(c, p) = Names(d, p)
        PROVE  Agree(mine.args, found.args, v)
    <3>1. \A i \in 1 .. 10 : Agree(ArgMaps(c, p, n, got)[i], ArgMaps(d, p, m, old)[i], v)
      BY <1>2, <1>3, <2>1, <2>4, <2>5, ArgMapsAgree
    <3>2. DOMAIN ArgMaps(c, p, n, got) = 1 .. 10 /\ DOMAIN ArgMaps(d, p, m, old) = 1 .. 10
      BY DEF ArgMaps
    <3>3. Agree(Overlaid(ArgMaps(c, p, n, got)), Overlaid(ArgMaps(d, p, m, old)), v)
      BY <3>1, <3>2, OverlaidAgree
    <3> QED BY <3>3, <2>2, <2>3 DEF ConfigureArgs
  <2>6. SameArgs(mine.args, found.args,
                 Excused(n) \cup (IF mine.names = found.names THEN {} ELSE RootVars))
    BY <2>2, <2>3, <2>5 DEF SameArgs, Agree
  <2>7. HintsAreOurs(mine.args, found.args, {<<"prefix", got[r]>> : r \in NeededBy(p) \ Tools})
    <3> SUFFICES ASSUME NEW v \in DOMAIN found.args \cap RootVars
                 PROVE  \/ v \in DOMAIN mine.args /\ mine.args[v] = found.args[v]
                        \/ \E r \in NeededBy(p) \ Tools : found.args[v] = <<"prefix", got[r]>>
      BY DEF HintsAreOurs
    <3>1. Definitions(n, got) = Definitions(m, old)
      BY <1>2, <1>3, <2>1, DefinitionsAgree
    <3>2. CASE v \in DOMAIN Definitions(m, old)
      <4>1. found.args[v] = Definitions(m, old)[v]
        BY <2>3, <3>2, RootsAreHints
      <4>2. v \in DOMAIN ConfigureArgs(c, p, n, got)
        <5>1. 2 \in 1 .. 10 /\ DOMAIN ArgMaps(c, p, n, got) = 1 .. 10 /\ ArgMaps(c, p, n, got)[2] = Definitions(n, got)
          BY DEF ArgMaps
        <5>2. 2 \in Having(ArgMaps(c, p, n, got), v)
          BY <3>1, <3>2, <5>1 DEF Having
        <5> QED BY <5>1, <5>2, OverlaidFirst DEF ConfigureArgs
      <4>3. mine.args[v] = Definitions(n, got)[v]
        BY <2>2, <3>1, <3>2, <4>2, RootsAreHints
      <4> QED BY <2>2, <3>1, <4>1, <4>2, <4>3
    <3>3. CASE v \notin DOMAIN Definitions(m, old)
      <4>1. v \in DOMAIN Hints(d, p, old) /\ found.args[v] = Hints(d, p, old)[v]
        BY <2>3, <3>3, RootsAreHints
      <4>2. PICK r \in NeededBy(p) \ Tools : Hints(d, p, old)[v] = <<"prefix", old[r]>>
        BY <4>1, HintIsPrefix
      <4>3. got[r] = old[r]
        BY <1>2, <1>3, DepIdsDecide
      <4> QED BY <4>1, <4>2, <4>3
    <3> QED BY <3>2, <3>3
  <2>8. mine.path = found.path
    BY <1>2, <1>3, <2>2, <2>3, PrefixesAgree
  <2>9. ASSUME "compiler" \notin n.ignores,
               CompilersFor(c, p).toolchain # None \/ CompilersFor(c, p).compiler # None
        PROVE  mine.compiler = found.compiler
    BY <2>2, <2>3, <2>4, <2>9, PrintsDecide
  <2> QED BY <2>6, <2>7, <2>8, <2>9
<1>6. Covers(c, p, n, got, found)
  BY <1>4, <1>5 DEF Covers
<1> QED BY <1>6 DEF n, m

-----------------------------------------------------------------------------
(* Tools of cross builds.                                                  *)

\* A tool that needs tools only, in two cross builds: its node is the same where all that it
\* needs is the same, and so is its id where those of what it needs are.
LEMMA ToolsAlike ==
  ASSUME NEW c, NEW d, NEW p \in Tools, ~c.native, ~d.native, HostSide(c, p) = HostSide(d, p)
  PROVE  ConfigureNode(c, p) = ConfigureNode(d, p) /\ TripleFor(c, p) = TripleFor(d, p)
<1>1. c.given.rules = d.given.rules /\ c.given.options = d.given.options
  BY DEF HostSide
<1>2. c.given.nodes[p] = d.given.nodes[p]
  <2>1. [q \in NeededBy(p) \cup {p} |-> c.given.nodes[q]] = [q \in NeededBy(p) \cup {p} |-> d.given.nodes[q]]
    BY DEF HostSide
  <2>2. [q \in NeededBy(p) \cup {p} |-> c.given.nodes[q]][p] = c.given.nodes[p]
    OBVIOUS
  <2>3. [q \in NeededBy(p) \cup {p} |-> d.given.nodes[q]][p] = d.given.nodes[p]
    OBVIOUS
  <2> QED BY <2>1, <2>2, <2>3
<1>3. OwnOptions(c, p) = OwnOptions(d, p)
  BY <1>2 DEF OwnOptions
<1>4. Config(c, p) = Config(d, p)
  <2>1. Base(c, p) = Base(d, p)
    BY DEF Base
  <2> QED BY <1>1, <2>1 DEF Config
<1>5. FamilyFor(c, p) = FamilyFor(d, p) /\ TripleFor(c, p) = TripleFor(d, p)
  BY DEF FamilyFor, TripleFor
<1>6. Fingerprint(c, p) = Fingerprint(d, p)
  <2>1. CompilersFor(c, p) = [compiler |-> None, toolchain |-> None]
    BY DEF CompilersFor
  <2>2. CompilersFor(d, p) = [compiler |-> None, toolchain |-> None]
    BY DEF CompilersFor
  <2>3. PrintOf(c, None) = <<>> /\ PrintOf(d, None) = <<>>
    BY DEF PrintOf
  <2> QED BY <2>1, <2>2, <2>3 DEF Fingerprint
<1>7. ConfigureNode(c, p) = ConfigureNode(d, p)
  BY <1>1, <1>2, <1>3, <1>4, <1>5, <1>6 DEF ConfigureNode
<1> QED BY <1>5, <1>7

LEMMA HostSideOfNeeded ==
  ASSUME NEW c, NEW d, NEW p, HostSide(c, p) = HostSide(d, p),
         NEW q \in NeededBy(p) \cup {p}, NeededBy(q) \subseteq NeededBy(p)
  PROVE  HostSide(c, q) = HostSide(d, q)
<1>1. c.given.rules = d.given.rules /\ c.given.options = d.given.options
  BY DEF HostSide
<1>2. ASSUME NEW r \in NeededBy(p) \cup {p} PROVE c.given.nodes[r] = d.given.nodes[r]
  <2>1. [x \in NeededBy(p) \cup {p} |-> c.given.nodes[x]] = [x \in NeededBy(p) \cup {p} |-> d.given.nodes[x]]
    BY DEF HostSide
  <2>2. [x \in NeededBy(p) \cup {p} |-> c.given.nodes[x]][r] = c.given.nodes[r]
    OBVIOUS
  <2>3. [x \in NeededBy(p) \cup {p} |-> d.given.nodes[x]][r] = d.given.nodes[r]
    OBVIOUS
  <2> QED BY <2>1, <2>2, <2>3
<1>3. [x \in NeededBy(q) \cup {q} |-> c.given.nodes[x]] = [x \in NeededBy(q) \cup {q} |-> d.given.nodes[x]]
  BY <1>2
<1> QED BY <1>1, <1>3 DEF HostSide

LEMMA ToolIdsAlike ==
  ASSUME NEW c, NEW d, NEW got, NEW old, AreIds(c, got), AreIds(d, old), ~c.native, ~d.native,
         NEW p \in Tools, p \in DOMAIN got, p \in DOMAIN old,
         HostSide(c, p) = HostSide(d, p), NeededBy(p) \subseteq Tools
  PROVE  got[p] = old[p]
<1> DEFINE Bad == {i \in DOMAIN Order : Order[i] \in NeededBy(p) \cup {p} /\ got[Order[i]] # old[Order[i]]}
<1>1. CASE Bad = {}
  <2>1. PICK i \in DOMAIN Order : Order[i] = p
    BY ConfigureAssumption DEF Package
  <2> QED BY <1>1, <2>1
<1>2. CASE Bad # {}
  <2>1. Bad \in SUBSET Nat
    BY ConfigureAssumption
  <2>2. PICK i \in Bad : \A j \in Bad : i <= j
    BY <1>2, <2>1, MinFacts
  <2> DEFINE q == Order[i]
  <2>3. q \in NeededBy(p) \cup {p} /\ got[q] # old[q] /\ i \in DOMAIN Order /\ i \in Nat
    BY <2>1, <2>2
  <2>4. q \in Tools /\ q \in DOMAIN got /\ q \in DOMAIN old /\ NeededBy(q) \subseteq NeededBy(p)
    BY <2>3, ConfigureAssumption DEF AreIds
  <2>5. ASSUME NEW r \in NeededBy(q) PROVE got[r] = old[r]
    <3>1. PICK j \in 1 .. i - 1 : r = Order[j]
      BY <2>3, ConfigureAssumption
    <3>2. j \in DOMAIN Order /\ ~(i <= j)
      BY <2>3, <3>1, ConfigureAssumption
    <3>3. r \in NeededBy(p)
      BY <2>4
    <3>4. j \notin Bad
      BY <2>2, <3>2
    <3> QED BY <3>1, <3>2, <3>3, <3>4
  <2>6. DepIds(q, got) = DepIds(q, old)
    BY <2>5, DepIdsAgree
  <2>7. HostSide(c, q) = HostSide(d, q)
    BY <2>3, <2>4, HostSideOfNeeded
  <2>8. ConfigureNode(c, q) = ConfigureNode(d, q) /\ TripleFor(c, q) = TripleFor(d, q)
    BY <2>4, <2>7, ToolsAlike
  <2>9. got[q] = IdOf(c, q, ConfigureNode(c, q), got) /\ old[q] = IdOf(d, q, ConfigureNode(d, q), old)
    BY <2>4 DEF AreIds
  <2>10. got[q] = old[q]
    BY <2>6, <2>8, <2>9 DEF IdOf
  <2> QED BY <2>3, <2>10
<1> QED BY <1>1, <1>2

-----------------------------------------------------------------------------
(* What holds of every run.                                                *)

THEOREM ConfigureTypes == Spec => []TypeOK
<1>1. IInv => TypeOK
  BY DEF IInv, TypeOK, PhaseInv, IdsInv, AreIds
<1> QED BY <1>1, ConfigureInvariant, PTL

\* What a run takes under an id, from whichever run before it, is what it would have built
\* itself (build_node, calculate_build_id).
THEOREM CoversTheorem == Spec => []IdCoversBuild
<1>1. IInv => IdCoversBuild
  <2> SUFFICES ASSUME IInv, NEW p \in DOMAIN ids
               PROVE  Covers(context, p, node[p], ids, installed[ids[p]])
    BY DEF IdCoversBuild
  <2>1. /\ p \in Package /\ node[p] = ConfigureNode(context, p)
        /\ ids[p] = IdOf(context, p, ConfigureNode(context, p), ids) /\ ids[p] \in DOMAIN installed
    BY DEF IInv, PhaseInv, NodeInv, IdsInv, AreIds
  <2>2. IsBuilt(ids[p], installed[ids[p]])
    BY <2>1 DEF IInv, InstalledInv
  <2>3. PICK d, q, old :
          /\ q \in Package /\ IsRun(d.given)
          /\ ids[p] = IdOf(d, q, ConfigureNode(d, q), old)
          /\ installed[ids[p]] = BuildOf(d, q, ConfigureNode(d, q), old)
          /\ ConfigureNode(d, q).headers \/ BadRefs(q, ConfigureNode(d, q)) = {}
    BY <2>2 DEF IsBuilt
  <2>4. IdOf(context, p, ConfigureNode(context, p), ids) = IdOf(d, q, ConfigureNode(d, q), old)
    BY <2>1, <2>3
  <2> QED BY <2>1, <2>3, <2>4, SameIdCovers
<1> QED BY <1>1, ConfigureInvariant, PTL

\* A run that fails after its first package is built has met what only a build can tell
\* (preflight, build_node).
THEOREM PreflightTheorem == Spec => []FailsBeforeBuilding
<1>1. IInv => FailsBeforeBuilding
  BY DEF IInv
<1> QED BY <1>1, ConfigureInvariant, PTL

\* Tools of a cross build are built by the host's own compiler, under ids that depend on
\* nothing of the target (compilers_for, configure_node).
THEOREM ToolsTheorem == Spec => []ToolsAreOfTheHost
<1>1. IInv => ToolsAreOfTheHost
  <2> SUFFICES ASSUME IInv, NEW p \in Tools \cap DOMAIN ids, ~context.native
               PROVE  /\ ~node[p].headers
                           => BuildOf(context, p, node[p], ids).compiler = PrintOf(context, "cc")
                      /\ (/\ last # None /\ p \in DOMAIN last.ids /\ ~last.context.native
                          /\ HostSide(last.context, p) = HostSide(context, p)
                          /\ NeededBy(p) \subseteq Tools)
                         => last.ids[p] = ids[p]
    BY DEF ToolsAreOfTheHost
  <2>1. ASSUME ~node[p].headers PROVE BuildOf(context, p, node[p], ids).compiler = PrintOf(context, "cc")
    <3>1. BuildOf(context, p, node[p], ids).compiler = Compiler(context, p)
      BY <2>1 DEF BuildOf
    <3>2. Compiler(context, p) = PrintOf(context, "cc")
      BY DEF Compiler, CompilersFor, IsolateEnv
    <3> QED BY <3>1, <3>2
  <2>2. ASSUME last # None, p \in DOMAIN last.ids, ~last.context.native,
               HostSide(last.context, p) = HostSide(context, p), NeededBy(p) \subseteq Tools
        PROVE  last.ids[p] = ids[p]
    <3>1. AreIds(context, ids) /\ AreIds(last.context, last.ids)
      BY <2>2 DEF IInv, IdsInv, LastInv
    <3> QED BY <2>2, <3>1, ToolIdsAlike
  <2> QED BY <2>1, <2>2
<1> QED BY <1>1, ConfigureInvariant, PTL
=============================================================================
