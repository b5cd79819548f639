------------------------------ MODULE Configure ------------------------------
(***************************************************************************)
(* What a run builds its packages with, and under which ids: from the      *)
(* command line, the preset and the rules (unideps-cli/src/build.rs run,   *)
(* configure_node) to the build id (unideps-core/src/hash.rs) and to the   *)
(* command line of CMake (unideps-builder/src/runners/cmake.rs).  A run    *)
(* takes what it finds under an id, so an id must cover what a build       *)
(* depends on.  An id is the tuple of what is hashed.                      *)
(***************************************************************************)
EXTENDS Naturals, Sequences, FiniteSetsExt

CONSTANTS
  Order,     \* the packages, each after what it needs
  Needs,     \* Needs[p]: all that p needs, directly or not, by name
  Tools,     \* the packages of [tools], the others are of [dependencies]
  Host,      \* the triple of the machine
  Msvc, Android,  \* the triples with that environment, or of that system
  FamilyOf,  \* the family of a compiler by its path, and of the default one of a triple
  RootVar,   \* RootVar[n]: the variable <n>_ROOT, of a name that a package goes by
  Standards,   \* the numbers of C++ standards
  SourceDirs,  \* the directories there are in any sources
  OptionsOf,   \* OptionsOf[p]: the defaults of what p declares before unideps_setup()
  Internal,    \* options whose names match ^(CMAKE_|UNIDEPS_|ANDROID_|_)
  After(_),  \* the runs that may follow a run, or None
  MaxRuns,   \* runs after each other (a bound of the model)
  None

Package == {Order[i] : i \in DOMAIN Order}
NeededBy(p) == {Needs[p][i] : i \in DOMAIN Needs[p]}

\* What `abi_ignores` can name, and the options that are passed on to every dependency.
Ignorable == {"compiler", "vc_runtime", "cxx_std", "cxx_stdlib"}
Forwardable == {"ANDROID_ABI", "ANDROID_STL"}

\* The value of an option: <<"plain", v>>, <<"var", name>>, or <<"prefix", package>>.
IsText(t) == t[1] \in {"plain", "var", "prefix"}

\* What unideps itself sets on the command line of CMake.
CMakeVars == {"CMAKE_CXX_FLAGS", "CMAKE_BUILD_TYPE", "BUILD_SHARED_LIBS",
              "CMAKE_MSVC_RUNTIME_LIBRARY", "CMAKE_CXX_STANDARD", "CMAKE_CXX_EXTENSIONS",
              "CMAKE_INTERPROCEDURAL_OPTIMIZATION", "CMAKE_PREFIX_PATH", "CMAKE_TOOLCHAIN_FILE",
              "CMAKE_CXX_COMPILER"}
RootVars == {RootVar[m] : m \in DOMAIN RootVar}

ASSUME ConfigureAssumption ==
  /\ Order \in Seq(Package)
  /\ Tools \subseteq Package
  /\ \A p \in Package : Needs[p] \in Seq(Package)
  /\ \A p \in Package : \A q \in NeededBy(p) : NeededBy(q) \subseteq NeededBy(p)
  /\ \A i \in DOMAIN Order : NeededBy(Order[i]) \subseteq {Order[j] : j \in 1 .. i - 1}
  /\ Package \subseteq DOMAIN RootVar /\ RootVars \cap CMakeVars = {}
  /\ DOMAIN OptionsOf = Package
  /\ MaxRuns \in Nat

\* What the parser of a manifest lets through.
IsRun(r) ==
  \A p \in Package :
    /\ r.nodes[p].header_only \in BOOLEAN
    /\ r.nodes[p].import \in DOMAIN RootVar \cup {None}
    /\ r.nodes[p].ignores \subseteq Ignorable
    /\ \A k \in DOMAIN r.nodes[p].options : IsText(r.nodes[p].options[k])

VARIABLES
  context,    \* the run and what it works with
  phase,
  node,       \* the packages as configure_node leaves them
  ids,        \* of the packages the run is done with
  built,      \* those that it has built itself
  installed,  \* installed[id]: what the package was built with
  last,       \* a history: the run before, and its ids
  count

vars == <<context, phase, node, ids, built, installed, last, count>>

-----------------------------------------------------------------------------
(* What a run is given.                                                    *)

When(condition, key, value) == IF condition THEN [k \in {key} |-> value] ELSE <<>>

\* Of several maps the first that has a key decides what it is.
Overlaid(maps) ==
  [k \in UNION {DOMAIN maps[i] : i \in DOMAIN maps} |->
     maps[Min({i \in DOMAIN maps : k \in DOMAIN maps[i]})][k]]

FromOptions(o) ==
  Overlaid(<<When("CMAKE_BUILD_TYPE" \in DOMAIN o, "build_type", o["CMAKE_BUILD_TYPE"]),
             When("CMAKE_TOOLCHAIN_FILE" \in DOMAIN o, "toolchain", o["CMAKE_TOOLCHAIN_FILE"])>>)

\* EffectiveConfig::default() without the runtime, which a run derives from its build type.
Defaults == [build_type |-> "Release", shared |-> FALSE, cxx_std |-> None,
             cxx_stdlib |-> "default", lto |-> FALSE]
RuntimeFor(buildType) == IF buildType = "Debug" THEN "MDd" ELSE "MD"

\* target_config: what unideps.local.toml says of a triple goes before the manifest.
TargetConfig(r) == Overlaid(<<r.local, r.system>>)

\* The command line, then the options, the preset and [targets], then the defaults.
Settled(r) ==
  LET s == Overlaid(<<r.args, FromOptions(r.options), r.preset, TargetConfig(r), Defaults,
                      [compiler |-> None, toolchain |-> None, family |-> None]>>)
  IN Overlaid(<<s, [vc_runtime |-> RuntimeFor(s.build_type)]>>)

\* BuildContext: the run and what it makes of that.
IsNative(r, s) == r.target = Host /\ s.toolchain = None
Context(r) ==
  LET s == Settled(r) IN [given |-> r, settled |-> s, native |-> IsNative(r, s)]

TripleFor(c, p) == IF p \in Tools THEN Host ELSE c.given.target

\* compilers_for, with the fault that a tool has the project's compiler, and as it is.
CompilersFor_Projects(c, p) ==
  [compiler |-> c.settled.compiler, toolchain |-> IF p \in Tools THEN None ELSE c.settled.toolchain]
CompilersFor(c, p) ==
  [compiler  |-> IF p \in Tools /\ ~c.native THEN None ELSE c.settled.compiler,
   toolchain |-> IF p \in Tools THEN None ELSE c.settled.toolchain]

FamilyFor(c, p) ==
  IF p \in Tools /\ ~c.native THEN FamilyOf[Host]
  ELSE IF c.settled.family # None THEN c.settled.family
  ELSE IF c.settled.compiler # None THEN FamilyOf[c.settled.compiler]
  ELSE FamilyOf[c.given.target]

\* toolchain_fingerprint: of the files a run names.
PrintOf(c, path) == IF path = None THEN <<>> ELSE <<path, c.given.disk[path]>>
Fingerprint_PathOnly(c, p) == CompilersFor(c, p)
Fingerprint(c, p) ==
  LET cs == CompilersFor(c, p) IN [x \in DOMAIN cs |-> PrintOf(c, cs[x])]

-----------------------------------------------------------------------------
(* configure_node.                                                         *)

\* resolve_for_node: global < cascade of dependents < own cascade < exact.
RulesFor(rules, p) ==
  LET scoped(scope, q) == SelectSeq(rules, LAMBDA u : u.scope = scope /\ u.package = q)
      above == SelectSeq(Order, LAMBDA d : p \in NeededBy(d))
      cascade[n \in 0 .. Len(above)] ==
        IF n = 0 THEN <<>> ELSE cascade[n - 1] \o scoped("cascade", above[n])
  IN scoped("global", None) \o cascade[Len(above)] \o scoped("cascade", p) \o scoped("exact", p)

ApplyRule(config, rule) == [set     |-> Overlaid(<<rule.set, config.set>>),
                            flags   |-> config.flags \cup rule.flags,
                            options |-> Overlaid(<<rule.options, config.options>>)]
Applied(rules, base) ==
  LET applied[n \in 0 .. Len(rules)] ==
        IF n = 0 THEN base ELSE ApplyRule(applied[n - 1], rules[n])
  IN applied[Len(rules)]

\* What the rules start from.  Nothing of the target's settings is a tool's.
Base(c, p) ==
  IF p \in Tools THEN [set |-> Overlaid(<<Defaults, [vc_runtime |-> "MD"]>>), flags |-> {}, options |-> <<>>]
  ELSE [set |-> [shared |-> FALSE, build_type |-> c.settled.build_type, lto |-> c.settled.lto,
                 cxx_std |-> c.settled.cxx_std, cxx_stdlib |-> c.settled.cxx_stdlib,
                 vc_runtime |-> c.settled.vc_runtime],
        flags |-> c.given.flags, options |-> <<>>]

Config(c, p) == Applied(RulesFor(c.given.rules, p), Base(c, p))

\* The node's own options, and for a dependency what the project has for all of them.
OwnOptions(c, p) ==
  IF p \in Tools THEN c.given.nodes[p].options
  ELSE Overlaid(<<c.given.nodes[p].options,
                  [k \in Forwardable \cap DOMAIN c.given.options |-> <<"plain", c.given.options[k]>>],
                  When(c.given.target \in Android, "ANDROID_ABI", <<"plain", c.given.target>>)>>)

\* expand_vars: an undefined variable is an error.
Expand(values, options) ==
  [k \in DOMAIN options |->
     IF options[k][1] = "var" THEN <<"plain", values[options[k][2]]>> ELSE options[k]]
Refers(options, kind) == {options[k][2] : k \in {k \in DOMAIN options : options[k][1] = kind}}
Undefined(c, p) ==
  (Refers(OwnOptions(c, p), "var") \cup Refers(Config(c, p).options, "var")) \ DOMAIN c.given.options

ConfigureNode(c, p) ==
  LET config == Config(c, p)
      given == c.given.nodes[p]
  IN [source  |-> <<p, given.source>>,
      shared  |-> IF given.shared = None /\ p \notin Tools THEN c.given.shared ELSE given.shared,
      headers |-> given.header_only,
      ignores |-> given.ignores,
      family  |-> FamilyFor(c, p),
      prints  |-> Fingerprint(c, p),
      set     |-> config.set,
      flags   |-> config.flags,
      rules   |-> Expand(c.given.options, config.options),
      options |-> Expand(c.given.options, OwnOptions(c, p))]

IsShared(n) == IF n.shared = None THEN n.set.shared ELSE n.shared

-----------------------------------------------------------------------------
(* calculate_build_id, for a node n that was configured for the triple t.  *)

Unless(ignored, value) == IF ignored THEN <<>> ELSE <<value>>

BuildId(n, t, deps) ==
  [source |-> n.source, target |-> t, headers |-> n.headers, shared |-> IsShared(n),
   family |-> Unless("compiler" \in n.ignores, n.family),
   prints |-> Unless("compiler" \in n.ignores, n.prints),
   vc_runtime |-> Unless(t \notin Msvc \/ "vc_runtime" \in n.ignores, n.set.vc_runtime),
   cxx_std    |-> Unless("cxx_std" \in n.ignores, n.set.cxx_std),
   cxx_stdlib |-> Unless("cxx_stdlib" \in n.ignores, n.set.cxx_stdlib),
   build_type |-> n.set.build_type, lto |-> n.set.lto, flags |-> n.flags,
   rules |-> n.rules, options |-> n.options, deps |-> deps]

\* What is known of a package p: its context, its node and the ids there are.
DepIds(p, got) == [i \in DOMAIN Needs[p] |-> got[Needs[p][i]]]
IdOf(c, p, n, got) == BuildId(n, TripleFor(c, p), DepIds(p, got))

-----------------------------------------------------------------------------
(* What it is built with.  A prefix is named by its build id.              *)

\* cmake_definitions: the rules' options go before the node's, and references to a prefix
\* are replaced.
Joined(n) == Overlaid(<<n.rules, n.options>>)
Definitions(n, got) ==
  [k \in DOMAIN Joined(n) |->
     IF Joined(n)[k][1] = "prefix" THEN <<"prefix", got[Joined(n)[k][2]]>> ELSE Joined(n)[k]]
BadRefs(p, n) == Refers(Joined(n), "prefix") \ NeededBy(p)

\* dep_root_vars: under a package's name and its import_name; of two the first.
NamesOf(c, d) == {d} \cup ({c.given.nodes[d].import} \ {None})
Names(c, p) == [d \in NeededBy(p) \ Tools |-> NamesOf(c, d)]
Hinted(c, p, v) ==
  {i \in DOMAIN Needs[p] : Needs[p][i] \notin Tools /\ v \in {RootVar[m] : m \in NamesOf(c, Needs[p][i])}}
Hints(c, p, got) ==
  [v \in {v \in RootVars : Hinted(c, p, v) # {}} |-> <<"prefix", DepIds(p, got)[Min(Hinted(c, p, v))]>>]

Prefixes(p, got, ofTools) ==
  LET chosen == SelectSeq([i \in DOMAIN Needs[p] |-> i], LAMBDA i : (Needs[p][i] \in Tools) = ofTools)
  IN [k \in DOMAIN chosen |-> DepIds(p, got)[chosen[k]]]

\* parse_cxx_std, of a standard <<"c++", "20">>, where "" and "gnu++" may stand before the
\* number, which may be a draft's.
Drafts == [d \in {"2a", "2b"} |-> IF d = "2a" THEN "20" ELSE "23"]
StandardOf(std) ==
  [number     |-> IF std[2] \in DOMAIN Drafts THEN Drafts[std[2]] ELSE std[2],
   extensions |-> IF std[1] = "gnu++" THEN "ON" ELSE "OFF"]
IsInvalid(std) == std # None /\ StandardOf(std).number \notin Standards
StandardArgs(std) ==
  IF std = None THEN <<>>
  ELSE [CMAKE_CXX_STANDARD   |-> <<"plain", StandardOf(std).number>>,
        CMAKE_CXX_EXTENSIONS |-> <<"plain", StandardOf(std).extensions>>]

\* configure_args: what is in `definitions` comes last on the command line and wins, but
\* for the flags, which are joined.
FlagsOf(n, defs) ==
  n.flags \cup (IF "CMAKE_CXX_FLAGS" \in DOMAIN defs THEN {defs["CMAKE_CXX_FLAGS"][2]} ELSE {})
          \cup (IF n.set.cxx_stdlib = "default" THEN {} ELSE {n.set.cxx_stdlib})
ArgMaps(c, p, n, got) ==
  LET defs == Definitions(n, got)
      flags == FlagsOf(n, defs)
      paths == Prefixes(p, got, FALSE)
      cs == CompilersFor(c, p)
  IN <<When(flags # {}, "CMAKE_CXX_FLAGS", <<"flags", flags>>),
       defs,
       Hints(c, p, got),
       [CMAKE_BUILD_TYPE |-> <<"plain", n.set.build_type>>,
        BUILD_SHARED_LIBS |-> <<"plain", IF IsShared(n) THEN "ON" ELSE "OFF">>],
       When(TripleFor(c, p) \in Msvc, "CMAKE_MSVC_RUNTIME_LIBRARY", <<"plain", n.set.vc_runtime>>),
       StandardArgs(n.set.cxx_std),
       When(n.set.lto, "CMAKE_INTERPROCEDURAL_OPTIMIZATION", <<"plain", "ON">>),
       When(paths # <<>>, "CMAKE_PREFIX_PATH", <<"prefixes", paths>>),
       When(cs.toolchain # None, "CMAKE_TOOLCHAIN_FILE", <<"plain", cs.toolchain>>),
       When(cs.toolchain = None /\ cs.compiler # None, "CMAKE_CXX_COMPILER", <<"plain", cs.compiler>>)>>
ConfigureArgs(c, p, n, got) == Overlaid(ArgMaps(c, p, n, got))

\* The environment is the consumer's, CC and all, except for a tool of a cross build.
IsolateEnv_Never(c, p) == FALSE
IsolateEnv(c, p) == p \in Tools /\ ~c.native

\* The compiler that CMake ends up with, as it is at the time.
Compiler(c, p) ==
  LET cs == CompilersFor(c, p)
  IN IF cs.toolchain # None THEN PrintOf(c, cs.toolchain)
     ELSE IF cs.compiler # None THEN PrintOf(c, cs.compiler)
     ELSE IF IsolateEnv(c, p) \/ c.given.env = None THEN PrintOf(c, "cc")
     ELSE PrintOf(c, c.given.env)

\* install_headers, or CMake; with the names the dependencies went by, a history.
IncludeDirs(c, p) == IF c.given.nodes[p].include = {} THEN {"include"} ELSE c.given.nodes[p].include
BuildOf(c, p, n, got) ==
  IF n.headers THEN [source |-> n.source, headers |-> IncludeDirs(c, p)]
  ELSE [source |-> n.source, headers |-> {}, args |-> ConfigureArgs(c, p, n, got),
        compiler |-> Compiler(c, p), path |-> Prefixes(p, got, TRUE), names |-> Names(c, p)]

-----------------------------------------------------------------------------
(* The options that decide which packages of p's own manifest are enabled.  *)

\* What CMake has for the options of p when it configures it.
OptionValues(c, p, n, got) ==
  LET args == ConfigureArgs(c, p, n, got)
  IN [k \in DOMAIN OptionsOf[p] |-> IF k \in DOMAIN args THEN args[k] ELSE <<"plain", OptionsOf[p][k]>>]

\* What unideps_setup() writes of them.
Collected(values) == [k \in DOMAIN values \ Internal |-> values[k]]

\* probe_options: a configure with the arguments of the build.
ProbeOptions(c, p, n, got) == Collected(OptionValues(c, p, n, got))

\* build_nested: the rules' options go before these, and the node's before the rules'.
NestedOptions(c, p, n, got) == Overlaid(<<n.options, n.rules, ProbeOptions(c, p, n, got)>>)

-----------------------------------------------------------------------------
Init ==
  /\ context = None
  /\ phase = "idle"
  /\ node = <<>> /\ ids = <<>> /\ built = {}
  /\ installed = <<>>
  /\ last = None
  /\ count = 0

\* run() up to "Toolchain file not found".
Start ==
  /\ phase = "idle" /\ count < MaxRuns
  /\ \E r \in After(IF last = None THEN None ELSE last.context.given) :
       /\ IsRun(r)
       /\ context' = Context(r)
       /\ phase' = IF Settled(r).toolchain \in DOMAIN r.disk \cup {None} THEN "preflight" ELSE "failed"
  /\ node' = <<>> /\ ids' = <<>> /\ built' = {}
  /\ count' = count + 1
  /\ UNCHANGED <<installed, last>>

\* preflight: every package is configured, with a fault and as it is.  build_node does it
\* again, to the same effect.
Preflights_First(p) == p = Order[1]
Preflights(p) == TRUE

Preflight ==
  /\ phase = "preflight"
  /\ phase' = IF \E p \in Package : Preflights(p) /\ Undefined(context, p) # {} THEN "failed" ELSE "build"
  /\ node' = [p \in {p \in Package : Undefined(context, p) = {}} |-> ConfigureNode(context, p)]
  /\ UNCHANGED <<context, ids, built, installed, last, count>>

\* The package that is next in the order of the graph, if build_node can configure it.
IsNext(p) ==
  /\ phase = "build" /\ p \notin DOMAIN ids
  /\ \A i, j \in DOMAIN Order : Order[j] = p /\ i < j => Order[i] \in DOMAIN ids
NextId(p) == IdOf(context, p, node[p], ids)

With(map, key, value) == [k \in DOMAIN map \cup {key} |-> IF k = key THEN value ELSE map[k]]

\* build_node: installed under this id, by whichever run.
Hit(p) ==
  /\ IsNext(p) /\ p \in DOMAIN node
  /\ NextId(p) \in DOMAIN installed
  /\ ids' = With(ids, p, NextId(p))
  /\ UNCHANGED <<context, phase, node, built, installed, last, count>>

\* What goes wrong only when a package is built: a reference to what is not built before it,
\* a standard there is not, a header directory that is not in its sources.
CannotBuild(p) ==
  IF node[p].headers THEN ~(IncludeDirs(context, p) \subseteq SourceDirs)
  ELSE BadRefs(p, node[p]) # {} \/ IsInvalid(node[p].set.cxx_std)

Build(p) ==
  /\ IsNext(p) /\ p \in DOMAIN node
  /\ NextId(p) \notin DOMAIN installed
  /\ ~CannotBuild(p)
  /\ installed' = With(installed, NextId(p), BuildOf(context, p, node[p], ids))
  /\ built' = built \cup {p}
  /\ ids' = With(ids, p, NextId(p))
  /\ UNCHANGED <<context, phase, node, last, count>>

Fail(p) ==
  /\ IsNext(p)
  /\ p \in DOMAIN node => NextId(p) \notin DOMAIN installed /\ CannotBuild(p)
  /\ phase' = "failed"
  /\ UNCHANGED <<context, node, ids, built, installed, last, count>>

Finish ==
  /\ phase \in {"build", "failed"}
  /\ phase = "build" => DOMAIN ids = Package
  /\ phase' = "idle"
  /\ last' = [context |-> context, ids |-> ids]
  /\ UNCHANGED <<context, node, ids, built, installed, count>>

Next ==
  \/ Start \/ Preflight \/ Finish
  \/ \E p \in Package : Hit(p) \/ Build(p) \/ Fail(p)

Spec == Init /\ [][Next]_vars

-----------------------------------------------------------------------------
TypeOK ==
  /\ phase \in {"idle", "preflight", "build", "failed"}
  /\ DOMAIN node \subseteq Package /\ DOMAIN ids \subseteq DOMAIN node /\ built \subseteq DOMAIN ids
  /\ \A p \in DOMAIN ids : NeededBy(p) \subseteq DOMAIN ids /\ ids[p] \in DOMAIN installed
  /\ count \in 0 .. MaxRuns

\* What a package asks its id to leave out.
Excused(n) ==
  {v \in {"CMAKE_CXX_COMPILER", "CMAKE_TOOLCHAIN_FILE"} : "compiler" \in n.ignores}
    \cup {v \in {"CMAKE_MSVC_RUNTIME_LIBRARY"} : "vc_runtime" \in n.ignores}
    \cup {v \in {"CMAKE_CXX_STANDARD", "CMAKE_CXX_EXTENSIONS"} : "cxx_std" \in n.ignores}
    \cup {v \in {"CMAKE_CXX_FLAGS"} : "cxx_stdlib" \in n.ignores}

\* Two command lines of CMake set the same variables to the same values, but for the
\* excused ones.
SameArgs(a, b, excused) ==
  \A v \in (DOMAIN a \cup DOMAIN b) \ excused : v \in DOMAIN a \cap DOMAIN b /\ a[v] = b[v]

\* A hint is the run's own, or names one of the prefixes that the run has.
HintsAreOurs(a, b, prefixes) ==
  \A v \in DOMAIN b \cap RootVars : (v \in DOMAIN a /\ a[v] = b[v]) \/ b[v] \in prefixes

\* What was built may stand for what the context would build of a package: with the same
\* arguments, against the same dependencies, with the same tools in PATH and with the same
\* compiler as it is on disk, if the run names one.  The import_name of a dependency is no
\* part of an id, so hints may be those of other names.
Covers(c, p, n, got, found) ==
  LET mine == BuildOf(c, p, n, got)
      cs == CompilersFor(c, p)
  IN /\ n.source = found.source
     /\ n.headers <=> found.headers # {}
     /\ ~n.headers =>
          /\ SameArgs(mine.args, found.args,
                      Excused(n) \cup (IF mine.names = found.names THEN {} ELSE RootVars))
          /\ HintsAreOurs(mine.args, found.args, {<<"prefix", got[d]>> : d \in NeededBy(p) \ Tools})
          /\ mine.path = found.path
          /\ "compiler" \notin n.ignores /\ (cs.toolchain # None \/ cs.compiler # None)
               => mine.compiler = found.compiler

\* What a run takes under an id is what it would build itself (build.rs:681-700, hash.rs:118-223).
IdCoversBuild == \A p \in DOMAIN ids : Covers(context, p, node[p], ids, installed[ids[p]])

\* What a run has for a tool, besides the target.
HostSide(c, p) ==
  <<c.given.rules, c.given.options, [q \in NeededBy(p) \cup {p} |-> c.given.nodes[q]]>>

\* Tools of a cross build are built for the host with its own compiler, and shared by all
\* targets, whatever these have for compilers, presets and flags (build.rs:166-180, 196-205).
ToolsAreOfTheHost ==
  \A p \in Tools \cap DOMAIN ids :
    ~context.native =>
      /\ ~node[p].headers => BuildOf(context, p, node[p], ids).compiler = PrintOf(context, "cc")
      /\ (/\ last # None /\ p \in DOMAIN last.ids /\ ~last.context.native
          /\ HostSide(last.context, p) = HostSide(context, p)
          /\ NeededBy(p) \subseteq Tools)
         => last.ids[p] = ids[p]

\* A run that fails with something built has met what only a build can tell: undefined
\* variables and missing toolchains are found before (build.rs:373-374, 395-397).
FailsBeforeBuilding ==
  phase = "failed" /\ built # {} =>
    /\ DOMAIN node = Package
    /\ \E p \in Package \ DOMAIN ids : CannotBuild(p)

\* "report configuration errors of all packages" before the first build (build.rs:373).
NothingBuiltInVain == phase = "failed" => built = {}

\* "Keeps the relative layout because the generator resolves `include_dirs` against the
\* install prefix" (build.rs:934): what the consumer is told to include is there.
HeadersAreThere ==
  \A p \in DOMAIN ids :
    node[p].headers => IncludeDirs(context, p) \subseteq installed[ids[p]].headers

\* "`enabled_if` refers to the options of the package itself, i.e. its own `option()` defaults
\* overridden by what it is configured with" (build.rs:513-514): the conditions of its manifest
\* see the options as its configure has them.
EnabledAsConfigured ==
  \A p \in DOMAIN ids \ Tools : ~node[p].headers =>
    LET values == OptionValues(context, p, node[p], ids)
        seen == NestedOptions(context, p, node[p], ids)
    IN \A k \in DOMAIN Collected(values) : seen[k] = values[k]
=============================================================================
