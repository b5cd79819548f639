# unideps, specified

unideps builds C and C++ dependencies from source into a storage directory that
any number of projects, and any number of concurrent `unideps` processes,
share. This directory holds TLA+ specifications of it, the TLC configurations
that check them on small instances, and theorems that TLAPS proves for every
instance. Paths below are relative to `src/crates/` unless they start with
`src/`.

- [The system](#the-system): its parts, and what is hard about each
- [Modules](#modules): which module models what, and how it maps to the code
- [Runs](#runs): what TLC checks, with which bounds and which fairness
- [Proofs](#proofs): what is proved, from which assumptions, along which argument
- [Where code and documentation differ](#where-code-and-documentation-differ)
- [Not modelled](#not-modelled) and [Plan](#plan)

## The system

| part | state | operations | interacts with |
|---|---|---|---|
| lock files (`unideps-builder/src/lock.rs`) | a file per lock, never deleted | acquire, acquire_shared, drop | everything that shares the storage |
| storage and build runs (`unideps-cli/src/build.rs`, `main.rs`; `unideps-builder/src/storage.rs`; `unideps-cache/src/packager.rs`) | install prefixes with a marker, archives, scratch directories, records; of a run its stack of projects and what it has got | `build`, `clean`, death at any moment | locks, records, sources, the consumer's targets file |
| git checkouts (`unideps-builder/src/git.rs`) | one clone per URL and ref: HEAD, marker, files, submodules | fetch_and_checkout (look, sync, restore) | the remote, git, people who edit the tree |
| prepared sources (`unideps-cli/src/source.rs`, `unideps-builder/src/patch.rs`) | the checkout, patched copies with a marker | resolve a floating ref, prepare, compile from it, `fetch` | checkouts, build runs |
| resolution records (`unideps-builder/src/resolution.rs`, `unideps-core/src/hash.rs`) | one JSON file per package and key | load, store | settings of a run, prefixes |
| graph and strategy (`unideps-core/src/graph.rs`, `strategy.rs`; `unideps-cli/src/project.rs`) | petgraph nodes and edges, a map of indices | build, filter, connect, order, preflight, build ids | manifests, build runs |
| settings (`unideps-cli/src/build.rs`, `util.rs`; `unideps-core/src/hash.rs`; `unideps-builder/src/runners/cmake.rs`) | of a run its context, of a package its configured node; prefixes by build id | settle, configure, hash, probe for options, build with CMake | command line, preset, rules, the environment, files on disk |
| declarations (`project.rs`, `graph.rs`, `unideps-core/src/manifest.rs`) | one node's fields | manifest, recipe, two override layers, validate | recipe files, `.local.toml` |
| generated CMake: subdirectory packages (`unideps-cmake/src/generator.rs`, `src/cmake/unideps.cmake`) | CMake variables and global properties of a configure | add packages, set and restore variables, include nested files | the consumer's CMake |
| generated CMake: installed packages (`generator.rs`; `merge_nested` of `build.rs`) | the consumer's CMake cache, which outlives a configure; targets and links of one | drop stale entries, find or synthesise packages, link them | prefixes, the user, the consumer's CMake |
| recipe engine, parsing of manifests and triples, logs | none that outlives a call | | |

What is hard about them, and the properties that make each correct (`hazards`
in `PROJECT.json` lists every one with its line):

- **Storage.** Processes interleave at three kinds of locks, die between any two
  steps, and look at prefixes before they hold the lock. A prefix with a marker
  must be complete, an installed one must not change under a run, nobody may
  work in a directory that somebody deletes, what is handed to the consumer must
  be complete whichever way a package was found, and nobody may wait for ever.
- **Checkouts.** git commands fail or are killed half way, the remote moves,
  people edit the tree. What is returned must be the commit that was asked for,
  and a leftover must not make every later call fail.
- **Sources.** The checkout and the patched copies are read without a lock while
  other runs write them. What is compiled must be the commit in the key.
- **Records.** A record is believed without fetching anything, so its key has to
  cover everything that it answers for, and its prefixes must still be there.
- **Graph.** Removing a node moves another to its index; mistakes must be found
  before anything is built and not where the package is disabled.
- **Declarations.** Four layers say something of a source, a revision and a
  path, each relative to its own directory.
- **Settings.** What a run finds under a build id it takes. Values come from the
  command line, `unideps.local.toml`, the preset, the rules, the environment and
  the files these name, by a different road for tools; each must be in the id if
  it reaches the compiler, and the id must not have more than that.
- **Generated CMake.** Variables are set around `add_subdirectory` and put back,
  recursively, by a file that may be included again while it runs. Installed
  packages are looked for by names that several may go by, in prefixes of which
  one may bundle another, next to what the cache has from an earlier run.

## Modules

| module | models | composed of |
|---|---|---|
| `RwLock` | what callers rely on of a lock (abstract) | |
| `FileLock` | `lock.rs`: open, flock, unlock, close, with inodes; proofs in `InstallProofs` | refines `RwLock` |
| `Store` | what users of the storage rely on (abstract): runs enter, packages are installed after what they need, installed ones go only when no run is there, and what a run is given serves what it has | |
| `Install` | all `build` and `clean` processes over one storage | refines `Store`; its build.lock refines `RwLock` |
| `InstallInv`, `InstallProofs` | its inductive invariant; the proof and the consequences | |
| `Checkout`, `CheckoutProofs` | one call after another of `fetch_and_checkout` on one directory | |
| `Sources`, `SourcesProofs` | several runs that resolve, check out, patch and compile one package | uses the contract that `Checkout` establishes |
| `Records`, `RecordsProofs` | keys and records of a package with a nested manifest | |
| `Plan`, `PlanProofs` | from a manifest to build ids | |
| `Layers`, `LayersProofs` | the declaration of one dependency | |
| `Configure`, `ConfigureProofs` | one run after another: from its settings to build ids and to the arguments of CMake | takes the order and the needs from `Plan` as constants |
| `Subdirs` | CMake running generated files with subdirectory packages | |
| `Imports` | one configure after another of a consumer that imports installed packages | a subdirectory package is one step of it, `Subdirs` has the details |
| `GeneratedProofs` | proofs about `Subdirs` and `Imports` | |
| `MC*` | instances for TLC | |

`map` in `PROJECT.json` gives, for every definition, the lines it stands for.
Definitions with a suffix (`SlotFree_UpgradesRunLock` next to `SlotFree`) are
plausible faults of that definition; no specification uses them, and for every
property there is one that breaks it.

### FileLock and RwLock

A handle opens the file by name (a new inode if there is none), waits for flock,
and on drop unlocks and closes. An inode is what is locked, so a lock file that
was deleted on release would let two holders in: that is the fault
`FileAfterDrop_Deleted`, and the comment at `lock.rs:6`. A process that dies
loses its handles. Other modules use `RwLock`'s two sets (`shared`, `excl`).

### Install and Store

Variables and what they are on disk or in a process:

| variable | code |
|---|---|
| `prefix[p]` | `installed/<name>-<id>`: its files, and the marker `.unideps-complete` among them |
| `archive[p]` | `cache/<name>-<id>.tar.zst`: absent, good, or damaged; and what it unpacks to |
| `record[p]` | the file in `resolved/`: the nested packages that it names, or none |
| `scratch` | build trees (package, no run) and probe trees (package, run: the pid in the name) |
| `shared`, `excl` | build.lock |
| `pkgLock`, `slot` | the lock of a package, the one build slot |
| `pc[r]`, `cur[r]`, `pulled[r]` | where a run is in `build_node`; the node it is at; what the manifest of that node has pulled in (`Nested` of `build_nested`) |
| `stack[r]` | its projects, the outermost last: whose manifest it is (none for its own), and what `build_project` has collected, node by node: the node and what came with it (`Built`) |
| `cpc[c]` | a `clean` |

One action per step of `build_node` between two effects that other processes can
see: the lookup of a record, the source and the nested manifest (`Descend`,
`FinishNested`), the first look without the lock, the lock, the second look, the
removal of the prefix, unpacking, discarding a damaged archive, the build slot,
compile, install, pack, mark, tidy, done. `Abort` and `AbortClean` are an error
or a death at any of them; every lock the process had is released, as Drop and
the operating system do. `DeletePrefix` is a user who removes a prefix by hand,
`CorruptArchive` the disk. A package is one directory
name, `<name>-<build id>`: two runs that compute the same id share it, ids that
differ are different packages, which may have one name (`NameOf`).

A build id has the ids of all that the package is built against, so that
constants can give each package its dependencies (`Deps`, transitively) and its
manifest's graph (`Manifest`), and each run its own graph, both as sequences in
the order of `topological_order` (`OrderAssumption`). `Nested[p]`, the packages
of the manifest whose ids are hashed into p's (`build.rs:726`), is what
`merge_nested` makes of the manifest's graph when every node brings its own
nested packages (`NestedAssumption`). The actions do not use it: what a manifest
pulls in is what the run has collected from records, other runs' installs and own
builds (`Merged`), and that this is what the id was computed from is part of
`BuiltAgainstComplete`.

`Merged` keeps one package of every name: the project's own nodes, of the others
the first. What a run has got is therefore not closed: a nested package `p` may
have been built against a `zlib` that lost to the project's. `Serves` says what is
kept: of everything that a package needs there is one of that name. `GotIsWhole`
says it of all that a run has collected; `HandedOnIsWhole` of what each finished
project hands on, which in addition has each name once, and for a node of the
project exactly the packages that the node depends on.

`Store` has three variables, `installed`, `live` and what each run has `got`. A
run takes packages when they are installed and served, and may give one up if
another one of its name stays. `StoreSpec` says that `Install`, with its locks,
half-filled prefixes, archives, records, stacks of manifests and crashes,
implements it: `FinishNested` gives up what `merge_nested` drops.

### Checkout

One directory and the calls on it, one after another (the source lock; `Sources`
has the concurrency). `repo/head/marker/fetched/locked` are the clone,
`tree/junk/subs` the files, `pc/target/mode` the call. `mode` is what the code
has by control flow: an update of a clone that was there, a clone git could not
read, or a new one, which is deleted when the call fails. Any git command may
fail (`Fail`, `FailUpdate`; `Misread` when the failure is read as "invalid" or
"out of date"), the process may die anywhere (`Crash`), with git in the middle
of its reset if it comes to that, and people or builds may edit the tree
between calls. One submodule stands for all.

### Sources

Runs of `build` and of `fetch` of one package. Checkout's contract is taken over: a call in the source
lock leaves a pristine tree alone, or resets it to the commit it returns. The
rest is as in `source.rs`: floating refs are resolved first and their commit is
the key; pinned ones are checked out when built; patched copies are made under
a lock of their own in a temporary directory and renamed, marker included. `Copy`
and the compile read what is there at their beginning and at their end, and have
mixed it if that differs. `renames` says whether the rename works at all; if
not, the code copies (`Rename` to "spill"), with the marker in any order. A
`fetch` takes the same steps up to the checkout (`AfterBase`): it hashes nothing
and compiles nothing, but it moves the checkout others read from.

### Records

A build id is what is hashed into it, as a function. `fixed[p]` are the settings
that p's declaration sets for itself or that its hash leaves out, so that
`Hashed(p, s)` does not have them. `outer` has a manifest with `inner`; the
record is kept under the id that outer has with no nested packages, and says
which id inner had.

### Plan

`declare` (overrides and names that are declared twice included), the two
filters (`EvalCondition` of `enabled_if` over the options, `MatchesAllFilters` of
the platforms over the names the target has) with petgraph's `remove_node` (the last node takes the index of the one
removed) and `rebuild_indices`, `connect_graph` with its errors, `toposort`,
`preflight`, and `build_node` for its ids and rules. The sort is any topological
order. A build id is the package, the rules applied and the ids of what it
needs.

### Layers

For every field, which layer its value is from, and which directory a path was
resolved against. The four steps are the four functions of the code, in its
order.

### Configure

`Start` settles what a run is given, each value from the first of its sources
that has one; `Preflight` configures every package (`ConfigureNode`: the rules of
all scopes in order, the options a dependency is forwarded, undefined
variables); then, package by package, a `Hit` takes what is installed under the
id, and a `Build` installs what `BuildOf` says. `BuildId` has the fields of
`calculate_build_id` (a source is identified with its package's name),
`ConfigureArgs` the variables on the command line of CMake, where the last
definition of a name wins: `ArgMaps` lists them with the last first, and
`Overlaid` gives a name the value of the first map that has it. `BuildOf` also
keeps, as a history, the names by which the dependencies were hinted at.
`given.disk` is what the files named by a run contain, which may change between
runs. `NestedOptions` is what the conditions of a package's own manifest are
decided with, from `ProbeOptions`.

### Imports

`Generate` stands for a run: `Merged` makes one list of what it built and what the
manifests of these pulled in. The generated file then drops stale `_DIR` entries
(`DropStale`), and imports package by package: `ImportFound` tries names as
`find_package(CONFIG)` searches for them (the entry, `<name>_ROOT`,
`CMAKE_PREFIX_PATH`), `ImportAuto` synthesises a target from the libraries of the
prefix, listed in any order, and links it. Between configures the user may set
entries and wipe prefixes.

### Subdirs

A stack of directories that CMake reads, each a scope of variables that begins
as a copy of the one that adds it. The block of a package saves, sets, adds, and
restores one variable at a time; `unideps_setup()` of a package includes the
file that `UNIDEPS_NESTED_TARGETS` names in its scope.

## Runs

TLC stops each run with its whole state space explored.

| run | states | checks |
|---|---|---|
| `filelock` | 174 | three handles: no two hold the lock in conflicting modes; the file implements `RwLock` |
| `install` | 152 000 | two runs and a `clean`: a prefix with a marker, and an archive that unpacks, are complete; one writer per prefix; scratch directories in use stay; an installed prefix does not change under a run; every build and every `clean` that begins to wait ends |
| `install_nested` | 1 358 000 | manifests that name different packages of one name, and a second run that builds one of these: packages are built and probed against complete prefixes, and those that their ids name; what a run has got is installed, and serves what it has; what is handed on has each name once, serves itself and has the whole graph; `Store` is implemented |
| `checkout` | 133 000 | what a call returns is what was asked for, whole; clones are kept; calls recover |
| `sources` | 836 000 | three builds and a fetch: pinned packages are compiled from their commit, patched trees with a marker are whole |
| `records` | 49 000 | branches are followed; a package that a run goes on with is there; a record is fresh if its key covers what it answers for |
| `plan` | 434 000 | a manifest is refused if and only if it cannot be built, before anything is built; edges, build ids and cascade rules are those of the names; there is always a verdict |
| `layers` | 248 000 | source, revision, fields and paths are of the highest layer that sets them |
| `configure` | 210 000 | what is taken under an id is what would be built; tools are the host's; what can be told before building is |
| `configure_nested` | stops at a violation | see below |
| `subdirs` | 41 000 | packages are read with their values and added once, the project's values come back, the configure ends |
| `imports` | 26 000 | a package is found in its own prefix, or where an entry of the cache points that is none of an earlier run; a synthesised one stands for the right library and links to what its manifest names |

The types (`TypeOK`) of `FileLock`, `Install`, `Checkout`, `Sources`, `Records`,
`Plan`, `Layers`, `Configure` and `Imports` are proved, so no run lists them.

### Bounds

- `install`: two runs, one `clean`, two packages, three starts of processes in
  all. One run has `outer`, and reaches `inner` through its manifest; the other
  declares `inner` itself. Two runs meet at the locks of `inner`, at the build slot
  and at build.lock; the third start is a process that comes after one has died or
  ended. `inner` is installed by copying headers, `outer` is compiled. One file per
  package is enough for a prefix to be empty, filled and marked; the proofs are
  for any number.
- `install_nested`: four packages, of which `early` and `late` have one name.
  `inner` has `early` in its manifest; that of `outer` has `late` and `inner`, so
  that there `early` loses to a node of the manifest, and in the project, which
  has both, `late` loses to `early`, the first. The other run has `late` for its
  project. Two starts: the two runs at once, or one after another, also the same
  one, which then finds records, and prefixes of which some were deleted. All are
  installed by copying headers, and nothing is cleaned: that is `install`'s subject.
- `checkout`: three commits (two with different submodules, one with none), two
  moves, three faults or edits: a fault in a call, one in the call that repairs
  it, and an edit.
- `sources`: three builds and a fetch, four starts, one move: one run that reads,
  one that writes, one that waits, and one that dies. Builds are symmetric.
- `records`: two settings of two values, two revisions, four steps: a record, a
  deletion or move, and two runs.
- `plan`: every manifest of four packages with up to five references, of every
  kind. Three of them have a condition or a platform filter, of every form that
  there is (`||` over `&&`, negation, a value, an option nobody has; positive and
  negative names), and up to three are dropped.
- `layers`: everything that the four layers can say of sources and revisions,
  and of sources and the other fields.
- `configure`: a package with a dependency and a tool. The first run is any that
  differs from a plain native one in at most two respects (target, command line,
  preset, local file, options, rules of every scope, environment, contents of a
  file, any field of a node), the second any that differs from the first in one:
  a setting that is missing in an id shows when it alone changes, and what
  decides between two sources of a setting when both are there.
- `imports`: two configures of a build directory, eight lists of packages (with
  other versions, a bundled copy of a config, names that differ in case or are
  shared, nested packages), six kinds of site. `m` is looked up by nobody, its entry
  is there to be left alone.
- `subdirs`: two packages; every mix of nested files, settings of two variables,
  calls of `unideps_setup()` and who runs CMake. Directories four deep are one
  more than any manifested project needs.

`CHECK_DEADLOCK FALSE` stands in every run since each of these systems ends: a
package is built, the processes have all been started, the calls have all
returned.

### Fairness

- `install` has weak fairness of every process's next step, which is what a
  scheduler and compilers that end give: flock promises no order among waiters,
  so no strong fairness of taking a lock is assumed. `RunsEnd` and `CleansEnd`
  hold all the same since only finitely many processes start: against builds
  that are started without end `clean` may wait for ever, and nothing in the
  code prevents that.
- `checkout` has weak fairness of the steps of a call, and strong fairness of a
  removal that comes to its end; a call is not obliged to be made, and faults
  stop at their bound.
- `plan` and `subdirs` have weak fairness of their next step: a program runs on.

## Proofs

`tlapm` proves all of them, with no obligation left out. The theorems are for
any number of processes, packages, files, commits, settings and runs.

| module | theorems |
|---|---|
| `InstallProofs` | of `FileLock`, `LockExcludes` (`Exclusion`) and `LockFileIsRwLock` (`RwLockSpec`); `InstallInvariant`; types, markers, archives, writers, the build slot, no rebuild of what is installed, what a run has got (`GotTheorem`) and hands on (`HandedOnTheorem`), scratch, what packages are built against, finality of prefixes, `RunLockTheorem`, `StoreTheorem` |
| `CheckoutProofs` | `CheckoutInvariant`, types, `CommitTheorem`, `AskedTheorem`, `ClonesTheorem` |
| `SourcesProofs` | `SourcesInvariant`, `PinnedTheorem`, `PatchedTheorem` |
| `RecordsProofs` | `RecordsInvariant`, `BranchTheorem`, `ThereTheorem`, `KeyTheorem` |
| `PlanProofs` | `ConditionTheorem`, `PlanInvariant`, `PlanTypes`, `EdgesTheorem`, `VerdictTheorem`, `IdsTheorem` |
| `LayersProofs` | `LayersInvariant`, `LayersTypes`, `SourceTheorem`, `RefTheorem`, `FieldsTheorem` |
| `ConfigureProofs` | `ConfigureInvariant`, `ConfigureTypes`, `CoversTheorem`, `ToolsTheorem`, `PreflightTheorem` |
| `GeneratedProofs` | of `Subdirs`, `SubdirsInvariant`, `RestoreTheorem`, `SeenInvariant`, `SeesTheorem`, `AddsTheorem`; of `Imports`, `ImportsInvariant`, `ImportsTypes`, `EarlierTheorem`, `OwnTheorem`, `LinksTheorem`, `LibraryTheorem` |

**Install.** The properties say what is true of the disk; alone no step keeps
them, since what a step does depends on what the process saw some steps ago.
`IInv` adds: which locks a run holds at each point (`LockInv`); what a run that
has looked under the lock knows of the prefix until it releases it
(`PrefixInv`), e.g. that the prefix is not installed between the second look and
the marker, that it has all its files once they were installed; that
directories in use are there (`ScratchKept`); that what a run has got is
installed (`GotIsInstalled`); that a record has what `Nested` has (`RecordInv`);
and, of each project on the stack, that what is built of it are its first nodes,
each with what `Nested` gives it, up to the node that the run is at or inside of
(`ProjectInv`). From the last, what a node depends on has been built, and all of
it is served: `MergedNames` and `MergedServes` say that a merge keeps every name,
`MergedOnce` that it has none twice, and `ManifestMerged` that a finished manifest
hands on `Nested`. That installed prefixes stay while any run is there follows from
`clean` and the user being kept out by build.lock, and from `NeverRebuildInstalled`
for the other runs. Each part has a lemma that every step keeps it
(`TypeStep`, `LockStep`, `PrefixStep`, `ScratchStep`, `GotStep`, `RecordStep`, `ProjectStep`),
by cases of `Next`. `StoreTheorem` maps each step to a step of `Store` or a
stutter. Assumptions: the marker is no file of a package, "no package" and "no
run" are none, runs and cleaners are different processes, graphs are in
topological order and have a name once (`OrderAssumption`; `graph.rs:270`,
`300-312`), and `Nested` is computed from the manifests by `merge_nested`
(`NestedAssumption`: an id is known before its package is built, from the ids of
its manifest's packages). Nothing is assumed of which packages have one name.

**Checkout.** `TreeInv`, `WantInv` and `CloneInv` say, for each point of a call,
what the tree is relative to HEAD and target, that the target was named by the
ref, and that a clone that is being removed is the call's own or was unreadable.

**Sources.** For pinned refs: everybody who resets the checkout resets it to the
same commit, and a checkout at that commit is left alone, so from the first
reader on nobody writes it any more.

**Records.** Every record says what `InnerId` was under some settings with that
key; for the pinned kind it depends on what is hashed only.

**Plan.** `IInv` relates what the code has by index to what the manifest says by
name. `LayoutInv`: no name is in the graph twice, `indices` is its inverse, and
every node is declared and drawn from the filters passed so far. `StageInv` says
what holds at each stage: nothing enabled was dropped, the edges are those of the
references, no nodes form a circle once they are ordered. `IdsInv`: an id is known for a node only after
what it needs, and is the one that names alone give. From this, a path by index
is a path by name; `toposort` fails exactly if some nodes form a circle, of
which a least closed set of nodes is the witness; and `preflight` looks at each
package that is needed, so that `VerdictIsSound` holds in both directions.
`ConditionTheorem` says that `EvalCondition`, which reads tokens from the left, is
the disjunction of conjunctions that the documentation describes. Assumptions:
no name is listed twice, and a tool has no references, condition or filter.

**Layers.** After each layer, every field is from the highest of the layers read
so far that sets it (`SourceInv`, `OverrideInv`, `FieldInv`), and its directory
is that layer's (`PathInv`). A revision depends on more: an override drops the
ones below it, and a recipe only fills what the manifest left empty
(`RecipeInv`). The properties are this at the last layer. Assumption: "none" is
no layer, directory or field.

**Configure.** Nothing is known of the runs before but what they installed, so
`InstalledInv` says of everything installed that some run of some node built it,
under the id that `calculate_build_id` has for that node. A package that is found
was therefore built from a node with the same id as the one that is looked for:
the fields of both agree, and `CoversTheorem` compares the arguments of CMake map
by map, and what is left of a map when others lie over it. `FailsBeforeBuilding`
needs that the failed and the built packages are kept apart (`PhaseInv`), and
`ToolsTheorem` follows by the least tool in the order whose id differs.
Assumptions: the order has every package after what it needs, directly or
through others, and `<PKG>_ROOT` variables are not CMake's own.

**Subdirs.** `StackInv` says, of every directory that is being read, how far the
block in it has come: the variables up to there are saved, with what they were
when the block began, and the others are untouched (`Saved`, `Kept`). Both hold
while variables are set in order and restored in reverse order; a nested
directory has a scope of its own and cannot disturb it. `SeenInv` adds that the
variables set so far have the package's values, so that a directory begins with
these and otherwise with what the one around it began with (`Sees`). Both
theorems are for projects in which no package sets a variable by two of its
fields: `RestoresAllSetOnce` says so itself, `SeesItsValues` does not, and for
packages that do TLC alone has checked it. `AddsTheorem`: while a package is being
added and its guard is not yet set, everything on the stack above it was reached
through files that list one package after another, and these do not lead back.
Assumptions: a package's options have different names (a `BTreeMap`), a project
that calls `unideps_setup()` has a file to include, and files do not list each
other in a circle, since such manifests are refused before there is a file
(`build.rs:505-508`).

**Imports.** No property survives a step alone: whether a package is found where
it should be depends on the cache at that moment, which the packages before it
have written. `CacheInv` says that, once stale entries are dropped, none comes
back, and that a name which one package owns has no entry but that package's, or
the one that the configure has found and not dropped (`Ours`): a search adds only what it finds in the prefixes of
the file or on the project's own path. `FileInv` says that the file is the merged
list of the last run, whose prefixes are there. `ImportedWell` then holds of each
package from its import on (`FoundWell`, `OwnWell`, `LinkedWell`, `NamedWell`),
since targets and links are only added. For the links, `MergedFacts` shows that in
the merged list each name is once, and that a package comes after what it needs
if both are the project's or if neither is and the nested lists had that order; a
dependency is thus imported first, and one of its targets is among `Candidates`.
`KindFacts` has the choice of a library for every order in which a directory is
listed. Assumptions: a project declares a name once and is built in topological
order (`build.rs:445`), directories hold finitely many configs and libraries, and
"none" is no name, directory, library or target. Nothing is assumed of nested
lists, of what the user searches or sets, or of names that packages share.

**What proof attempts found.** Two definitions of `Configure` were wrong, and no
instance was large enough to show it: a source was identified without the
package's name, and a variable that is ignored looked like one that is empty. And
one gap in the code: the `import_name` of a dependency is in no id, so that a
package found under its id may have been given hints (`<PKG>_ROOT`) by names other
than those it would get now. `IdCoversBuild` excuses the names then, and still asks
that the hints a build was given are prefixes of this run's dependencies.
`NoneOfAnEarlierRun` was true of the instance only: an entry such as `UNIDEPS_X_DIR`
is never dropped, so that a package of such a name can be found in the prefix of
an earlier run, and so can any if the project itself searches there. The property
now leaves out these two.

**Model-checked only.** Everything about liveness (`RunsEnd`, `CleansEnd`,
`Recovers`, `Settles`, `Finishes`), since fairness is out of the prover's reach.
`SeesItsValues` of packages that set a variable by two fields (above). The types
of `Subdirs` hold in its run, where `TypeOK` may be named as one more invariant.
Induction over data has no rule here; where a proof needs one (a condition of any
length, a filter or a merge of any lists, packages in order) it takes the least
counterexample, a number or a set, which `WFMin` gives.

## Where code and documentation differ

One run ends in a violation. `build_nested` decides which packages of a nested
manifest are enabled with options in which those of the package's node win over
those of the rules (`build.rs:520-521`); its configure is given options in which
the rules win (`build.rs:649-652`). With an option set by both, what is built for
a package is not what its configure will look for. `EnabledAsConfigured` states
the comment at `build.rs:513-514`; `configure_nested` shows it violated.

More sentences of the repository do not hold. The modules state each of them; to
see one fail, name it as the INVARIANT of the configuration given.

| property | cfg | what the code does |
|---|---|---|
| `SubmodulesResumed` | `Checkout.cfg` | `restore()` (`git.rs:121`) works under the marker of the checkout before. If it dies after its submodules were deinitialised, the next call finds marker and HEAD equal and nothing in `git status`, although "an interrupted checkout or submodule update is detected and resumed" (`git.rs:42`) |
| `NothingLeftBehind` | `Checkout.cfg` | ignored files, as in-source builds leave them, do not show in `git status --porcelain`, so the tree is handed out with them (`git.rs:112-114`) |
| `KeyNamesItsCommit` | `Sources.cfg` | between the look at HEAD in `base_source` (`source.rs:98`) and the compile, a run may wait for hours for the build slot (`build.rs:794`), holding no lock on the checkout, and another run moves it: a package of a branch is installed under the key of another commit |
| `RecordIsFresh` | `Records.cfg` | a setting that `outer` fixes for itself, such as `shared = true`, is not hashed for it, and still decides how its nested packages are built; `DOCUMENTATION.md:49` says that everything that can change the outcome is in the key. `KeyedIsFresh` is the condition under which records are fresh, and it is proved |
| `RulesIgnoreLayout` | `Plan.cfg` | cascade rules of two dependents are applied in the order of node indices, which the removal of a disabled package changes (`build.rs:668`, `strategy.rs:152`; the comment at `build.rs:602` forbids that for ids) |
| `ManifestRefWins` | `Layers.cfg` | a manifest with a branch and a recipe with a tag give the recipe's tag, although "manifest values always win over the recipe" (`project.rs:287`, `324-331`) |
| `HeadersAreThere` | `Configure.cfg` | `include_dirs` of a header-only package are in no id: after they change, the prefix found under the id has the directories of before, and the consumer is told to include others (`build.rs:934`; `DOCUMENTATION.md:98`) |
| `NothingBuiltInVain` | `Configure.cfg` | a reference to the prefix of a package that is not needed, a bad `cxx_std` and a missing header directory are met only when the package is built, although configuration errors of all packages come first (`build.rs:373`) |
| `NeverOfTheSystem` | `Imports.cfg` | a `_DIR` entry from before the configure, or of the user, that names a directory outside the storage is used (`generator.rs:354-357` says that no system package is) |
| `LinksItsDependencies` | `Imports.cfg` | when a package of the project has replaced one of a nested manifest, it is imported after the nested package that links to it, and that link is left out (`generator.rs:423-424`; `DOCUMENTATION.md:141`) |
| `Restores` | `Subdirs.cfg` | a package with `shared` and `BUILD_SHARED_LIBS` among its options leaves its value to the project (`generator.rs:455-474`; `DOCUMENTATION.md:134`) |
| `AddsOnce` | `Subdirs.cfg` | in a package that unideps builds, a subdirectory package that calls `unideps_setup()` and has no manifest at its root includes the file that is adding it, whose guard is set afterwards (`generator.rs:448-452`, `475`) |

And a git that is killed in `reset --hard` leaves `.git/index.lock`, which makes
every later call fail: `Recovers` leaves exactly that out.

Some gaps the properties step around, by what they assume:

- `IdCoversBuild` speaks of compilers that a run names. A compiler that CMake
  finds by itself, or that `CC` names, is not fingerprinted.
- `EachItsOwn` allows for an entry that the configure has found in the cache: one
  that names another prefix of this run, say of a package that bundles a copy of
  the config, is kept as none of an earlier run (`generator.rs:166-171`), and the
  copy is used; so is one that names a directory outside the storage. Entries of
  earlier runs are dropped, and after that the package is found in its own prefix.
- `EachItsOwn` speaks of configs that go by a name of their package. One that is
  found under a third name has no target of the package's name, and links to it
  are left out. A variable `<PKG>_FOUND` of the project's own counts as found.
- With `CMAKE_INSTALL_PREFIX` at `/usr/local`, entries of the user below `/usr` are
  dropped as stale.

## Not modelled

- Strings: formats of files, names, command lines, logs, text of generated
  files other than what CMake does with it. Parsing of TOML, target triples,
  conditions and arguments: `Plan` begins with tokens, `Configure` with values.
- The option probe's place among the steps of `Install`: there, a manifest is a
  constant of the package. What the probe reports is in `Configure`.
- The guard against manifests that depend on each other (`build.rs:505-508`): it
  compares source ids on the stack of projects. In `Install` a package's id has
  those of its manifest's packages, so that there is no such circle to meet.
- Mistakes beyond those that decide a property: `Plan` refuses graphs, but not a
  bad source, which the code validates for disabled packages too
  (`project.rs:135-137`, `163`); `Layers` has of `validate` (`project.rs:224-249`)
  only that there is a source; `Configure` has of what only a build can tell no
  missing `CMakeLists.txt`, `check_files`, absolute `include_dirs` or sources that
  fail, and of expansion no unset `$ENV{}`, unterminated reference or `.path`
  (`util.rs:64-81`).
- Of the environment, `Configure` has `CC`. `CFLAGS`, `CXXFLAGS` and `LDFLAGS`
  (`cmake.rs:51-56`, `224-228`) reach the build of a package for the target as
  well, and are in no id.
- The fingerprint of a compiler (`util.rs:149-158`) is its path, length and time of
  modification; in `Configure` it is what is at the path. A compiler replaced by
  one of the same length and time keeps its fingerprint.
- That `fetch` goes on into nested manifests: `Sources` has one package.
- Detection of the triple and of the runtime from CMake variables, and the
  copying of shared libraries (`unideps.cmake`): both read what CMake knows of
  its platform. pkg-config files and system libraries of `generator.rs`.
- PDB collection and the CMake generator (`cmake.rs`).
- Hash collisions, two directories whose sanitised names are equal, process ids
  that are used again within a storage, several storages with one scratch
  directory.
- Builds that write into their sources, next to other runs (they are in
  `Checkout`, one process at a time).
- The Lua of recipes, and what compilers and CMake do with what they are given.

## Plan

In the order of what matters to users:

1. done: the modules above, with every invariant that a run checks proved.
2. The probe as steps of `Install`: options that a package reports decide which
   packages its manifest enables, so that `Manifest` becomes state.
3. `Plan`, `Configure` and `Records` composed: nested runs that configure their
   own graphs with the settings they inherit.
4. Target triples (`target.rs`) as operators against a reference definition.
5. Proofs: `Sources` as a refinement of a specification in which a package is
   compiled in one step; `SeesItsValues` for packages that set a variable twice.
