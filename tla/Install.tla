------------------------------- MODULE Install -------------------------------
(***************************************************************************)
(* The storage directory and the processes that share it: concurrent       *)
(* `unideps build` runs, each walking its dependency graph and the nested  *)
(* manifests it meets (build.rs), and `unideps clean` (main.rs).           *)
(*                                                                         *)
(* A package stands for one `<name>-<build_id>` directory name; packages   *)
(* of one name differ in their ids.  The build id hashes the ids of        *)
(* everything the package is built against, so what a package needs is a   *)
(* constant here.  A prefix is the set of files in it; files come and go   *)
(* one at a time, so a process that dies leaves any part of the work       *)
(* behind.  Every process can die, fail or be killed at every step; the    *)
(* kernel then drops its locks.                                            *)
(***************************************************************************)
EXTENDS Naturals, Sequences, FiniteSets, Functions

CONSTANTS
  Run,         \* `unideps build` processes
  Cleaner,     \* `unideps clean` processes
  Pkg,         \* packages: a name and the build id it gets
  NameOf,      \* NameOf[p]: the name of p
  File,        \* what a complete install of a package puts in its prefix
  Marker,      \* INSTALL_MARKER
  Deps,        \* Deps[p]: what p depends on within its own graph, transitively
  Manifest,    \* Manifest[p]: the graph of p's own (nested) unideps.toml, in topological order
  Nested,      \* Nested[p]: the packages behind that manifest whose ids are hashed into p's
  Graph,       \* Graph[r]: the graph of the project run r builds, in topological order
  HeaderOnly,  \* packages installed by copying headers, without a build tree
  NoPkg, NoRun,
  MaxStarts    \* how many commands are started in all (a bound of the model)

ASSUME FilesAssumption == Marker \notin File
ASSUME NonesAssumption == NoPkg \notin Pkg /\ NoRun \notin Run
ASSUME ProcsAssumption == Run \cap Cleaner = {}
ASSUME GraphsAssumption ==
  /\ Deps \in [Pkg -> SUBSET Pkg]
  /\ Manifest \in [Pkg -> Seq(Pkg)]
  /\ Nested \in [Pkg -> SUBSET Pkg]
  /\ Graph \in [Run -> Seq(Pkg)]
  /\ HeaderOnly \subseteq Pkg
ASSUME BoundAssumption == MaxStarts \in Nat

\* topological_order: what a node depends on comes before it.  A project has a name once.
ASSUME OrderAssumption ==
  \A g \in Range(Graph) \cup Range(Manifest) :
    /\ \A i \in DOMAIN g : \A d \in Deps[g[i]] : \E j \in 1 .. i - 1 : g[j] = d
    /\ \A i, j \in DOMAIN g : NameOf[g[i]] = NameOf[g[j]] => i = j

NamesOf(S) == {NameOf[p] : p \in S}

\* A built package, and what its manifest has pulled in.
Built == [node : Pkg, nested : SUBSET Pkg]

\* The nodes of a project of which `built` is built, and the nested packages it keeps of
\* them: those that have no name of a node, and of those of one name the first.
Direct(built) == {built[i].node : i \in DOMAIN built}
AllOf(built) == Direct(built) \cup UNION {built[i].nested : i \in DOMAIN built}
Kept(built) ==
  {p \in AllOf(built) :
     /\ NameOf[p] \notin NamesOf(Direct(built))
     /\ \E i \in DOMAIN built :
          /\ p \in built[i].nested
          /\ \A j \in 1 .. i - 1 : NameOf[p] \notin NamesOf(built[j].nested)}

\* The id of a package is computed from what its manifest makes of the ids of its nodes.
BuiltOf(g) == [i \in DOMAIN g |-> [node |-> g[i], nested |-> Nested[g[i]]]]
ASSUME NestedAssumption ==
  \A p \in Pkg : LET b == BuiltOf(Manifest[p]) IN Nested[p] = Direct(b) \cup Kept(b)

VARIABLES
  shared,    \* runs holding build.lock shared
  excl,      \* cleaners holding build.lock exclusively
  pkgLock,   \* pkgLock[p]: runs holding <p>.lock
  slot,      \* runs holding package-build.lock
  pc,        \* where each run is
  cur,       \* the package each run is working on
  stack,     \* the projects each run is in the middle of, innermost first
  pulled,    \* what the manifest of each run's current package has pulled in
  cpc,       \* where each cleaner is
  prefix,    \* prefix[p]: the files in installed/<p>
  archive,   \* archive[p]: cache/<p>.tar.zst
  record,    \* record[p]: the nested packages in p's resolution record
  scratch,   \* scratch directories: <<p, NoRun>> to build, <<p, r>> to probe
  starts     \* how many commands were started

locks == <<shared, excl, pkgLock, slot>>
disk == <<prefix, archive, record, scratch>>
runs == <<pc, cur, stack, pulled>>
vars == <<locks, runs, cpc, disk, starts>>

RunPC == {"off", "await", "project", "lookup", "source", "probe", "check", "lock",
          "recheck", "remove", "unpack", "purge", "slot", "compile", "install",
          "pack", "mark", "tidy", "done"}

\* A project: the package whose manifest it is, or none for the run's own, and what is built.
Frame == [owner : Pkg \cup {NoPkg}, built : Seq(Built)]
Archive == [state : {"missing", "good", "corrupt"}, files : SUBSET (File \cup {Marker})]
NoRecord == {NoPkg}
Record == (SUBSET Pkg) \cup {NoRecord}
NoArchive == [state |-> "missing", files |-> {}]

LockTypes ==
  /\ shared \subseteq Run
  /\ excl \subseteq Cleaner
  /\ pkgLock \in [Pkg -> SUBSET Run]
  /\ slot \subseteq Run

RunTypes ==
  /\ pc \in [Run -> RunPC]
  /\ cur \in [Run -> Pkg \cup {NoPkg}]
  /\ stack \in [Run -> Seq(Frame)]
  /\ pulled \in [Run -> SUBSET Pkg]
  /\ \A r \in Run :
       /\ (cur[r] = NoPkg) <=> (pc[r] \in {"off", "await", "project"})
       /\ (stack[r] = <<>>) <=> (pc[r] \in {"off", "await"})

DiskTypes ==
  /\ prefix \in [Pkg -> SUBSET (File \cup {Marker})]
  /\ archive \in [Pkg -> Archive]
  /\ record \in [Pkg -> Record]
  /\ scratch \subseteq Pkg \X (Run \cup {NoRun})

TypeOK ==
  /\ LockTypes
  /\ RunTypes
  /\ DiskTypes
  /\ cpc \in [Cleaner -> {"off", "await", "clean"}]
  /\ starts \in Nat

Init ==
  /\ shared = {} /\ excl = {} /\ slot = {}
  /\ pkgLock = [p \in Pkg |-> {}]
  /\ pc = [r \in Run |-> "off"]
  /\ cur = [r \in Run |-> NoPkg]
  /\ stack = [r \in Run |-> <<>>]
  /\ pulled = [r \in Run |-> {}]
  /\ cpc = [c \in Cleaner |-> "off"]
  /\ prefix = [p \in Pkg |-> {}]
  /\ archive = [p \in Pkg |-> NoArchive]
  /\ record = [p \in Pkg |-> NoRecord]
  /\ scratch = {}
  /\ starts = 0

-----------------------------------------------------------------------------
Installed(p) == Marker \in prefix[p]

At(r, l) == pc[r] = l
Goto(r, l) == pc' = [pc EXCEPT ![r] = l]
CountStart == starts < MaxStarts /\ starts' = starts + 1

\* The decisions of build_node and build_project.  An operator with a suffix
\* is the same decision with a fault; no specification uses it.

\* Resolution::load: a record counts only while every prefix it names is marked.
RecordHit_OwnPrefixOnly(p) == record[p] # NoRecord /\ Installed(p)
RecordHit(p) == record[p] # NoRecord /\ \A q \in {p} \cup record[p] : Installed(q)

\* merge_nested: what a project hands on.
Merged_NestedWins(built) ==
  LET nested == UNION {built[i].nested : i \in DOMAIN built}
  IN nested \cup {p \in Direct(built) : NameOf[p] \notin NamesOf(nested)}
Merged_BothKept(built) == AllOf(built)
Merged(built) == Direct(built) \cup Kept(built)

HasManifest(p) == Manifest[p] # <<>>

\* The innermost project of a run, its nodes, and whether all of them are built.
Project(r) == Head(stack[r])
NodesOf(r, f) == IF f.owner = NoPkg THEN Graph[r] ELSE Manifest[f.owner]
AllBuilt(r) == Len(Project(r).built) = Len(NodesOf(r, Project(r)))
IsNested(r) == Project(r).owner # NoPkg

\* The second lookup, under the package lock.
FoundUnderLock_NotLooked(p) == FALSE
FoundUnderLock(p) == Installed(p)

\* The guards of the locks.
MayRun == excl = {}
MayClean_Shared == excl = {}
MayClean == shared = {} /\ excl = {}
PackageFree_Shared(p) == TRUE
PackageFree(p) == pkgLock[p] = {}
SlotFree_UpgradesRunLock(r) == shared = {r}
SlotFree(r) == slot = {}

\* What Drop leaves of the holders of build.lock.
WithoutRun_Leaked(r) == shared
WithoutRun(r) == shared \ {r}

\* What the packager finds in the prefix.
Packed_AfterMark(p) == prefix[p] \cup {Marker}
Packed(p) == prefix[p]

\* The run goes on to build the manifest of its current package.
Descend(r) ==
  /\ stack' = [stack EXCEPT ![r] = <<[owner |-> cur[r], built |-> <<>>]>> \o @]
  /\ cur' = [cur EXCEPT ![r] = NoPkg]
  /\ Goto(r, "project")

\* The current package is built, and has pulled these in: the project goes on.
HandOn(r, nested) ==
  /\ stack' = [stack EXCEPT ![r][1].built = Append(@, [node |-> cur[r], nested |-> nested])]
  /\ cur' = [cur EXCEPT ![r] = NoPkg]
  /\ pulled' = [pulled EXCEPT ![r] = {}]
  /\ Goto(r, "project")

\* The process is gone, with everything it held.
Exit(r) ==
  /\ Goto(r, "off")
  /\ shared' = WithoutRun(r)
  /\ slot' = slot \ {r}
  /\ pkgLock' = [p \in Pkg |-> pkgLock[p] \ {r}]
  /\ cur' = [cur EXCEPT ![r] = NoPkg]
  /\ stack' = [stack EXCEPT ![r] = <<>>]
  /\ pulled' = [pulled EXCEPT ![r] = {}]
  /\ UNCHANGED <<excl, cpc, starts>>

-----------------------------------------------------------------------------
(* unideps build *)

Start(r) ==
  /\ At(r, "off")
  /\ CountStart
  /\ Goto(r, "await")
  /\ UNCHANGED <<locks, cur, stack, pulled, cpc, disk>>

\* The shared lock keeps `unideps clean` out for the whole run.
EnterStorage(r) ==
  /\ At(r, "await")
  /\ MayRun
  /\ shared' = shared \cup {r}
  /\ stack' = [stack EXCEPT ![r] = <<[owner |-> NoPkg, built |-> <<>>]>>]
  /\ Goto(r, "project")
  /\ UNCHANGED <<excl, pkgLock, slot, cur, pulled, cpc, disk, starts>>

\* build_project takes the nodes of its graph in a topological order.
BuildNode(r) ==
  /\ At(r, "project")
  /\ ~AllBuilt(r)
  /\ cur' = [cur EXCEPT ![r] = NodesOf(r, Project(r))[Len(Project(r).built) + 1]]
  /\ Goto(r, "lookup")
  /\ UNCHANGED <<locks, stack, pulled, cpc, disk, starts>>

Lookup(r) ==
  /\ At(r, "lookup")
  /\ IF RecordHit(cur[r])
       THEN HandOn(r, record[cur[r]])
       ELSE Goto(r, "source") /\ UNCHANGED <<cur, stack, pulled>>
  /\ UNCHANGED <<locks, cpc, disk, starts>>

\* The source is there.  Without a manifest of its own the package is next;
\* with one, its graph is, after a probe if a dependency has an `enabled_if`.
PrepareSource(r) ==
  /\ At(r, "source")
  /\ \/ /\ ~HasManifest(cur[r])
        /\ Goto(r, "check")
        /\ UNCHANGED <<cur, stack, scratch>>
     \/ /\ HasManifest(cur[r])
        /\ Descend(r)
        /\ UNCHANGED scratch
     \/ /\ HasManifest(cur[r])
        /\ scratch' = scratch \cup {<<cur[r], r>>}
        /\ Goto(r, "probe")
        /\ UNCHANGED <<cur, stack>>
  /\ UNCHANGED <<locks, pulled, cpc, prefix, archive, record, starts>>

\* keep_build_dirs leaves the directory behind, and removing it is best effort.
FinishProbe(r) ==
  /\ At(r, "probe")
  /\ scratch' \in {scratch, scratch \ {<<cur[r], r>>}}
  /\ Descend(r)
  /\ UNCHANGED <<locks, pulled, cpc, prefix, archive, record, starts>>

\* What the manifest's project hands on is what the package is built against.
FinishNested(r) ==
  /\ At(r, "project")
  /\ AllBuilt(r)
  /\ IsNested(r)
  /\ cur' = [cur EXCEPT ![r] = Project(r).owner]
  /\ pulled' = [pulled EXCEPT ![r] = Merged(Project(r).built)]
  /\ stack' = [stack EXCEPT ![r] = Tail(@)]
  /\ Goto(r, "check")
  /\ UNCHANGED <<locks, cpc, disk, starts>>

\* Looked up without a lock: an installed package must not wait for anyone.
CheckInstalled(r) ==
  /\ At(r, "check")
  /\ Goto(r, IF Installed(cur[r]) THEN "done" ELSE "lock")
  /\ UNCHANGED <<locks, cur, stack, pulled, cpc, disk, starts>>

LockPackage(r) ==
  /\ At(r, "lock")
  /\ PackageFree(cur[r])
  /\ pkgLock' = [pkgLock EXCEPT ![cur[r]] = @ \cup {r}]
  /\ Goto(r, "recheck")
  /\ UNCHANGED <<shared, excl, slot, cur, stack, pulled, cpc, disk, starts>>

Recheck(r) ==
  /\ At(r, "recheck")
  /\ Goto(r, IF FoundUnderLock(cur[r]) THEN "done" ELSE "remove")
  /\ UNCHANGED <<locks, cur, stack, pulled, cpc, disk, starts>>

\* remove_dir_all, before the prefix is filled and after a failed unpack.
RemovePrefix(r) ==
  /\ pc[r] \in {"remove", "purge"}
  /\ \/ /\ \E f \in prefix[cur[r]] : prefix' = [prefix EXCEPT ![cur[r]] = @ \ {f}]
        /\ UNCHANGED pc
     \/ /\ prefix[cur[r]] = {}
        /\ Goto(r, IF At(r, "remove") /\ archive[cur[r]].state # "missing"
                     THEN "unpack" ELSE "slot")
        /\ UNCHANGED prefix
  /\ UNCHANGED <<locks, cur, stack, pulled, cpc, archive, record, scratch, starts>>

\* A corrupt archive may yield any of its files before the error shows.
Unpack(r) ==
  /\ At(r, "unpack")
  /\ LET a == archive[cur[r]] IN
     \/ /\ \E f \in a.files \ prefix[cur[r]] :
             prefix' = [prefix EXCEPT ![cur[r]] = @ \cup {f}]
        /\ UNCHANGED pc
     \/ /\ a.state = "good"
        /\ a.files \subseteq prefix[cur[r]]
        /\ Goto(r, "mark")
        /\ UNCHANGED prefix
  /\ UNCHANGED <<locks, cur, stack, pulled, cpc, archive, record, scratch, starts>>

\* Any error of the unpacking discards the archive, best effort.
DiscardArchive(r) ==
  /\ At(r, "unpack")
  /\ archive' \in {archive, [archive EXCEPT ![cur[r]] = NoArchive]}
  /\ Goto(r, "purge")
  /\ UNCHANGED <<locks, cur, stack, pulled, cpc, prefix, record, scratch, starts>>

\* One package is built at a time; its own lock is still held.
EnterSlot(r) ==
  /\ At(r, "slot")
  /\ SlotFree(r)
  /\ slot' = slot \cup {r}
  /\ IF cur[r] \in HeaderOnly
       THEN Goto(r, "install") /\ UNCHANGED scratch
       ELSE Goto(r, "compile") /\ scratch' = scratch \cup {<<cur[r], NoRun>>}
  /\ UNCHANGED <<shared, excl, pkgLock, cur, stack, pulled, cpc, prefix, archive, record, starts>>

Compile(r) ==
  /\ At(r, "compile")
  /\ Goto(r, "install")
  /\ UNCHANGED <<locks, cur, stack, pulled, cpc, disk, starts>>

InstallFiles(r) ==
  /\ At(r, "install")
  /\ \/ /\ \E f \in File \ prefix[cur[r]] :
             prefix' = [prefix EXCEPT ![cur[r]] = @ \cup {f}]
        /\ UNCHANGED pc
     \/ /\ File \subseteq prefix[cur[r]]
        /\ Goto(r, "pack")
        /\ UNCHANGED prefix
  /\ UNCHANGED <<locks, cur, stack, pulled, cpc, archive, record, scratch, starts>>

\* Packed into a temporary file and renamed: the archive appears whole.
Pack(r) ==
  /\ At(r, "pack")
  /\ archive' = [archive EXCEPT ![cur[r]] = [state |-> "good", files |-> Packed(cur[r])]]
  /\ Goto(r, "mark")
  /\ UNCHANGED <<locks, cur, stack, pulled, cpc, prefix, record, scratch, starts>>

MarkInstalled(r) ==
  /\ At(r, "mark")
  /\ prefix' = [prefix EXCEPT ![cur[r]] = @ \cup {Marker}]
  /\ Goto(r, IF r \in slot THEN "tidy" ELSE "done")
  /\ UNCHANGED <<locks, cur, stack, pulled, cpc, archive, record, scratch, starts>>

RemoveScratch(r) ==
  /\ At(r, "tidy")
  /\ scratch' \in {scratch, scratch \ {<<cur[r], NoRun>>}}
  /\ Goto(r, "done")
  /\ UNCHANGED <<locks, cur, stack, pulled, cpc, prefix, archive, record, starts>>

\* The record is best effort, and not written for every package; the locks
\* taken for the package, if any, are dropped on the way out of build_node.
FinishNode(r) ==
  /\ At(r, "done")
  /\ record' \in {record, [record EXCEPT ![cur[r]] = pulled[r]]}
  /\ HandOn(r, pulled[r])
  /\ pkgLock' = [pkgLock EXCEPT ![cur[r]] = @ \ {r}]
  /\ slot' = slot \ {r}
  /\ UNCHANGED <<shared, excl, cpc, prefix, archive, scratch, starts>>

\* The targets file is written and the run ends.
FinishRun(r) ==
  /\ At(r, "project")
  /\ AllBuilt(r)
  /\ ~IsNested(r)
  /\ Exit(r)
  /\ UNCHANGED disk

\* An error in any step, a crash or a kill.  A failed probe cleans up.
Abort(r) ==
  /\ ~At(r, "off")
  /\ Exit(r)
  /\ scratch' \in {scratch} \cup
       (IF At(r, "probe") THEN {scratch \ {<<cur[r], r>>}} ELSE {})
  /\ UNCHANGED <<prefix, archive, record>>

-----------------------------------------------------------------------------
(* unideps clean *)

StartClean(c) ==
  /\ cpc[c] = "off"
  /\ CountStart
  /\ cpc' = [cpc EXCEPT ![c] = "await"]
  /\ UNCHANGED <<locks, runs, disk>>

LockStorage(c) ==
  /\ cpc[c] = "await"
  /\ MayClean
  /\ excl' = excl \cup {c}
  /\ cpc' = [cpc EXCEPT ![c] = "clean"]
  /\ UNCHANGED <<shared, pkgLock, slot, runs, disk, starts>>

CleanScratch(c) ==
  /\ cpc[c] = "clean"
  /\ \E d \in scratch : scratch' = scratch \ {d}
  /\ UNCHANGED <<locks, runs, cpc, prefix, archive, record, starts>>

FinishClean(c) ==
  /\ cpc[c] = "clean"
  /\ scratch = {}
  /\ excl' = excl \ {c}
  /\ cpc' = [cpc EXCEPT ![c] = "off"]
  /\ UNCHANGED <<shared, pkgLock, slot, runs, disk, starts>>

AbortClean(c) ==
  /\ cpc[c] # "off"
  /\ excl' = excl \ {c}
  /\ cpc' = [cpc EXCEPT ![c] = "off"]
  /\ UNCHANGED <<shared, pkgLock, slot, runs, disk, starts>>

-----------------------------------------------------------------------------
(* The user and the disk *)

\* "A prefix can be deleted by hand": between runs, not under one.
DeletePrefix(p) ==
  /\ shared = {}
  /\ prefix[p] # {}
  /\ prefix' = [prefix EXCEPT ![p] = {}]
  /\ UNCHANGED <<locks, runs, cpc, archive, record, scratch, starts>>

CorruptArchive(p) ==
  /\ archive[p].state = "good"
  /\ archive' = [archive EXCEPT ![p] = [state |-> "corrupt", files |-> @.files]]
  /\ UNCHANGED <<locks, runs, cpc, prefix, record, scratch, starts>>

-----------------------------------------------------------------------------
RunStep(r) ==
  \/ EnterStorage(r) \/ BuildNode(r) \/ Lookup(r) \/ PrepareSource(r) \/ FinishProbe(r)
  \/ FinishNested(r) \/ CheckInstalled(r) \/ LockPackage(r) \/ Recheck(r)
  \/ RemovePrefix(r) \/ Unpack(r) \/ DiscardArchive(r) \/ EnterSlot(r) \/ Compile(r)
  \/ InstallFiles(r) \/ Pack(r) \/ MarkInstalled(r) \/ RemoveScratch(r)
  \/ FinishNode(r) \/ FinishRun(r)

CleanStep(c) == LockStorage(c) \/ CleanScratch(c) \/ FinishClean(c)

Next ==
  \/ \E r \in Run : Start(r) \/ RunStep(r) \/ Abort(r)
  \/ \E c \in Cleaner : StartClean(c) \/ CleanStep(c) \/ AbortClean(c)
  \/ \E p \in Pkg : DeletePrefix(p) \/ CorruptArchive(p)

Spec == Init /\ [][Next]_vars

\* A process that can take a step takes one in the end; nobody is obliged to
\* start a command, and nothing has to fail.
Fairness ==
  /\ \A r \in Run : WF_vars(RunStep(r))
  /\ \A c \in Cleaner : WF_vars(CleanStep(c))

FairSpec == Spec /\ Fairness

-----------------------------------------------------------------------------
(* What must hold *)

Locked == {"recheck", "remove", "unpack", "purge", "slot", "compile", "install",
           "pack", "mark", "tidy"}
Slotted == {"compile", "install", "pack", "tidy"}
Filling == {"remove", "unpack", "purge", "slot", "compile", "install", "pack", "mark"}

\* A prefix with the marker holds every file of the package, whatever crashed
\* and whoever else was working on it (storage.rs: "Written last: a prefix
\* without it is left over from a crashed build or unpack").
MarkerMeansComplete == \A p \in Pkg : Installed(p) => File \subseteq prefix[p]

\* An archive that unpacks without an error is a whole install without the
\* marker: one that carried the marker would pass for complete half unpacked.
ArchiveMeansComplete == \A p \in Pkg : archive[p].state = "good" => archive[p].files = File

\* One process at a time removes, unpacks or installs into a prefix, and one at
\* a time compiles, in the whole storage.
OneWriterPerPrefix ==
  \A r, s \in Run : pc[r] \in Filling /\ pc[s] \in Filling /\ cur[r] = cur[s] => r = s
OneBuilder == \A r, s \in Run : pc[r] \in Slotted /\ pc[s] \in Slotted => r = s

\* The lookup without the lock goes stale; no installed package is ever worked
\* on again because of it.
NeverRebuildInstalled == \A r \in Run : pc[r] \in Filling => ~Installed(cur[r])

\* A package is compiled, and its options are probed, only against complete
\* prefixes, and compiled with exactly those of its manifest that its id names.
BuiltAgainstComplete ==
  \A r \in Run :
    /\ pc[r] \in Slotted \cup {"probe"} => \A d \in Deps[cur[r]] : Installed(d)
    /\ pc[r] \in Slotted => pulled[r] = Nested[cur[r]] /\ \A d \in Nested[cur[r]] : Installed(d)

\* The build tree a run compiles in, and the one it probes in, stay where they
\* are: `clean` waits for the run, and the pid in a probe's directory keeps
\* other runs from deleting it.
ScratchKept ==
  \A r \in Run :
    /\ At(r, "compile") => <<cur[r], NoRun>> \in scratch
    /\ At(r, "install") /\ cur[r] \notin HeaderOnly => <<cur[r], NoRun>> \in scratch
    /\ At(r, "probe") => <<cur[r], r>> \in scratch

\* What a run has built, or found built, in the projects it is in the middle of.
Got(r) == pulled[r] \cup UNION {AllOf(stack[r][i].built) : i \in DOMAIN stack[r]}

\* Of everything that one of these was built against, there is a package of that name: the
\* package itself, or the one that has won over it.
Serves(S) == \A p \in S : NamesOf(Deps[p] \cup Nested[p]) \subseteq NamesOf(S)
OnePerName(S) == \A p, q \in S : NameOf[p] = NameOf[q] => p = q

\* What a run has got is installed, and serves all of it.
GotIsWhole == \A r \in Run : Serves(Got(r)) /\ \A p \in Got(r) : Installed(p)

\* What a finished project hands on, to the targets file or to the package whose manifest it
\* is, has every name once, still serves all of it, and has the whole graph of the project:
\* a node gets exactly the nodes it depends on.
HandedOnIsWhole ==
  \A r \in Run : At(r, "project") /\ AllBuilt(r) =>
    LET S == Merged(Project(r).built)
    IN /\ OnePerName(S) /\ Serves(S)
       /\ \A p \in Range(NodesOf(r, Project(r))) : p \in S /\ Deps[p] \subseteq S

\* An installed prefix does not change while any run uses the storage.
InstalledIsFinal ==
  [][\A p \in Pkg : Installed(p) /\ shared # {} => prefix'[p] = prefix[p]]_vars

\* build.lock, as runs and cleaners use it, is a reader-writer lock.
RunLock == INSTANCE RwLock WITH Proc <- Run \cup Cleaner
RunLockSpec == RunLock!Spec

\* The storage implements the abstract one: locks, archives, scratch
\* directories, half-filled prefixes and crashes are not visible through it.
AbstractStore == INSTANCE Store WITH
  installed <- {p \in Pkg : Installed(p)},
  live <- shared,
  got <- [r \in Run |-> Got(r)],
  Needs <- [p \in Pkg |-> Deps[p] \cup Nested[p]]
StoreSpec == AbstractStore!Spec

\* A run that asks for the storage gets it and ends; so does `clean`.  No two
\* processes ever wait for each other's locks.
RunsEnd == \A r \in Run : At(r, "await") ~> At(r, "off")
CleansEnd == \A c \in Cleaner : cpc[c] = "await" ~> cpc[c] = "off"
=============================================================================
