------------------------------- MODULE Imports -------------------------------
(***************************************************************************)
(* How a consumer imports the packages that are installed (unideps-cmake/  *)
(* src/generator.rs generate_targets_cmake): one configure after another   *)
(* of one build directory, whose CMake cache keeps the <Pkg>_DIR entries   *)
(* of the configure before, while runs install packages under new ids.     *)
(* The list of packages is what build.rs merge_nested makes of them.       *)
(***************************************************************************)
EXTENDS Naturals, Sequences, FiniteSetsExt

CONSTANTS
  Name,      \* names of packages, and of the packages that find_package looks for
  Location,  \* directories, as sequences of the names on their path
  Holds,     \* Holds[l]: the names with a CMake config below l
  Files,     \* Files[l]: the libraries in l/lib
  Reserved,  \* names X whose X_DIR matches ^(CMAKE_|UNIDEPS_|_)
  Declared,  \* what the runs have built: [nested, direct], of sequences of Node
  Site,      \* what a project and its user bring along
  MaxConfigures,  \* configures of the build directory (a bound of the model)
  None

\* A built package: installed, or a subdirectory package if it has no prefix.
Node == [name   : Name,
         prefix : Location \cup {None},
         import : Name \cup {None},     \* import_name
         auto   : BOOLEAN,              \* auto_import, or include_dirs are given
         header : BOOLEAN,              \* header_only
         hint   : {"none", "there", "missing"},  \* what became of `libraries`
         deps   : SUBSET Name,
         shared : BOOLEAN]

Library == [kind : {"static", "shared"}, named : BOOLEAN]
Hinted == [kind |-> "hinted", named |-> FALSE]  \* the first of `libraries`
Target == {"ns", "plain"} \X Name  \* name::name, and name

\* site.found: the names, not in upper case, whose <NAME>_FOUND the project itself has set.
ASSUME ImportsAssumption ==
  /\ None \notin Name \cup Location \cup Library \cup Target
  /\ Location \subseteq Seq(STRING)
  /\ Holds \in [Location -> SUBSET Name]
  /\ Files \in [Location -> SUBSET Library]
  /\ \A l \in Location : IsFiniteSet(Holds[l]) /\ IsFiniteSet(Files[l])
  /\ \A d \in Declared : d.nested \in Seq(Node) /\ d.direct \in Seq(Node)
  \* A project declares a name once, and is built in topological order (build.rs:445).
  /\ \A d \in Declared : \A i, j \in DOMAIN d.direct :
       /\ d.direct[i].name = d.direct[j].name => i = j
       /\ d.direct[j].name \in d.direct[i].deps => j < i
  /\ \A s \in Site : /\ s.install \in Location \cup {None}
                     /\ s.targets \subseteq Target
                     /\ s.found \subseteq Name
                     /\ s.path \in Seq(Location)
  /\ MaxConfigures \in Nat

VARIABLES
  site,
  there,    \* the directories that exist
  cache,    \* cache[c]: the entry <c>_DIR
  phase,    \* "idle", "drop", "import", "failed"
  before,   \* a history: the cache as the configure found it
  declared, \* a history: what the last run has built
  file,     \* the packages in the generated file
  got,      \* for those imported so far, where each was found, by what name, and the library
            \* it stands for
  targets,  \* the targets of this configure
  links,    \* pairs of targets: INTERFACE_LINK_LIBRARIES
  count

importsVars == <<site, there, cache, phase, before, declared, file, got, targets, links, count>>

-----------------------------------------------------------------------------
(* merge_nested: the project's packages win over nested ones of their name, *)
(* and of nested ones the first.                                            *)

NamesIn(s) == {s[i].name : i \in DOMAIN s}
NodeOf(n, s) == s[CHOOSE i \in DOMAIN s : s[i].name = n /\ \A j \in 1 .. i - 1 : s[j].name # n]

\* The nested packages that are kept, with the fault that one is put before those already kept.
Fresh_Reversed(nested, direct) ==
  LET kept[i \in 0 .. Len(nested)] ==
        IF i = 0 THEN <<>>
        ELSE IF nested[i].name \in NamesIn(direct) \cup NamesIn(kept[i - 1]) THEN kept[i - 1]
        ELSE <<nested[i]>> \o kept[i - 1]
  IN kept[Len(nested)]
Fresh(nested, direct) ==
  LET kept[i \in 0 .. Len(nested)] ==
        IF i = 0 THEN <<>>
        ELSE IF nested[i].name \in NamesIn(direct) \cup NamesIn(kept[i - 1]) THEN kept[i - 1]
        ELSE Append(kept[i - 1], nested[i])
  IN kept[Len(nested)]
Merged(nested, direct) == Fresh(nested, direct) \o direct

-----------------------------------------------------------------------------
(* The stale entries.                                                      *)

Within(l, v) == Len(l) <= Len(v) /\ SubSeq(v, 1, Len(l)) = l
\* (CMake looks for "<l>/", which for the root directory is "//".)
Below(l, v) == Within(l, v) /\ v # l /\ l # <<>>
Parent(l) == SubSeq(l, 1, Len(l) - 1)

PrefixesOf(s) == {s[i].prefix : i \in DOMAIN s} \ {None}
KeptRoots == PrefixesOf(file) \cup ({site.install} \ {None})

\* In the directory of a prefix, or of CMAKE_INSTALL_PREFIX, and in none of these; with the
\* fault that the whole directory is kept.
IsStale_OfNoRoot(v) == \A l \in KeptRoots : ~Below(Parent(l), v)
IsStale(v) ==
  /\ \E l \in KeptRoots : Below(Parent(l), v)
  /\ \A l \in KeptRoots : ~Within(l, v)

\* The entries that a configure drops.
Drops(c, v) == c \notin Reserved /\ v # None /\ IsStale(v)

-----------------------------------------------------------------------------
(* find_package(c CONFIG): the entry, <c>_ROOT, and CMAKE_PREFIX_PATH.      *)

IsAt(c, l) == l \in there /\ c \in Holds[l]
ConfigDir(l) == Append(l, "lib")

\* The variables <c>_ROOT are set for every package under its name and its import_name, and
\* under these in upper case, which no name here is.
RootNames_NameOnly(n) == {n.name}
RootNames(n) == {n.name} \cup ({n.import} \ {None})
RootOf(c) ==
  LET is == {i \in DOMAIN file : file[i].prefix # None /\ c \in RootNames(file[i])}
  IN IF is = {} THEN None ELSE file[Max(is)].prefix

\* Every prefix was put before the others. (Nothing is found in the None of a subdirectory
\* package, which has no prefix.)
SearchPath == [i \in DOMAIN file |-> file[Len(file) + 1 - i].prefix] \o site.path

Search(c) ==
  LET is == {i \in DOMAIN SearchPath : IsAt(c, SearchPath[i])}
  IN IF \E l \in there : IsAt(c, l) /\ cache[c] = ConfigDir(l) THEN cache[c]
     ELSE IF IsAt(c, RootOf(c)) THEN ConfigDir(RootOf(c))
     ELSE IF is = {} THEN None
     ELSE ConfigDir(SearchPath[Min(is)])

Orders(S) == {s \in [1 .. Cardinality(S) -> S] : \A x \in S : \E i \in DOMAIN s : s[i] = x}

\* What is tried for a package: its import_name, or the configs in its prefix, in the order
\* of a directory walk, or its name.
Attempts(n) ==
  IF n.import # None THEN {<<n.import>>}
  ELSE IF Holds[n.prefix] = {} THEN {<<n.name>>}
  ELSE Orders(Holds[n.prefix])

-----------------------------------------------------------------------------
(* The library of a synthesised target: the first of `libraries`, or what   *)
(* find_library_file chooses of lib/, listed in the order files.            *)

FirstIn(s, S) ==
  LET is == {i \in DOMAIN s : s[i] \in S} IN IF is = {} THEN None ELSE s[Min(is)]

\* The first file of a kind that has the name, or else the first; with the fault that the
\* name is not looked at.
OfKind_AnyName(files, kind) == FirstIn(files, {f \in Library : f.kind = kind})
OfKind(files, kind) ==
  LET named == FirstIn(files, {f \in Library : f.kind = kind /\ f.named})
  IN IF named # None THEN named ELSE FirstIn(files, {f \in Library : f.kind = kind})

FindLibrary(shared, files) ==
  LET a == OfKind(files, "static")  so == OfKind(files, "shared")
  IN IF so # None /\ (shared \/ a = None) THEN so ELSE a

LibraryOf(n, files) ==
  IF n.header THEN None ELSE IF n.hint = "there" THEN Hinted ELSE FindLibrary(n.shared, files)

-----------------------------------------------------------------------------
ImportsInit ==
  /\ site \in Site
  /\ there = {l \in Location : \A d \in Declared : l \notin PrefixesOf(d.nested) \cup PrefixesOf(d.direct)}
  /\ cache = [c \in Name |-> None]
  /\ before = cache
  /\ phase = "idle" /\ declared = None /\ file = <<>> /\ got = <<>>
  /\ targets = {} /\ links = {} /\ count = 0

\* The user, or a find_package of the project's own, sets an entry.
UserSets(c, l) ==
  /\ phase = "idle" /\ count < MaxConfigures
  /\ IsAt(c, l) /\ cache[c] # ConfigDir(l)
  /\ cache' = [cache EXCEPT ![c] = ConfigDir(l)]
  /\ UNCHANGED <<site, there, phase, before, declared, file, got, targets, links, count>>

\* The user wipes a prefix of the last run.
Delete(l) ==
  /\ phase = "idle" /\ count < MaxConfigures
  /\ l \in there /\ l \in PrefixesOf(file)
  /\ there' = there \ {l}
  /\ UNCHANGED <<site, cache, phase, before, declared, file, got, targets, links, count>>

\* A configure: unideps builds what is declared, and writes the file that is then included.
Generate(d) ==
  /\ phase = "idle" /\ count < MaxConfigures
  /\ declared' = d
  /\ file' = Merged(d.nested, d.direct)
  /\ there' = there \cup PrefixesOf(d.nested) \cup PrefixesOf(d.direct)
  /\ before' = cache
  /\ targets' = site.targets
  /\ got' = <<>> /\ links' = {}
  /\ phase' = "drop" /\ count' = count + 1
  /\ UNCHANGED <<site, cache>>

DropStale ==
  /\ phase = "drop"
  /\ cache' = [c \in Name |-> IF Drops(c, cache[c]) THEN None ELSE cache[c]]
  /\ phase' = "import"
  /\ UNCHANGED <<site, there, before, declared, file, got, targets, links, count>>

\* The package that is next in the file.
Importing == phase = "import" /\ Len(got) < Len(file)
Current == file[Len(got) + 1]

\* The targets that a synthesised package has in the end: its own, unless one of its name is
\* there, and aliases of it.
WithAliases(n) ==
  LET own == targets \cup
             (IF <<"ns", n.name>> \notin targets /\ <<"plain", n.name>> \notin targets
              THEN {<<"ns", n.name>>} ELSE {})
  IN IF <<"ns", n.name>> \notin own THEN own
     ELSE own \cup {<<"plain", n.name>>}
              \cup (IF n.import = None THEN {} ELSE {<<"ns", n.import>>, <<"plain", n.import>>})

\* The targets a dependency may have, the one that is preferred first.
Candidates(d) ==
  LET n == NodeOf(d, file)
  IN (IF d \in NamesIn(file) /\ n.import # None THEN <<<<"ns", n.import>>, <<"plain", n.import>>>> ELSE <<>>)
     \o <<<<"ns", d>>, <<"plain", d>>>>

ShouldAutoImport(n) == n.auto \/ n.header \/ n.hint # "none"

NotFound == [dir |-> None, as |-> None, lib |-> None]

ImportAuto ==
  /\ Importing /\ Current.prefix # None /\ ShouldAutoImport(Current)
  /\ LET n == Current
         own == <<"ns", n.name>>
         all == WithAliases(n)
         of(d) == FirstIn(Candidates(d), all)
     IN /\ targets' = all
        /\ links' = links \cup
             {<<t, own>> : t \in all \ (targets \cup {own})} \cup
             (IF own \in all THEN {<<own, of(d)>> : d \in {x \in n.deps : of(x) # None}} ELSE {})
        /\ \E files \in Orders(Files[n.prefix]) :
             got' = Append(got, IF own \in all \ targets
                                THEN [dir |-> n.prefix, as |-> n.name, lib |-> LibraryOf(n, files)]
                                ELSE NotFound)
  /\ UNCHANGED <<site, there, cache, phase, before, declared, file, count>>

\* The first of the packages tried that is found. (An upper-case <NAME>_FOUND counts for it.)
ImportFound ==
  /\ Importing /\ Current.prefix # None /\ ~ShouldAutoImport(Current)
  /\ \E tried \in Attempts(Current) :
       LET is == {i \in DOMAIN tried : Search(tried[i]) # None \/ tried[i] \in site.found}
           end == IF is = {} THEN Len(tried) ELSE Min(is)
           c == tried[end]
       IN /\ cache' = [x \in Name |-> IF \E i \in 1 .. end : tried[i] = x THEN Search(x) ELSE cache[x]]
          /\ IF is = {}
             THEN phase' = "failed" /\ UNCHANGED <<got, targets>>
             ELSE /\ got' = Append(got, [dir |-> Search(c), as |-> c, lib |-> None])
                  /\ targets' = targets \cup (IF Search(c) # None THEN {<<"ns", c>>} ELSE {})
                  /\ UNCHANGED phase
  /\ UNCHANGED <<site, there, before, declared, file, links, count>>

\* A subdirectory package is added; Subdirs has the details.
ImportSub ==
  /\ Importing /\ Current.prefix = None
  /\ LET n == Current
     IN targets' = targets \cup {<<"plain", n.name>>, <<"ns", n.name>>}
  /\ got' = Append(got, NotFound)
  /\ UNCHANGED <<site, there, cache, phase, before, declared, file, links, count>>

\* The next configure starts afresh, the cache aside.
Finish ==
  /\ phase = "failed" \/ (phase = "import" /\ Len(got) = Len(file))
  /\ phase' = "idle"
  /\ UNCHANGED <<site, there, cache, before, declared, file, got, targets, links, count>>

ImportsNext ==
  \/ \E c \in Name, l \in Location : UserSets(c, l)
  \/ \E l \in Location : Delete(l)
  \/ \E d \in Declared : Generate(d)
  \/ DropStale \/ ImportAuto \/ ImportFound \/ ImportSub \/ Finish

ImportsSpec == ImportsInit /\ [][ImportsNext]_importsVars

-----------------------------------------------------------------------------
Entry == {ConfigDir(l) : l \in Location} \cup {None}

ImportsTypeOK ==
  /\ site \in Site
  /\ there \subseteq Location
  /\ cache \in [Name -> Entry] /\ before \in [Name -> Entry]
  /\ phase \in {"idle", "drop", "import", "failed"}
  /\ file \in Seq(Node) /\ Len(got) <= Len(file)
  /\ got \in Seq([dir : Entry \cup Location, as : Name \cup {None}, lib : Library \cup {Hinted, None}])
  /\ targets \subseteq Target /\ links \subseteq Target \X Target
  /\ count \in 0 .. MaxConfigures

GoesBy(n) == {n.name, n.import} \ {None}
Found(i) == got[i].dir # None /\ ~ShouldAutoImport(file[i])
Synthesised(i) == got[i].dir # None /\ ShouldAutoImport(file[i])

\* A package that is found where this run's prefixes are is found in one of them, never in a
\* prefix of an earlier run that is still there (generator.rs:134-141: the consumer would
\* otherwise keep linking the previous build). Reserved entries are not touched, and a prefix
\* that the project itself searches is its own affair.
NoneOfAnEarlierRun ==
  \A i \in DOMAIN got :
    Found(i) /\ got[i].as \notin Reserved /\ (\E l \in PrefixesOf(file) : Below(Parent(l), got[i].dir))
      => \/ \E l \in KeptRoots : Within(l, got[i].dir)
         \/ \E j \in DOMAIN site.path : got[i].dir = ConfigDir(site.path[j])

\* A package whose config goes by its name or its import_name, which no other package goes
\* by, is found in its own prefix, also when another prefix bundles a copy of it, or else
\* where the entry points that the configure has found in the cache.  That entry is used
\* unless it is dropped: it may name a copy that another prefix of this run bundles, or a
\* directory which is nobody's, but no prefix of an earlier run (generator.rs:102-118, 142-177).
EachItsOwn ==
  \A i \in DOMAIN got : Found(i) =>
    \A c \in GoesBy(file[i]) \cap Holds[file[i].prefix] :
      (/\ file[i].import \in {None, c}
       /\ file[i].import = None => Holds[file[i].prefix] = {c}
       /\ \A j \in DOMAIN file \ {i} : c \notin GoesBy(file[j]))
        => \/ got[i].dir = ConfigDir(file[i].prefix)
           \/ got[i].dir = before[c] /\ ~Drops(c, before[c])

\* The targets by which a package is linked, and whether its own import has given it one.
TargetsOf(n) == {t \in targets : t[2] \in GoesBy(n)}
HasTarget(j) ==
  file[j].prefix = None \/ ShouldAutoImport(file[j])
  \/ (got[j].dir # None /\ got[j].as \in GoesBy(file[j]))

\* d is in s before n is.
Precedes(d, n, s) == \E j \in DOMAIN s : s[j].name = d /\ \A k \in DOMAIN s : s[k].name = n => j < k

\* The n of the file and the d that it needs are both the project's, or both of nested manifests,
\* which had that d when they were at n.
OfOneManifest(d, n) ==
  LET direct == NamesIn(declared.direct)
  IN \/ {d, n} \subseteq direct
     \/ {d, n} \cap direct = {} /\ Precedes(d, n, declared.nested)

\* A synthesised target links to every dependency of its own manifest that has a target: the
\* dependency was imported before it (build.rs:442-481 merge_nested; generator.rs:290-314).
LinksWithinAManifest ==
  \A i, j \in DOMAIN got :
    (/\ Synthesised(i) /\ file[j].name \in file[i].deps /\ HasTarget(j)
     /\ OfOneManifest(file[j].name, file[i].name))
      => \E t \in TargetsOf(file[j]) : <<<<"ns", file[i].name>>, t>> \in links

\* A synthesised target stands for a library of the package's name and of the kind asked for,
\* if there is one, in whichever order the directory is listed (generator.rs:626-703).
LibraryIsNamed ==
  \A i \in DOMAIN got : Synthesised(i) /\ ~file[i].header /\ file[i].hint # "there" =>
    LET kind == IF file[i].shared THEN "shared" ELSE "static"
        fits == {f \in Files[file[i].prefix] : f.kind = kind}
    IN fits # {} => got[i].lib \in fits /\ ((\E f \in fits : f.named) => got[i].lib.named)

\* What the comment at generator.rs:354-357 promises and does not hold: an entry from before the
\* configure that names a directory outside the install roots is used.
NeverOfTheSystem ==
  \A i \in DOMAIN got : Found(i) => \E l \in PrefixesOf(file) : Within(l, got[i].dir)

\* What generator.rs:423-424 says of the order, and does not hold: a nested package is imported
\* before the project's own package that has replaced one of its manifest, and the link to it
\* is left out.
LinksItsDependencies ==
  \A i, j \in DOMAIN got : Synthesised(i) /\ HasTarget(j) /\ file[j].name \in file[i].deps =>
    \E t \in TargetsOf(file[j]) : <<<<"ns", file[i].name>>, t>> \in links
=============================================================================
