------------------------------- MODULE Subdirs -------------------------------
(***************************************************************************)
(* How CMake runs a generated targets file with cmake-subdirectory         *)
(* packages (crates/unideps-cmake/src/generator.rs write_subdirectory,     *)
(* cmake/unideps.cmake unideps_setup): the file sets variables, adds the   *)
(* sources of a package, whose own unideps_setup() may include another     *)
(* targets file, and puts the variables back.  A directory added is a      *)
(* scope of variables of its own; an include is none.                      *)
(***************************************************************************)
EXTENDS Naturals, Sequences

CONSTANTS
  Package,   \* the cmake-subdirectory packages
  Var,       \* variables that cmake_options may set
  Value,
  Projects,  \* the configures considered
  Unset,
  Empty,     \* the value of a variable that was set to that of an undefined one
  MaxDepth   \* directories within each other (a bound of the model)

\* The targets file that unideps_setup() includes is named by a variable like any other.
NESTED == "UNIDEPS_NESTED_TARGETS"
SHARED == "BUILD_SHARED_LIBS"
Root == "root"

\* A configure: which packages a targets file adds (each package with a manifest at its root
\* has one), the two fields of a package that become variables, which packages call
\* unideps_setup(), whether it is unideps that runs CMake, and what the project has set.
Project == [file    : [Package \cup {Root} -> Seq(Package) \cup {Unset}],
            shared  : [Package -> Value \cup {Unset}],
            options : [Package -> Seq(Var \X Value)],
            asks    : [Package -> BOOLEAN],
            active  : BOOLEAN,
            given   : [Var -> Value \cup {Unset}]]

\* The targets file that goes with x, a package or the project, adds q.
Lists(c, x, q) == c.file[x] # Unset /\ \E i \in DOMAIN c.file[x] : c.file[x][i] = q

ASSUME SubdirsAssumption ==
  /\ SHARED \in Var /\ NESTED \notin Var /\ Root \notin Package
  /\ {Unset, Empty} \cap (Package \cup Value \cup {Root}) = {} /\ Unset # Empty
  /\ Projects \subseteq Project
  /\ \A c \in Projects : c.file[Root] # Unset
  /\ \A c \in Projects, p \in Package : \A i, j \in DOMAIN c.options[p] :  \* a BTreeMap
       c.options[p][i][1] = c.options[p][j][1] => i = j
  \* Manifests that depend on each other are refused before there is a file (build.rs:505-508).
  /\ \A c \in Projects : \A S \in SUBSET Package : S # {} => \E p \in S : \A q \in S : ~Lists(c, p, q)
  /\ MaxDepth \in Nat

VARIABLES
  project,
  stack,   \* the directories that are being configured, the project's first
  added,   \* the global properties _unideps_subdir_<name>
  log      \* a history of the packages added

vars == <<project, stack, added, log>>

\* A directory: its variables, now and at its start, whether it has yet to call
\* unideps_setup(), what the file it includes has left to add, and the state of the block of
\* the package that is first in it: _unideps_had_<name>, _unideps_save_<name>.
AllVar == Var \cup {NESTED}
Directory(dir, values, asks, todo) ==
  [dir |-> dir, values |-> values, start |-> values, asks |-> asks, todo |-> todo,
   at |-> "idle", k |-> 0, had |-> [v \in AllVar |-> FALSE], save |-> [v \in AllVar |-> Empty]]

-----------------------------------------------------------------------------
Top == stack[Len(stack)]
SetTop(d) == stack' = [stack EXCEPT ![Len(stack)] = d]
First == Head(Top.todo)

\* What a package's block sets, in order; with two faults, and as it is.
FileOf(p) == IF project.file[p] = Unset THEN <<>> ELSE <<<<NESTED, p>>>>
SharedOf(p) == IF project.shared[p] = Unset THEN <<>> ELSE <<<<SHARED, project.shared[p]>>>>
Sets_SharedLast(p) == FileOf(p) \o project.options[p] \o SharedOf(p)
Sets_NoFile(p) == SharedOf(p) \o project.options[p]
Sets(p) == FileOf(p) \o SharedOf(p) \o project.options[p]

Init ==
  /\ project \in Projects
  /\ LET values == [v \in AllVar |->
                      IF v # NESTED THEN project.given[v]
                      ELSE IF project.active THEN Root ELSE Unset]
     IN stack = <<Directory(Root, values, FALSE, project.file[Root])>>
  /\ added = {} /\ log = <<>>

\* unideps_setup() of a package.  Neither active nor nested it runs unideps for a manifest
\* that is not at its root, of which the model takes that all is installed.
Setup ==
  /\ Top.asks
  /\ LET named == Top.values[NESTED]
         file == IF named = Unset THEN <<>> ELSE project.file[named]
     IN SetTop([Top EXCEPT !.asks = FALSE, !.todo = file])
  /\ UNCHANGED <<project, added, log>>

Idle == Top.at = "idle" /\ ~Top.asks /\ Top.todo # <<>>

\* The guard of the block, with a fault and as it is.  Its `NOT TARGET <name>` is left out:
\* the packages here have targets of other names, or call unideps_setup() before they have.
IsAdded_Here(p) == \E i \in DOMAIN stack : stack[i].dir = p
IsAdded(p) == p \in added

Skip ==
  /\ Idle /\ IsAdded(First)
  /\ SetTop([Top EXCEPT !.todo = Tail(@)])
  /\ UNCHANGED <<project, added, log>>

Begin ==
  /\ Idle /\ ~IsAdded(First)
  /\ SetTop([Top EXCEPT !.at = "set", !.k = 1])
  /\ UNCHANGED <<project, added, log>>

\* One variable: whether the project has it, with the fault that it is taken for one in any
\* case, what it has, and the package's value.
SavedAs_Always(v) == TRUE
SavedAs(v) == Top.values[v] # Unset

SetOne ==
  /\ Top.at = "set" /\ Top.k <= Len(Sets(First))
  /\ LET v == Sets(First)[Top.k][1]
     IN SetTop([Top EXCEPT !.k = @ + 1, !.had[v] = SavedAs(v),
                           !.save[v] = IF Top.values[v] # Unset THEN Top.values[v] ELSE Empty,
                           !.values[v] = Sets(First)[Top.k][2]])
  /\ UNCHANGED <<project, added, log>>

\* add_subdirectory: a new scope that starts with the variables of this one.
AddSubdirectory ==
  /\ Top.at = "set" /\ Top.k > Len(Sets(First))
  /\ Len(stack) < MaxDepth
  /\ stack' = Append([stack EXCEPT ![Len(stack)].at = "restore", ![Len(stack)].k = Len(Sets(First))],
                     Directory(First, Top.values, project.asks[First], <<>>))
  /\ log' = Append(log, First)
  /\ UNCHANGED <<project, added>>

\* The end of the package's CMakeLists.txt: its scope is gone.
Return ==
  /\ Len(stack) > 1 /\ Top.at = "idle" /\ ~Top.asks /\ Top.todo = <<>>
  /\ stack' = SubSeq(stack, 1, Len(stack) - 1)
  /\ UNCHANGED <<project, added, log>>

\* The variables are put back last to first.
RestoreOne ==
  /\ Top.at = "restore" /\ Top.k > 0
  /\ LET v == Sets(First)[Top.k][1]
     IN SetTop([Top EXCEPT !.k = @ - 1, !.values[v] = IF Top.had[v] THEN Top.save[v] ELSE Unset])
  /\ UNCHANGED <<project, added, log>>

End ==
  /\ Top.at = "restore" /\ Top.k = 0
  /\ added' = added \cup {First}
  /\ SetTop([Top EXCEPT !.at = "idle", !.todo = Tail(@)])
  /\ UNCHANGED <<project, log>>

Next == Setup \/ Skip \/ Begin \/ SetOne \/ AddSubdirectory \/ Return \/ RestoreOne \/ End

Spec == Init /\ [][Next]_vars /\ WF_vars(Next)
Done == Len(stack) = 1 /\ Top.at = "idle" /\ Top.todo = <<>>

-----------------------------------------------------------------------------
\* The directories are within each other as their files say, and a variable a value was
\* not given has none, whatever blocks set it and put it back (generator.rs:455-474).
TypeOK ==
  /\ project \in Project
  /\ Len(stack) \in 1 .. MaxDepth
  /\ \A i \in DOMAIN stack :
       /\ stack[i].dir \in Package \cup {Root}
       /\ stack[i].values \in [AllVar -> Package \cup Value \cup {Root, Unset}]
       /\ stack[i].at # "idle" => stack[i].todo # <<>>
       /\ i < Len(stack) => stack[i].at = "restore" /\ Head(stack[i].todo) = stack[i + 1].dir
  /\ added \subseteq {log[i] : i \in DOMAIN log}

OptionKeys(p) == {project.options[p][i][1] : i \in DOMAIN project.options[p]}
NoneTwice == \A p \in Package : project.shared[p] # Unset => SHARED \notin OptionKeys(p)

\* A package's sources are read with its own options, which go before `shared`, its own
\* nested file, and for the rest what the directory had that adds it, however many other
\* packages were added in between (generator.rs:432-446, 455-467).
SeesItsValues ==
  \A i \in 2 .. Len(stack) :
    LET q == stack[i].dir  start == stack[i].start
    IN /\ \A j \in DOMAIN project.options[q] :
            start[project.options[q][j][1]] = project.options[q][j][2]
       /\ SHARED \notin OptionKeys(q) /\ project.shared[q] # Unset => start[SHARED] = project.shared[q]
       /\ project.file[q] # Unset => start[NESTED] = q
       /\ NoneTwice => \A v \in Var \ OptionKeys(q) :
            v # SHARED \/ project.shared[q] = Unset => start[v] = stack[i - 1].start[v]

\* What a package's block changes is put back, unless a package has BUILD_SHARED_LIBS set by
\* two of its fields (generator.rs:468-474).
RestoresAllSetOnce == NoneTwice /\ Top.at = "idle" => Top.values = Top.start

\* Where every package that calls unideps_setup() has a manifest at its root, none is added
\* twice, whichever files list it (generator.rs:451-452, 475).
Manifested == \A p \in Package : project.asks[p] => project.file[p] # Unset
AddsOnceManifested ==
  Manifested => \A i, j \in DOMAIN log : log[i] = log[j] => i = j

\* ... and the configure comes to its end, with all of the project's packages added: no
\* package includes the file that adds it (generator.rs:433-438).
Finishes == Manifested => <>(Done /\ \A i \in DOMAIN project.file[Root] : project.file[Root][i] \in added)

\* "whatever the consumer had under those names is restored right after"
\* (DOCUMENTATION.md:134).
Restores == Top.at = "idle" => Top.values = Top.start

\* "a second include of this file ... does not add the same source directory twice"
\* (generator.rs:448-450).
AddsOnce == \A i, j \in DOMAIN log : log[i] = log[j] => i = j
=============================================================================
