----------------------------- MODULE InstallInv -----------------------------
(***************************************************************************)
(* The inductive invariant behind the properties of Install.  The          *)
(* properties say what is true of the disk; to be kept by every step they  *)
(* need to know who holds which lock where, what a run at each point has   *)
(* found on disk, and what its unfinished projects still lack.             *)
(***************************************************************************)
EXTENDS Install

\* A run holds a lock exactly where the code is between acquiring and dropping
\* it; "done" is reached with and without the locks of a package.
Holds(r) ==
  /\ r \in shared <=> pc[r] \notin {"off", "await"}
  /\ pc[r] \in Locked => r \in pkgLock[cur[r]]
  /\ \A p \in Pkg : r \in pkgLock[p] => cur[r] = p /\ pc[r] \in Locked \cup {"done"}
  /\ pc[r] \in Slotted => r \in slot
  /\ r \in slot => pc[r] \in Slotted \cup {"mark", "done"}

\* The locks exclude whom they should.
LockInv ==
  /\ \A r \in Run : Holds(r)
  /\ \A c \in Cleaner : c \in excl <=> cpc[c] = "clean"
  /\ excl # {} => shared = {}
  /\ \A c, d \in excl : c = d
  /\ \A p \in Pkg : \A r, s \in pkgLock[p] : r = s
  /\ \A r, s \in slot : r = s

\* What a run knows of the prefix it works on.
PrefixInv ==
  /\ MarkerMeansComplete
  /\ ArchiveMeansComplete
  /\ \A p \in Pkg : archive[p].files \subseteq File
  /\ NeverRebuildInstalled
  /\ \A r \in Run : pc[r] \in {"pack", "mark"} => File \subseteq prefix[cur[r]]
  /\ \A r \in Run : pc[r] \in {"tidy", "done"} => Installed(cur[r])

AfterNested == {"check", "lock", "done"} \cup Locked

\* What merge_nested makes of anything: every name once, and all of it served.
Whole(S) == OnePerName(S) /\ Serves(S)

\* Of the nodes g the first ones are built, each with what its manifest pulls in.
BuiltOk(g, built) ==
  /\ Len(built) <= Len(g)
  /\ \A j \in 1..Len(built) : built[j] = BuiltOf(g)[j] /\ Whole(Nested[g[j]])

\* The node that the i-th of a run's projects is at: the current package, or the owner of
\* the project inside it.
Inside(projects, current, i) == IF i = 1 THEN current ELSE projects[i - 1].owner

\* Of every project of run r the nodes before the one that it is at are built.
StackOk(r, projects, current) ==
  \A i \in 1..Len(projects) :
    LET f == projects[i]
        g == NodesOf(r, f)
        at == Inside(projects, current, i)
    IN /\ f.owner = NoPkg <=> i = Len(projects)
       /\ BuiltOk(g, f.built)
       /\ at # NoPkg => Len(f.built) < Len(g) /\ g[Len(f.built) + 1] = at

\* A run knows what the manifests of its current package and of the packages it has built
\* have pulled in.
ProjectInv ==
  \A r \in Run :
    /\ pc[r] \in AfterNested => pulled[r] = Nested[cur[r]] /\ Whole(pulled[r])
    /\ pc[r] \notin AfterNested => pulled[r] = {}
    /\ StackOk(r, stack[r], cur[r])

\* A record says what the manifest of its package pulls in.
RecordInv ==
  \A p \in Pkg : record[p] # NoRecord => record[p] = Nested[p] /\ Whole(Nested[p])

GotIsInstalled == \A r \in Run : \A p \in Got(r) : Installed(p)

IInv ==
  /\ TypeOK
  /\ LockInv
  /\ PrefixInv
  /\ ScratchKept
  /\ GotIsInstalled
  /\ RecordInv
  /\ ProjectInv
=============================================================================
