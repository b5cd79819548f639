---------------------------- MODULE InstallProofs ----------------------------
(***************************************************************************)
(* IInv is inductive, so it holds of every execution, for any number of    *)
(* runs, cleaners, packages and files and any shape of the graphs.  One    *)
(* lemma for each part of IInv says that every step keeps that part.       *)
(***************************************************************************)
EXTENDS InstallInv, FileLock, SequenceTheorems, WellFoundedInduction, TLAPS

(***************************************************************************)
(* The lock files that all of it rests on.  FileLock excludes, and         *)
(* implements RwLock, for any set of handles.  The argument is the comment *)
(* at the head of lock.rs: the file is never deleted, so every open handle *)
(* refers to the inode the path names now.                                 *)
(***************************************************************************)

\* Whoever has the path open has the inode it still names.
SameInode == \A h \in Handle : state[h] # "closed" => inode[h] = file /\ file # NoInode

FileInv == LockTypeOK /\ SameInode /\ Exclusion

\* The invariant holds at the start and is kept by every step of a handle.
LEMMA FileLockInvariant == LockSpec => []FileInv
<1>1. LockInit => FileInv
  BY DEF LockInit, FileInv, LockTypeOK, SameInode, Exclusion
<1>2. FileInv /\ [LockNext]_lockVars => FileInv'
  <2> SUFFICES ASSUME FileInv, [LockNext]_lockVars PROVE FileInv'
    OBVIOUS
  <2> USE InodeAssumption DEF FileInv, LockTypeOK, SameInode
  <2>1. CASE UNCHANGED lockVars
    BY <2>1 DEF lockVars, Exclusion
  <2>2. ASSUME NEW h \in Handle, NEW m \in {"shared", "exclusive"}, Open(h, m)
        PROVE  FileInv'
    <3>1. LockTypeOK'
      BY <2>2 DEF Open
    <3>2. SameInode'
      BY <2>2 DEF Open
    <3>3. Exclusion'
      BY <2>2 DEF Open, Exclusion
    <3> QED BY <3>1, <3>2, <3>3
  <2>3. ASSUME NEW h \in Handle, Lock(h) PROVE FileInv'
    <3>1. Exclusion'
      BY <2>3 DEF Lock, Grantable, Compatible, Kind, Exclusion
    <3> QED BY <2>3, <3>1 DEF Lock
  <2>4. ASSUME NEW h \in Handle, Drop(h) PROVE FileInv'
    BY <2>4 DEF Drop, FileAfterDrop, Exclusion
  <2>5. ASSUME NEW h \in Handle, Close(h) PROVE FileInv'
    BY <2>5 DEF Close, Exclusion
  <2> QED BY <2>1, <2>2, <2>3, <2>4, <2>5 DEF LockNext
<1> QED BY <1>1, <1>2, PTL DEF LockSpec

\* Two handles on one path are never both locked unless both are shared
\* (FileLock::acquire, acquire_shared and Drop).
THEOREM LockExcludes == LockSpec => []Exclusion
<1>1. FileInv => Exclusion
  BY DEF FileInv
<1> QED BY FileLockInvariant, <1>1, PTL

\* The lock file is the reader-writer lock that its callers are modelled with.
THEOREM LockFileIsRwLock == LockSpec => RwLockSpec
<1>1. LockInit => Abstract!Init
  BY DEF LockInit, Abstract!Init, Holders
<1>2. FileInv /\ [LockNext]_lockVars => [Abstract!Next]_(Abstract!vars)
  <2> SUFFICES ASSUME FileInv, [LockNext]_lockVars PROVE [Abstract!Next]_(Abstract!vars)
    OBVIOUS
  <2> USE DEF FileInv, LockTypeOK
  <2>1. CASE UNCHANGED lockVars
    BY <2>1 DEF lockVars, Abstract!vars, Holders
  <2>2. ASSUME NEW h \in Handle, NEW m \in {"shared", "exclusive"}, Open(h, m)
        PROVE  UNCHANGED Abstract!vars
    BY <2>2 DEF Open, Abstract!vars, Holders
  <2>3. ASSUME NEW h \in Handle, Lock(h) PROVE Abstract!Next
    <3>1. CASE mode[h] = "shared"
      <4>1. Holders("exclusive") = {}
        BY <2>3, <3>1 DEF Lock, Grantable, Compatible, Kind, SameInode, Holders
      <4>2. /\ Holders("shared")' = Holders("shared") \cup {h}
            /\ Holders("exclusive")' = Holders("exclusive")
        BY <2>3, <3>1 DEF Lock, Holders
      <4>3. h \notin Holders("shared")
        BY <2>3 DEF Lock, Holders
      <4> QED BY <4>1, <4>2, <4>3 DEF Abstract!Next, Abstract!AcquireShared
    <3>2. CASE mode[h] = "exclusive"
      <4>1. Holders("exclusive") = {} /\ Holders("shared") = {}
        BY <2>3, <3>2 DEF Lock, Grantable, Compatible, Kind, SameInode, Holders
      <4>2. /\ Holders("shared")' = Holders("shared")
            /\ Holders("exclusive")' = {h}
        BY <2>3, <3>2, <4>1 DEF Lock, Holders
      <4> QED BY <4>1, <4>2 DEF Abstract!Next, Abstract!AcquireExclusive
    <3> QED BY <3>1, <3>2
  <2>4. ASSUME NEW h \in Handle, Drop(h) \/ Close(h)
        PROVE  Abstract!Next \/ UNCHANGED Abstract!vars
    <3>1. /\ Holders("shared")' = Holders("shared") \ {h}
          /\ Holders("exclusive")' = Holders("exclusive") \ {h}
      BY <2>4 DEF Drop, Close, Holders
    <3>2. CASE h \in Holders("shared") \cup Holders("exclusive")
      BY <3>1, <3>2 DEF Abstract!Next, Abstract!Release
    <3>3. CASE h \notin Holders("shared") \cup Holders("exclusive")
      BY <3>1, <3>3 DEF Abstract!vars
    <3> QED BY <3>2, <3>3
  <2> QED BY <2>1, <2>2, <2>3, <2>4 DEF LockNext
<1> QED BY <1>1, <1>2, FileLockInvariant, PTL DEF LockSpec, RwLockSpec, Abstract!Spec

-----------------------------------------------------------------------------
USE FilesAssumption, NonesAssumption, ProcsAssumption, BoundAssumption

(***************************************************************************)
(* Types.                                                                  *)
(***************************************************************************)

\* A package that is built goes to the innermost project and leaves the others as they were.
Grown(s, e) == [s EXCEPT ![1].built = Append(@, e)]

LEMMA GrowFrame ==
  ASSUME NEW s \in Seq(Frame), s # <<>>, NEW e \in Built
  PROVE  /\ Grown(s, e) \in Seq(Frame) /\ Grown(s, e) # <<>> /\ Len(Grown(s, e)) = Len(s)
         /\ 1 \in 1..Len(s) /\ Head(s) = s[1] /\ s[1] \in Frame
         /\ Grown(s, e)[1] = [owner |-> s[1].owner, built |-> Append(s[1].built, e)]
         /\ \A i \in 2..Len(s) : Grown(s, e)[i] = s[i]
<1>1. 1 \in 1..Len(s) /\ Head(s) = s[1] /\ s[1] \in Frame
  OBVIOUS
<1> DEFINE f == [owner |-> s[1].owner, built |-> Append(s[1].built, e)]
<1>2. s[1].built \in Seq(Built) /\ s[1].owner \in Pkg \cup {NoPkg}
  BY <1>1 DEF Frame
<1>3. Append(s[1].built, e) \in Seq(Built)
  BY <1>2
<1>4. f \in Frame
  BY <1>2, <1>3 DEF Frame
<1>5. [s[1] EXCEPT !.built = Append(s[1].built, e)] = f
  <2>1. PICK o, b : s[1] = [owner |-> o, built |-> b]
    BY <1>1 DEF Frame
  <2>2. \A c : [[owner |-> o, built |-> b] EXCEPT !.built = c] = [owner |-> o, built |-> c]
    OBVIOUS
  <2>3. s[1].owner = o
    BY <2>1
  <2> QED BY <2>1, <2>2, <2>3, Zenon
<1>6. Grown(s, e) = [s EXCEPT ![1] = f]
  BY <1>5 DEF Grown
<1> HIDE DEF f
<1>7. Grown(s, e) \in Seq(Frame) /\ Len(Grown(s, e)) = Len(s)
  BY <1>1, <1>4, <1>6
<1>8. Grown(s, e)[1] = f /\ \A i \in 2..Len(s) : Grown(s, e)[i] = s[i]
  BY <1>1, <1>6
<1>9. Grown(s, e) # <<>>
  BY <1>1, <1>7
<1> QED BY <1>1, <1>7, <1>8, <1>9 DEF f

\* Going into a manifest puts its project on top of the others.
LEMMA PushFrame ==
  ASSUME NEW s \in Seq(Frame), NEW f \in Frame
  PROVE  LET t == <<f>> \o s IN
         /\ t \in Seq(Frame) /\ t # <<>> /\ Len(t) = Len(s) + 1
         /\ t[1] = f
         /\ \A i \in 1..Len(s) : t[i + 1] = s[i]
OBVIOUS

\* Finishing a nested project uncovers the one around it.
LEMMA PopFrame ==
  ASSUME NEW s \in Seq(Frame), s # <<>>
  PROVE  /\ Tail(s) \in Seq(Frame)
         /\ Len(Tail(s)) = Len(s) - 1
         /\ \A i \in 1..Len(Tail(s)) : Tail(s)[i] = s[i + 1]
         /\ Head(s) = s[1] /\ s[1] \in Frame
         /\ Len(s) # 1 => Tail(s) # <<>>
<1>1. /\ Tail(s) \in Seq(Frame)
      /\ Len(Tail(s)) = Len(s) - 1
      /\ \A i \in 1..Len(Tail(s)) : Tail(s)[i] = s[i + 1]
      /\ Head(s) = s[1] /\ s[1] \in Frame
  OBVIOUS
<1>2. ASSUME Tail(s) = <<>> PROVE Len(s) = 1
  <2> DEFINE n == Len(s)
             m == Len(Tail(s))
  <2>1. Len(<<>>) = 0
    BY EmptySeq
  <2>2. m = 0
    BY ONLY <1>2, <2>1, Zenon
  <2>3. n \in Nat /\ m = n - 1
    BY <1>1
  <2> HIDE DEF n, m
  <2>4. n = 1
    BY <2>2, <2>3
  <2> QED BY <2>4 DEF n
<1> QED BY <1>1, <1>2

\* Of what is built of a project, the nodes and all of it are packages, and so is what is kept.
LEMMA BuiltFacts ==
  ASSUME NEW b \in Seq(Built)
  PROVE  /\ AllOf(b) \subseteq Pkg
         /\ Direct(b) \subseteq Merged(b) /\ Merged(b) \subseteq AllOf(b)
<1>1. \A i \in DOMAIN b : b[i].node \in Pkg /\ b[i].nested \subseteq Pkg
  <2>1. \A i \in DOMAIN b : b[i] \in Built
    OBVIOUS
  <2> QED BY <2>1 DEF Built
<1> QED BY <1>1 DEF AllOf, Direct, Kept, Merged

\* What handing on does to the run's own variables.
LEMMA HandOnMoves ==
  ASSUME NEW r, NEW N, HandOn(r, N)
  PROVE  /\ Goto(r, "project") /\ cur' = [cur EXCEPT ![r] = NoPkg]
         /\ pulled' = [pulled EXCEPT ![r] = {}]
         /\ \E s : stack' = [stack EXCEPT ![r] = s]
BY DEF HandOn

LEMMA HandOnGrows ==
  ASSUME NEW r, NEW N, HandOn(r, N)
  PROVE  stack' = [stack EXCEPT ![r] = Grown(stack[r], [node |-> cur[r], nested |-> N])]
BY DEF HandOn, Grown

\* The node that a run goes on with is one.
NextNode(r) == NodesOf(r, Project(r))[Len(Project(r).built) + 1]

LEMMA NextNodeIsNode ==
  ASSUME TypeOK, ProjectInv, NEW r \in Run, At(r, "project"), ~AllBuilt(r)
  PROVE  /\ Project(r) = stack[r][1] /\ Project(r) \in Frame
         /\ NodesOf(r, Project(r)) \in Seq(Pkg)
         /\ Len(Project(r).built) + 1 \in 1..Len(NodesOf(r, Project(r)))
         /\ NextNode(r) \in Pkg
<1>1. stack[r] \in Seq(Frame) /\ stack[r] # <<>>
  BY DEF TypeOK, RunTypes, At
<1>2. Project(r) = stack[r][1] /\ Project(r) \in Frame /\ 1 \in 1..Len(stack[r])
  BY <1>1, PopFrame DEF Project
<1>3. NodesOf(r, Project(r)) \in Seq(Pkg)
  BY <1>2, GraphsAssumption DEF NodesOf, Frame
<1>4. Len(Project(r).built) \in Nat /\ Len(NodesOf(r, Project(r))) \in Nat
  BY <1>2, <1>3 DEF Frame
<1>5. Len(Project(r).built) <= Len(NodesOf(r, Project(r)))
  BY <1>2 DEF ProjectInv, StackOk, BuiltOk
<1>6. Len(Project(r).built) + 1 \in 1..Len(NodesOf(r, Project(r)))
  BY <1>4, <1>5 DEF AllBuilt
<1>7. NextNode(r) \in Pkg
  BY <1>3, <1>6 DEF NextNode
<1> QED BY <1>2, <1>3, <1>6, <1>7

LEMMA TypeInit == Init => TypeOK
<1> SUFFICES ASSUME Init PROVE TypeOK
  OBVIOUS
<1>1. LockTypes
  BY DEF Init, LockTypes
<1>2. RunTypes
  <2>1. <<>> \in Seq(Frame)
    OBVIOUS
  <2> QED BY <2>1 DEF Init, RunTypes, RunPC
<1>3. DiskTypes
  BY DEF Init, DiskTypes, Archive, NoArchive, Record
<1>4. cpc \in [Cleaner -> {"off", "await", "clean"}]
  BY DEF Init
<1>5. starts \in Nat
  BY DEF Init
<1> QED BY <1>1, <1>2, <1>3, <1>4, <1>5 DEF TypeOK

LEMMA LockTypesStep == TypeOK /\ [Next]_vars => LockTypes'
<1> SUFFICES ASSUME TypeOK, [Next]_vars PROVE LockTypes'
  OBVIOUS
<1> USE DEF TypeOK, LockTypes, RunTypes, locks, vars
<1>1. CASE UNCHANGED locks
  BY <1>1
<1>2. ASSUME NEW r \in Run, EnterStorage(r) PROVE LockTypes'
  BY <1>2 DEF EnterStorage
<1>3. ASSUME NEW r \in Run, LockPackage(r) PROVE LockTypes'
  BY <1>3 DEF LockPackage
<1>4. ASSUME NEW r \in Run, EnterSlot(r) PROVE LockTypes'
  BY <1>4 DEF EnterSlot
<1>5. ASSUME NEW r \in Run, FinishNode(r) PROVE LockTypes'
  BY <1>5 DEF FinishNode
<1>6. ASSUME NEW r \in Run, Exit(r) PROVE LockTypes'
  BY <1>6 DEF Exit, WithoutRun
<1>7. ASSUME NEW c \in Cleaner, LockStorage(c) \/ FinishClean(c) \/ AbortClean(c)
      PROVE  LockTypes'
  BY <1>7 DEF LockStorage, FinishClean, AbortClean
<1> QED
  BY <1>1, <1>2, <1>3, <1>4, <1>5, <1>6, <1>7
  DEF Next, RunStep, CleanStep, Start, BuildNode, Lookup, PrepareSource, FinishProbe,
      FinishNested, CheckInstalled, Recheck, RemovePrefix, Unpack, DiscardArchive, Compile,
      InstallFiles, Pack, MarkInstalled, RemoveScratch, FinishRun, Abort, StartClean,
      CleanScratch, DeletePrefix, CorruptArchive

LEMMA DiskTypesStep == TypeOK /\ [Next]_vars => DiskTypes'
<1> SUFFICES ASSUME TypeOK, [Next]_vars PROVE DiskTypes'
  OBVIOUS
<1> USE DEF TypeOK, DiskTypes, RunTypes, disk, vars, At
<1>1. CASE UNCHANGED disk
  BY <1>1
<1>2. ASSUME NEW r \in Run, PrepareSource(r) \/ FinishProbe(r) \/ RemoveScratch(r)
      PROVE  DiskTypes'
  BY <1>2 DEF PrepareSource, FinishProbe, RemoveScratch
<1>3. ASSUME NEW r \in Run, RemovePrefix(r) \/ Unpack(r) \/ InstallFiles(r) \/ MarkInstalled(r)
      PROVE  DiskTypes'
  <2>1. cur[r] \in Pkg
    BY <1>3 DEF RemovePrefix, Unpack, InstallFiles, MarkInstalled
  <2>2. archive[cur[r]].files \subseteq File \cup {Marker}
    BY <2>1 DEF Archive
  <2>3. UNCHANGED <<archive, record, scratch>>
    BY <1>3 DEF RemovePrefix, Unpack, InstallFiles, MarkInstalled
  <2>4. prefix' = prefix \/ \E S \in SUBSET (File \cup {Marker}) : prefix' = [prefix EXCEPT ![cur[r]] = S]
    <3>1. CASE RemovePrefix(r)
      BY <2>1, <3>1 DEF RemovePrefix
    <3>2. CASE Unpack(r)
      BY <2>1, <2>2, <3>2 DEF Unpack
    <3>3. CASE InstallFiles(r)
      BY <2>1, <3>3 DEF InstallFiles
    <3>4. CASE MarkInstalled(r)
      BY <2>1, <3>4 DEF MarkInstalled
    <3> QED BY <1>3, <3>1, <3>2, <3>3, <3>4
  <2>5. prefix' \in [Pkg -> SUBSET (File \cup {Marker})]
    BY <2>1, <2>4
  <2> QED BY <2>3, <2>5
<1>4. ASSUME NEW r \in Run, DiscardArchive(r) \/ Pack(r) PROVE DiskTypes'
  <2>1. cur[r] \in Pkg
    BY <1>4 DEF DiscardArchive, Pack
  <2>2. UNCHANGED <<prefix, record, scratch>>
    BY <1>4 DEF DiscardArchive, Pack
  <2>3. archive' = archive \/ \E a \in Archive : archive' = [archive EXCEPT ![cur[r]] = a]
    <3>1. NoArchive \in Archive
      BY DEF NoArchive, Archive
    <3>2. [state |-> "good", files |-> prefix[cur[r]]] \in Archive
      BY <2>1 DEF Archive
    <3>3. CASE DiscardArchive(r)
      BY <2>1, <3>1, <3>3 DEF DiscardArchive
    <3>4. CASE Pack(r)
      BY <2>1, <3>2, <3>4 DEF Pack, Packed
    <3> QED BY <1>4, <3>3, <3>4
  <2>4. archive' \in [Pkg -> Archive]
    BY <2>1, <2>3
  <2> QED BY <2>2, <2>4
<1>5. ASSUME NEW r \in Run, EnterSlot(r) PROVE DiskTypes'
  <2>1. cur[r] \in Pkg /\ UNCHANGED <<prefix, archive, record>>
    BY <1>5 DEF EnterSlot
  <2>2. scratch' \in {scratch, scratch \cup {<<cur[r], NoRun>>}}
    BY <1>5 DEF EnterSlot
  <2> QED BY <2>1, <2>2
<1>6. ASSUME NEW r \in Run, FinishNode(r) PROVE DiskTypes'
  <2>1. pulled[r] \in Record
    BY DEF Record
  <2> QED BY <1>6, <2>1 DEF FinishNode
<1>7. ASSUME NEW r \in Run, Abort(r) PROVE DiskTypes'
  BY <1>7 DEF Abort
<1>8. ASSUME NEW c \in Cleaner, CleanScratch(c) PROVE DiskTypes'
  BY <1>8 DEF CleanScratch
<1>9. ASSUME NEW p \in Pkg, DeletePrefix(p) \/ CorruptArchive(p) PROVE DiskTypes'
  <2>1. [state |-> "corrupt", files |-> archive[p].files] \in Archive
    BY DEF Archive
  <2>2. CASE DeletePrefix(p)
    BY <2>2 DEF DeletePrefix
  <2>3. CASE CorruptArchive(p)
    BY <2>1, <2>3 DEF CorruptArchive
  <2> QED BY <1>9, <2>2, <2>3
<1> QED
  BY <1>1, <1>2, <1>3, <1>4, <1>5, <1>6, <1>7, <1>8, <1>9
  DEF Next, RunStep, CleanStep, Start, EnterStorage, BuildNode, Lookup, FinishNested,
      CheckInstalled, LockPackage, Recheck, Compile, FinishRun, StartClean, LockStorage,
      FinishClean, AbortClean

\* Where a run is working on a package.
Working == RunPC \ {"off", "await", "project"}

\* Most steps only move the run on while it works on a package.
LEMMA MoveTypes ==
  ASSUME RunTypes, NEW r \in Run, pc[r] \in Working,
         pc' = pc \/ \E l \in Working : Goto(r, l), UNCHANGED <<cur, stack, pulled>>
  PROVE  RunTypes'
<1>1. CASE pc' = pc
  BY <1>1 DEF RunTypes
<1>2. ASSUME NEW l \in Working, Goto(r, l) PROVE RunTypes'
  BY <1>2 DEF RunTypes, Goto, Working, RunPC
<1> QED BY <1>1, <1>2

LEMMA RunTypesStep == TypeOK /\ ProjectInv /\ [Next]_vars => RunTypes'
<1> SUFFICES ASSUME TypeOK, ProjectInv, [Next]_vars PROVE RunTypes'
  OBVIOUS
<1> USE DEF TypeOK, RunTypes, runs, vars, At
<1>1. CASE UNCHANGED runs
  BY <1>1
<1>2. ASSUME NEW r \in Run, Start(r) \/ EnterStorage(r) PROVE RunTypes'
  <2>1. CASE Start(r)
    BY <2>1 DEF Start, Goto, RunPC
  <2>2. CASE EnterStorage(r)
    <3>1. <<[owner |-> NoPkg, built |-> <<>>]>> \in Seq(Frame)
      BY DEF Frame
    <3> QED BY <2>2, <3>1 DEF EnterStorage, Goto, RunPC
  <2> QED BY <1>2, <2>1, <2>2
<1>3. ASSUME NEW r \in Run, BuildNode(r) PROVE RunTypes'
  <2>1. NextNode(r) \in Pkg
    BY <1>3, NextNodeIsNode DEF BuildNode
  <2> QED BY <1>3, <2>1 DEF BuildNode, NextNode, Goto, RunPC
<1>4. ASSUME NEW r \in Run, Lookup(r) \/ FinishNode(r) PROVE RunTypes'
  <2>1. cur[r] \in Pkg /\ stack[r] \in Seq(Frame) /\ stack[r] # <<>>
    BY <1>4 DEF Lookup, FinishNode
  <2>2. ASSUME NEW N \in SUBSET Pkg, HandOn(r, N) PROVE RunTypes'
    <3> DEFINE e == [node |-> cur[r], nested |-> N]
               g == Grown(stack[r], e)
    <3>1. g \in Seq(Frame) /\ g # <<>>
      <4>1. e \in Built
        BY <2>1 DEF Built
      <4> HIDE DEF e
      <4> QED BY ONLY <2>1, <4>1, GrowFrame
    <3>2. /\ pc' = [pc EXCEPT ![r] = "project"] /\ cur' = [cur EXCEPT ![r] = NoPkg]
          /\ pulled' = [pulled EXCEPT ![r] = {}] /\ stack' = [stack EXCEPT ![r] = g]
      BY <2>2, HandOnMoves, HandOnGrows DEF Goto
    <3> HIDE DEF g
    <3> QED BY <2>1, <3>1, <3>2 DEF RunPC
  <2>3. CASE Goto(r, "source") /\ UNCHANGED <<cur, stack, pulled>>
    BY <2>1, <2>3 DEF Goto, RunPC
  <2>4. RecordHit(cur[r]) => record[cur[r]] \in SUBSET Pkg
    BY <2>1 DEF RecordHit, DiskTypes, Record
  <2>5. CASE Lookup(r)
    BY <2>2, <2>3, <2>4, <2>5 DEF Lookup
  <2>6. CASE FinishNode(r)
    <3>1. HandOn(r, pulled[r]) /\ pulled[r] \in SUBSET Pkg
      BY <2>6 DEF FinishNode
    <3> QED BY <2>2, <3>1
  <2> QED BY <1>4, <2>5, <2>6
<1>5. ASSUME NEW r \in Run, PrepareSource(r) \/ FinishProbe(r) PROVE RunTypes'
  <2>1. cur[r] \in Pkg
    BY <1>5 DEF PrepareSource, FinishProbe
  <2>2. [owner |-> cur[r], built |-> <<>>] \in Frame
    BY <2>1 DEF Frame
  <2>3. CASE Descend(r) /\ UNCHANGED pulled
    <3>1. PICK t \in Seq(Frame) : t # <<>> /\ stack' = [stack EXCEPT ![r] = t]
      <4>1. stack' = [stack EXCEPT ![r] = <<[owner |-> cur[r], built |-> <<>>]>> \o stack[r]]
        BY <2>3 DEF Descend
      <4>2. stack[r] \in Seq(Frame)
        OBVIOUS
      <4> QED BY <2>2, <4>1, <4>2, PushFrame
    <3> QED BY <2>3, <3>1 DEF Descend, Goto, RunPC
  <2>4. CASE Goto(r, "check") /\ UNCHANGED <<cur, stack, pulled>>
    BY <1>5, <2>1, <2>4 DEF Goto, RunPC
  <2>5. CASE Goto(r, "probe") /\ UNCHANGED <<cur, stack, pulled>>
    BY <1>5, <2>1, <2>5 DEF Goto, RunPC
  <2> QED BY <1>5, <2>3, <2>4, <2>5 DEF PrepareSource, FinishProbe
<1>6. ASSUME NEW r \in Run, FinishNested(r) PROVE RunTypes'
  <2>1. stack[r] \in Seq(Frame) /\ stack[r] # <<>>
    BY <1>6 DEF FinishNested
  <2>2. Project(r) = stack[r][1] /\ Project(r) \in Frame /\ Project(r).owner \in Pkg
    BY <1>6, <2>1, PopFrame DEF FinishNested, IsNested, Frame, Project
  <2>3. 1 \in 1..Len(stack[r]) /\ 1 # Len(stack[r])
    BY <2>1, <2>2, NonesAssumption DEF ProjectInv, StackOk
  <2>4. PICK t \in Seq(Frame) : t # <<>> /\ stack' = [stack EXCEPT ![r] = t]
    <3>1. Tail(stack[r]) \in Seq(Frame) /\ Tail(stack[r]) # <<>>
      BY <2>1, <2>3, PopFrame
    <3>2. stack' = [stack EXCEPT ![r] = Tail(stack[r])]
      BY <1>6 DEF FinishNested
    <3> QED BY <3>1, <3>2
  <2>5. Merged(Project(r).built) \in SUBSET Pkg
    BY <2>2, BuiltFacts DEF Frame
  <2>6. /\ cur' = [cur EXCEPT ![r] = Project(r).owner]
        /\ Goto(r, "check")
        /\ pulled' = [pulled EXCEPT ![r] = Merged(Project(r).built)]
    BY <1>6 DEF FinishNested
  <2> QED BY <2>2, <2>4, <2>5, <2>6 DEF Goto, RunPC
<1>7. ASSUME NEW r \in Run,
             \/ CheckInstalled(r) \/ LockPackage(r) \/ Recheck(r) \/ RemovePrefix(r)
             \/ Unpack(r) \/ DiscardArchive(r) \/ EnterSlot(r) \/ Compile(r)
             \/ InstallFiles(r) \/ Pack(r) \/ MarkInstalled(r) \/ RemoveScratch(r)
      PROVE  RunTypes'
  <2>1. pc[r] \in Working /\ UNCHANGED <<cur, stack, pulled>>
    BY <1>7 DEF Working, RunPC, CheckInstalled, LockPackage, Recheck, RemovePrefix, Unpack,
                DiscardArchive, EnterSlot, Compile, InstallFiles, Pack, MarkInstalled,
                RemoveScratch
  <2>2. pc' = pc \/ \E l \in Working : Goto(r, l)
    BY <1>7 DEF Working, RunPC, CheckInstalled, LockPackage, Recheck, RemovePrefix, Unpack,
                DiscardArchive, EnterSlot, Compile, InstallFiles, Pack, MarkInstalled,
                RemoveScratch
  <2> QED BY <2>1, <2>2, MoveTypes
<1>8. ASSUME NEW r \in Run, Exit(r) PROVE RunTypes'
  BY <1>8 DEF Exit, Goto, RunPC
<1> QED
  BY <1>1, <1>2, <1>3, <1>4, <1>5, <1>6, <1>7, <1>8
  DEF Next, RunStep, CleanStep, FinishRun, Abort, StartClean, LockStorage, CleanScratch,
      FinishClean, AbortClean, DeletePrefix, CorruptArchive

LEMMA TypeStep == TypeOK /\ ProjectInv /\ [Next]_vars => TypeOK'
<1> SUFFICES ASSUME TypeOK, ProjectInv, [Next]_vars PROVE TypeOK'
  OBVIOUS
<1>1. ASSUME NEW r \in Run, Start(r) \/ RunStep(r) \/ Abort(r)
      PROVE  cpc' = cpc /\ starts' \in {starts, starts + 1}
  <2>1. CASE Start(r) \/ FinishRun(r) \/ Abort(r)
    BY <2>1 DEF Start, FinishRun, Abort, Exit, CountStart
  <2>2. CASE EnterStorage(r) \/ BuildNode(r) \/ Lookup(r) \/ PrepareSource(r)
    BY <2>2 DEF EnterStorage, BuildNode, Lookup, PrepareSource
  <2>3. CASE FinishProbe(r) \/ FinishNested(r) \/ CheckInstalled(r) \/ LockPackage(r)
    BY <2>3 DEF FinishProbe, FinishNested, CheckInstalled, LockPackage
  <2>4. CASE Recheck(r) \/ RemovePrefix(r) \/ Unpack(r) \/ DiscardArchive(r)
    BY <2>4 DEF Recheck, RemovePrefix, Unpack, DiscardArchive
  <2>5. CASE EnterSlot(r) \/ Compile(r) \/ InstallFiles(r) \/ Pack(r)
    BY <2>5 DEF EnterSlot, Compile, InstallFiles, Pack
  <2>6. CASE MarkInstalled(r) \/ RemoveScratch(r) \/ FinishNode(r)
    BY <2>6 DEF MarkInstalled, RemoveScratch, FinishNode
  <2> QED BY <1>1, <2>1, <2>2, <2>3, <2>4, <2>5, <2>6 DEF RunStep
<1>2. ASSUME NEW c \in Cleaner, StartClean(c) \/ CleanStep(c) \/ AbortClean(c)
      PROVE  /\ \E l \in {"off", "await", "clean"} : cpc' \in {cpc, [cpc EXCEPT ![c] = l]}
             /\ starts' \in {starts, starts + 1}
  BY <1>2 DEF StartClean, CleanStep, LockStorage, CleanScratch, FinishClean, AbortClean,
              CountStart
<1>3. ASSUME NEW p \in Pkg, DeletePrefix(p) \/ CorruptArchive(p) PROVE UNCHANGED <<cpc, starts>>
  BY <1>3 DEF DeletePrefix, CorruptArchive
<1>4. cpc' \in [Cleaner -> {"off", "await", "clean"}] /\ starts' \in Nat
  BY <1>1, <1>2, <1>3 DEF TypeOK, vars, Next
<1> QED BY <1>4, LockTypesStep, RunTypesStep, DiskTypesStep DEF TypeOK

(***************************************************************************)
(* Locks.                                                                  *)
(***************************************************************************)

\* What a step of one run leaves to the others.
OthersKeep(r) ==
  \A s \in Run \ {r} :
    /\ pc'[s] = pc[s] /\ cur'[s] = cur[s] /\ stack'[s] = stack[s] /\ pulled'[s] = pulled[s]
    /\ s \in shared' <=> s \in shared
    /\ s \in slot' <=> s \in slot
    /\ \A p \in Pkg : s \in pkgLock'[p] <=> s \in pkgLock[p]

LEMMA OthersKept ==
  ASSUME TypeOK, NEW r \in Run, Start(r) \/ RunStep(r) \/ Abort(r)
  PROVE  OthersKeep(r) /\ UNCHANGED <<excl, cpc>>
<1> USE DEF OthersKeep, TypeOK, LockTypes, RunTypes, locks, At, Goto
<1>1. CASE Start(r) \/ EnterStorage(r) \/ BuildNode(r) \/ Lookup(r)
  BY <1>1, HandOnMoves DEF Start, EnterStorage, BuildNode, Lookup
<1>2. CASE PrepareSource(r) \/ FinishProbe(r) \/ FinishNested(r)
  BY <1>2 DEF PrepareSource, FinishProbe, FinishNested, Descend
<1>3. CASE CheckInstalled(r) \/ LockPackage(r) \/ Recheck(r) \/ RemovePrefix(r)
  <2>1. CASE CheckInstalled(r)
    BY <2>1 DEF CheckInstalled
  <2>2. CASE LockPackage(r)
    BY <2>2 DEF LockPackage
  <2>3. CASE Recheck(r)
    BY <2>3 DEF Recheck
  <2>4. CASE RemovePrefix(r)
    BY <2>4 DEF RemovePrefix
  <2> QED BY <1>3, <2>1, <2>2, <2>3, <2>4
<1>4. CASE Unpack(r) \/ DiscardArchive(r) \/ EnterSlot(r) \/ Compile(r)
  BY <1>4 DEF Unpack, DiscardArchive, EnterSlot, Compile
<1>5. CASE InstallFiles(r) \/ Pack(r) \/ MarkInstalled(r) \/ RemoveScratch(r)
  BY <1>5 DEF InstallFiles, Pack, MarkInstalled, RemoveScratch
<1>6. CASE FinishNode(r)
  BY <1>6, HandOnMoves DEF FinishNode
<1>7. CASE Exit(r)
  BY <1>7 DEF Exit, WithoutRun
<1> QED BY <1>1, <1>2, <1>3, <1>4, <1>5, <1>6, <1>7 DEF RunStep, FinishRun, Abort

\* To see that a run's step keeps LockInv it is enough to look at that run.
LEMMA OneRunMoves ==
  ASSUME TypeOK, TypeOK', LockInv, NEW r \in Run, OthersKeep(r), UNCHANGED <<excl, cpc>>,
         Holds(r)', excl # {} => shared' = {},
         r \in slot' => slot \subseteq {r},
         \A p \in Pkg : r \in pkgLock'[p] => pkgLock[p] \subseteq {r}
  PROVE  LockInv'
<1> USE DEF LockInv
<1>1. \A s \in Run : Holds(s)'
  <2> SUFFICES ASSUME NEW s \in Run, s # r PROVE Holds(s)'
    OBVIOUS
  <2>1. Holds(s)
    OBVIOUS
  <2>2. /\ pc'[s] = pc[s] /\ cur'[s] = cur[s]
        /\ s \in shared' <=> s \in shared
        /\ s \in slot' <=> s \in slot
        /\ \A p \in Pkg : s \in pkgLock'[p] <=> s \in pkgLock[p]
    BY DEF OthersKeep
  <2>3. pc[s] \in Locked => cur[s] \in Pkg
    BY DEF TypeOK, RunTypes, Locked
  <2> QED BY <2>1, <2>2, <2>3 DEF Holds
<1>2. \A p \in Pkg : \A s, t \in pkgLock'[p] : s = t
  BY DEF OthersKeep, TypeOK, LockTypes
<1>3. \A s, t \in slot' : s = t
  BY DEF OthersKeep, TypeOK, LockTypes
<1>4. /\ \A c \in Cleaner : c \in excl' <=> cpc'[c] = "clean"
      /\ excl' # {} => shared' = {}
      /\ \A c, d \in excl' : c = d
  OBVIOUS
<1> QED BY <1>1, <1>2, <1>3, <1>4

LEMMA HoldsStep ==
  ASSUME TypeOK, LockInv, NEW r \in Run, Start(r) \/ RunStep(r) \/ Abort(r)
  PROVE  /\ Holds(r)'
         /\ excl # {} => shared' = {}
         /\ r \in slot' => slot \subseteq {r}
         /\ \A p \in Pkg : r \in pkgLock'[p] => pkgLock[p] \subseteq {r}
<1> USE DEF TypeOK, LockTypes, RunTypes, locks, At, Goto, Holds, Locked, Slotted
<1>1. /\ Holds(r)
      /\ excl # {} => shared = {}
      /\ r \in slot => slot \subseteq {r}
      /\ \A p \in Pkg : r \in pkgLock[p] => pkgLock[p] \subseteq {r}
  BY DEF LockInv
<1>2. CASE Start(r)
  BY <1>1, <1>2 DEF Start
<1>3. CASE EnterStorage(r)
  BY <1>1, <1>3 DEF EnterStorage, MayRun
<1>4. CASE BuildNode(r) \/ Lookup(r) \/ FinishNested(r)
  <2>1. CASE BuildNode(r)
    BY <1>1, <2>1 DEF BuildNode
  <2>2. CASE Lookup(r)
    BY <1>1, <2>2, HandOnMoves DEF Lookup
  <2>3. CASE FinishNested(r)
    BY <1>1, <2>3 DEF FinishNested
  <2> QED BY <1>4, <2>1, <2>2, <2>3
<1>5. CASE PrepareSource(r)
  BY <1>1, <1>5 DEF PrepareSource, Descend
<1>6. CASE FinishProbe(r)
  BY <1>1, <1>6 DEF FinishProbe, Descend
<1>7. CASE CheckInstalled(r) \/ Recheck(r)
  BY <1>1, <1>7 DEF CheckInstalled, Recheck
<1>8. CASE LockPackage(r)
  BY <1>1, <1>8 DEF LockPackage, PackageFree
<1>9. CASE RemovePrefix(r)
  <2>1. PICK l \in {"remove", "purge", "unpack", "slot"} : pc' = [pc EXCEPT ![r] = l]
    BY <1>9 DEF RemovePrefix
  <2>2. pc[r] \in {"remove", "purge"} /\ UNCHANGED <<locks, cur>>
    BY <1>9 DEF RemovePrefix
  <2> QED BY <1>1, <2>1, <2>2
<1>10. CASE Unpack(r) \/ InstallFiles(r)
  BY <1>1, <1>10 DEF Unpack, InstallFiles
<1>11. CASE DiscardArchive(r) \/ Compile(r) \/ Pack(r)
  BY <1>1, <1>11 DEF DiscardArchive, Compile, Pack
<1>12. CASE EnterSlot(r)
  BY <1>1, <1>12 DEF EnterSlot, SlotFree
<1>13. CASE MarkInstalled(r) \/ RemoveScratch(r)
  BY <1>1, <1>13 DEF MarkInstalled, RemoveScratch
<1>14. CASE FinishNode(r)
  BY <1>1, <1>14, HandOnMoves DEF FinishNode
<1>15. CASE Exit(r)
  BY <1>1, <1>15 DEF Exit, WithoutRun
<1> QED
  BY <1>2, <1>3, <1>4, <1>5, <1>6, <1>7, <1>8, <1>9, <1>10, <1>11, <1>12, <1>13, <1>14, <1>15
  DEF RunStep, FinishRun, Abort

LEMMA LockStep == TypeOK /\ TypeOK' /\ LockInv /\ [Next]_vars => LockInv'
<1> SUFFICES ASSUME TypeOK, TypeOK', LockInv, [Next]_vars PROVE LockInv'
  OBVIOUS
<1>1. CASE UNCHANGED <<locks, runs, cpc>>
  BY <1>1 DEF LockInv, Holds, locks, runs
<1>2. ASSUME NEW r \in Run, Start(r) \/ RunStep(r) \/ Abort(r) PROVE LockInv'
  BY <1>2, OthersKept, HoldsStep, OneRunMoves
<1>3. ASSUME NEW c \in Cleaner, StartClean(c) \/ CleanStep(c) \/ AbortClean(c)
      PROVE  LockInv'
  <2>1. UNCHANGED <<shared, pkgLock, slot, runs>>
    BY <1>3 DEF StartClean, CleanStep, LockStorage, CleanScratch, FinishClean, AbortClean, locks
  <2>2. \A r \in Run : Holds(r)'
    BY <2>1 DEF LockInv, Holds, runs
  <2>3. /\ \A d \in Cleaner : d \in excl' <=> cpc'[d] = "clean"
        /\ excl' # {} => shared' = {}
        /\ \A d, e \in excl' : d = e
    <3> USE DEF LockInv, TypeOK, LockTypes
    <3>1. CASE StartClean(c) \/ CleanScratch(c)
      BY <2>1, <3>1 DEF StartClean, CleanScratch, locks
    <3>2. CASE LockStorage(c)
      BY <2>1, <3>2 DEF LockStorage, MayClean
    <3>3. CASE FinishClean(c) \/ AbortClean(c)
      BY <2>1, <3>3 DEF FinishClean, AbortClean
    <3> QED BY <1>3, <3>1, <3>2, <3>3 DEF CleanStep
  <2> QED BY <2>1, <2>2, <2>3 DEF LockInv
<1>4. ASSUME NEW p \in Pkg, DeletePrefix(p) \/ CorruptArchive(p)
      PROVE  UNCHANGED <<locks, runs, cpc>>
  BY <1>4 DEF DeletePrefix, CorruptArchive
<1> QED BY <1>1, <1>2, <1>3, <1>4 DEF Next, vars

(***************************************************************************)
(* Prefixes and archives.                                                  *)
(***************************************************************************)

\* Who is between taking and dropping a package's lock is alone there.
LEMMA LockedAlone ==
  ASSUME TypeOK, LockInv, NEW r \in Run, NEW s \in Run,
         pc[r] \in Locked, pc[s] \in Locked, cur[r] = cur[s]
  PROVE  r = s
<1>1. cur[r] \in Pkg
  BY DEF TypeOK, RunTypes, Locked
<1> QED BY <1>1 DEF LockInv, Holds

\* A run writes into the prefix of its own package only, and its archive.
LEMMA WritesOwn ==
  ASSUME TypeOK, NEW r \in Run, Start(r) \/ RunStep(r) \/ Abort(r)
  PROVE  /\ \/ UNCHANGED prefix
            \/ /\ pc[r] \in Filling
               /\ \A p \in Pkg \ {cur[r]} : prefix'[p] = prefix[p]
         /\ \/ UNCHANGED archive
            \/ /\ pc[r] \in Filling
               /\ \A p \in Pkg \ {cur[r]} : archive'[p] = archive[p]
<1> USE DEF TypeOK, DiskTypes, Filling, At, disk
<1>1. CASE UNCHANGED <<prefix, archive>>
  BY <1>1
<1>2. CASE RemovePrefix(r)
  BY <1>2 DEF RemovePrefix
<1>3. CASE Unpack(r)
  BY <1>3 DEF Unpack
<1>4. CASE InstallFiles(r) \/ MarkInstalled(r)
  BY <1>4 DEF InstallFiles, MarkInstalled
<1>5. CASE DiscardArchive(r) \/ Pack(r)
  BY <1>5 DEF DiscardArchive, Pack
<1> QED
  BY <1>1, <1>2, <1>3, <1>4, <1>5
  DEF RunStep, Start, EnterStorage, BuildNode, Lookup, PrepareSource, FinishProbe,
      FinishNested, CheckInstalled, LockPackage, Recheck, EnterSlot, Compile, RemoveScratch,
      FinishNode, FinishRun, Abort

\* A run at work on a prefix has not found it installed, so an installed one
\* is left alone by every run; the user leaves them alone while a run is on.
LEMMA InstalledKept ==
  ASSUME TypeOK, LockInv, PrefixInv, [Next]_vars, shared # {}, NEW p \in Pkg, Installed(p)
  PROVE  prefix'[p] = prefix[p]
<1>1. ASSUME NEW r \in Run, Start(r) \/ RunStep(r) \/ Abort(r) PROVE prefix'[p] = prefix[p]
  <2>1. pc[r] \in Filling => p # cur[r]
    BY DEF PrefixInv, NeverRebuildInstalled
  <2> QED BY <1>1, <2>1, WritesOwn
<1>2. ASSUME NEW c \in Cleaner, StartClean(c) \/ CleanStep(c) \/ AbortClean(c)
      PROVE  UNCHANGED prefix
  BY <1>2 DEF StartClean, CleanStep, AbortClean, LockStorage, CleanScratch, FinishClean, disk
<1>3. ASSUME NEW q \in Pkg, DeletePrefix(q) \/ CorruptArchive(q) PROVE UNCHANGED prefix
  BY <1>3 DEF DeletePrefix, CorruptArchive
<1>4. CASE UNCHANGED vars
  BY <1>4 DEF vars, disk
<1> QED BY <1>1, <1>2, <1>3, <1>4 DEF Next

\* PrefixInv, of one run and of one package.
Knows(r) ==
  /\ pc[r] \in Filling => ~Installed(cur[r])
  /\ pc[r] \in {"pack", "mark"} => File \subseteq prefix[cur[r]]
  /\ pc[r] \in {"tidy", "done"} => Installed(cur[r])

Sound(p) ==
  /\ Installed(p) => File \subseteq prefix[p]
  /\ archive[p].files \subseteq File
  /\ archive[p].state = "good" => archive[p].files = File

LEMMA PrefixParts ==
  PrefixInv <=> (\A r \in Run : Knows(r)) /\ (\A p \in Pkg : Sound(p))
BY DEF PrefixInv, Knows, Sound, MarkerMeansComplete, ArchiveMeansComplete,
       NeverRebuildInstalled

\* A step of a run keeps the part about that run and its package.
LEMMA KnowsStep ==
  ASSUME TypeOK, PrefixInv, NEW r \in Run, Start(r) \/ RunStep(r) \/ Abort(r)
  PROVE  /\ Knows(r)'
         /\ \A p \in Pkg : p = cur[r] => Sound(p)'
<1> USE DEF TypeOK, RunTypes, DiskTypes, At, Goto, Knows, Sound, Installed, Filling, disk
<1>1. Knows(r) /\ \A p \in Pkg : Sound(p)
  BY PrefixParts
<1>2. CASE UNCHANGED <<prefix, archive>> /\ pc'[r] \notin Filling \cup {"tidy", "done"}
  BY <1>1, <1>2
<1>3. ASSUME \/ Start(r) \/ EnterStorage(r) \/ BuildNode(r) \/ Lookup(r) \/ PrepareSource(r)
             \/ FinishProbe(r) \/ FinishNested(r) \/ FinishNode(r) \/ FinishRun(r) \/ Abort(r)
      PROVE  UNCHANGED <<prefix, archive>> /\ pc'[r] \notin Filling \cup {"tidy", "done"}
  <2>1. CASE Start(r) \/ EnterStorage(r) \/ BuildNode(r) \/ Lookup(r) \/ FinishNested(r)
    BY <2>1, HandOnMoves DEF Start, EnterStorage, BuildNode, Lookup, FinishNested, Goto
  <2>2. CASE PrepareSource(r) \/ FinishProbe(r) \/ FinishNode(r)
    BY <2>2, HandOnMoves DEF PrepareSource, FinishProbe, Descend, FinishNode, Goto
  <2>3. CASE FinishRun(r) \/ Abort(r)
    BY <2>3 DEF FinishRun, Abort, Exit
  <2> QED BY <1>3, <2>1, <2>2, <2>3
<1>4. CASE CheckInstalled(r) \/ LockPackage(r) \/ Recheck(r)
  BY <1>1, <1>4 DEF CheckInstalled, LockPackage, Recheck, FoundUnderLock
<1>5. CASE RemovePrefix(r)
  BY <1>1, <1>5 DEF RemovePrefix
<1>6. CASE Unpack(r)
  BY <1>1, <1>6 DEF Unpack
<1>7. CASE DiscardArchive(r)
  BY <1>1, <1>7 DEF DiscardArchive, NoArchive
<1>8. CASE EnterSlot(r) \/ Compile(r)
  BY <1>1, <1>8 DEF EnterSlot, Compile
<1>9. CASE InstallFiles(r)
  BY <1>1, <1>9 DEF InstallFiles
<1>10. CASE Pack(r)
  <2>1. cur[r] \in Pkg /\ pc[r] = "pack"
    BY <1>10 DEF Pack
  <2>2. File \subseteq prefix[cur[r]] /\ Marker \notin prefix[cur[r]]
    BY <1>1, <2>1
  <2>3. prefix[cur[r]] \subseteq File \cup {Marker}
    BY <2>1
  <2>4. prefix[cur[r]] = File
    BY ONLY <2>2, <2>3
  <2> QED BY <1>1, <1>10, <2>4 DEF Pack, Packed
<1>11. CASE MarkInstalled(r)
  BY <1>1, <1>11 DEF MarkInstalled
<1>12. CASE RemoveScratch(r)
  BY <1>1, <1>12 DEF RemoveScratch
<1> QED
  BY <1>2, <1>3, <1>4, <1>5, <1>6, <1>7, <1>8, <1>9, <1>10, <1>11, <1>12 DEF RunStep

LEMMA PrefixStep ==
  TypeOK /\ LockInv /\ PrefixInv /\ [Next]_vars => PrefixInv'
<1> SUFFICES ASSUME TypeOK, LockInv, PrefixInv, [Next]_vars PROVE PrefixInv'
  OBVIOUS
<1>1. (\A r \in Run : Knows(r)) /\ (\A p \in Pkg : Sound(p))
  BY PrefixParts
<1>2. \A s \in Run : pc[s] \in {"tidy", "done"} =>
        cur[s] \in Pkg /\ shared # {} /\ prefix'[cur[s]] = prefix[cur[s]]
  <2> SUFFICES ASSUME NEW s \in Run, pc[s] \in {"tidy", "done"}
               PROVE  cur[s] \in Pkg /\ shared # {} /\ prefix'[cur[s]] = prefix[cur[s]]
    OBVIOUS
  <2>1. cur[s] \in Pkg
    BY DEF TypeOK, RunTypes
  <2>2. s \in shared
    BY DEF LockInv, Holds
  <2>3. Installed(cur[s])
    BY <1>1 DEF Knows
  <2> QED BY <2>1, <2>2, <2>3, InstalledKept
<1>3. ASSUME NEW r \in Run, Start(r) \/ RunStep(r) \/ Abort(r) PROVE PrefixInv'
  <2>1. OthersKeep(r)
    BY <1>3, OthersKept
  <2>2. Knows(r)' /\ \A p \in Pkg : p = cur[r] => Sound(p)'
    BY <1>3, KnowsStep
  <2>3. \A s \in Run : Knows(s)'
    <3> SUFFICES ASSUME NEW s \in Run, s # r PROVE Knows(s)'
      BY <2>2
    <3>1. Knows(s) /\ pc'[s] = pc[s] /\ cur'[s] = cur[s]
      BY <1>1, <2>1 DEF OthersKeep
    <3>2. pc[s] \in Filling => cur[s] \in Pkg /\ prefix'[cur[s]] = prefix[cur[s]]
      <4> SUFFICES ASSUME pc[s] \in Filling
                   PROVE  cur[s] \in Pkg /\ prefix'[cur[s]] = prefix[cur[s]]
        OBVIOUS
      <4>1. cur[s] \in Pkg
        BY DEF TypeOK, RunTypes, Filling
      <4>2. pc[r] \in Filling => cur[s] # cur[r]
        BY LockedAlone DEF Filling, Locked
      <4> QED BY <1>3, <4>1, <4>2, WritesOwn
    <3>3. pc[s] \in {"pack", "mark"} => pc[s] \in Filling
      BY DEF Filling
    <3> QED BY <1>2, <3>1, <3>2, <3>3 DEF Knows, Installed
  <2>4. \A p \in Pkg : Sound(p)'
    <3> SUFFICES ASSUME NEW p \in Pkg, p # cur[r] PROVE Sound(p)'
      BY <2>2
    <3>1. prefix'[p] = prefix[p] /\ archive'[p] = archive[p]
      BY <1>3, WritesOwn
    <3> QED BY <1>1, <3>1 DEF Sound, Installed
  <2>5. (\A s \in Run : Knows(s)') /\ (\A p \in Pkg : Sound(p)') => PrefixInv'
    BY DEF PrefixInv, Knows, Sound, MarkerMeansComplete, ArchiveMeansComplete,
           NeverRebuildInstalled
  <2> QED BY <2>3, <2>4, <2>5
<1>4. CASE UNCHANGED <<pc, cur, prefix, archive>>
  BY <1>4 DEF PrefixInv, MarkerMeansComplete, ArchiveMeansComplete, NeverRebuildInstalled,
              Installed
<1>5. ASSUME NEW c \in Cleaner, StartClean(c) \/ CleanStep(c) \/ AbortClean(c)
      PROVE  UNCHANGED <<pc, cur, prefix, archive>>
  BY <1>5 DEF StartClean, CleanStep, AbortClean, LockStorage, CleanScratch, FinishClean,
              disk, runs
<1>6. ASSUME NEW q \in Pkg, DeletePrefix(q) \/ CorruptArchive(q) PROVE PrefixInv'
  <2>1. CASE DeletePrefix(q)
    <3>1. \A s \in Run : pc[s] \in {"off", "await"}
      BY <2>1 DEF DeletePrefix, LockInv, Holds
    <3>2. UNCHANGED <<pc, cur, archive>> /\ prefix' = [prefix EXCEPT ![q] = {}]
      BY <2>1 DEF DeletePrefix, runs
    <3>3. \A p \in Pkg : Sound(p)'
      BY <1>1, <3>2 DEF Sound, Installed, TypeOK, DiskTypes
    <3>4. \A s \in Run : Knows(s)'
      BY <3>1, <3>2 DEF Knows, Filling
    <3> QED
      BY <3>3, <3>4 DEF PrefixInv, Knows, Sound, MarkerMeansComplete, ArchiveMeansComplete,
                        NeverRebuildInstalled
  <2>2. CASE CorruptArchive(q)
    <3>1. /\ UNCHANGED <<pc, cur, prefix>>
          /\ archive' = [archive EXCEPT ![q] = [state |-> "corrupt", files |-> archive[q].files]]
      BY <2>2 DEF CorruptArchive, runs
    <3> QED
      BY <3>1 DEF PrefixInv, MarkerMeansComplete, ArchiveMeansComplete, NeverRebuildInstalled,
                  Installed, TypeOK, DiskTypes
  <2> QED BY <1>6, <2>1, <2>2
<1> QED BY <1>3, <1>4, <1>5, <1>6 DEF Next, vars, runs, disk

(***************************************************************************)
(* Scratch directories.                                                    *)
(***************************************************************************)

\* The scratch directories a run needs where it is.
Keeps(r) ==
  /\ At(r, "compile") => <<cur[r], NoRun>> \in scratch
  /\ At(r, "install") /\ cur[r] \notin HeaderOnly => <<cur[r], NoRun>> \in scratch
  /\ At(r, "probe") => <<cur[r], r>> \in scratch

\* What a run removes is its own: a probe's by its name, a build's by the slot.
LEMMA RemovesOwn ==
  ASSUME TypeOK, LockInv, NEW r \in Run, Start(r) \/ RunStep(r) \/ Abort(r),
         NEW s \in Run, s # r, Keeps(s)
  PROVE  Keeps(s)'
<1>1. pc'[s] = pc[s] /\ cur'[s] = cur[s]
  BY OthersKept DEF OthersKeep
<1>2. CASE scratch \subseteq scratch'
  BY <1>1, <1>2 DEF Keeps, At
<1>3. CASE scratch' = scratch \ {<<cur[r], r>>}
  BY <1>1, <1>3 DEF Keeps, At
<1>4. CASE RemoveScratch(r)
  <2>1. r \in slot
    BY <1>4 DEF RemoveScratch, At, LockInv, Holds, Slotted
  <2>2. pc[s] \notin {"compile", "install"}
    BY <2>1 DEF LockInv, Holds, Slotted
  <2>3. scratch' \in {scratch, scratch \ {<<cur[r], NoRun>>}}
    BY <1>4 DEF RemoveScratch
  <2> QED BY <1>1, <2>2, <2>3 DEF Keeps, At
<1>5. ASSUME ~RemoveScratch(r)
      PROVE  scratch \subseteq scratch' \/ scratch' = scratch \ {<<cur[r], r>>}
  BY <1>5
  DEF RunStep, Start, EnterStorage, BuildNode, Lookup, PrepareSource, FinishProbe,
      FinishNested, CheckInstalled, LockPackage, Recheck, RemovePrefix, Unpack,
      DiscardArchive, EnterSlot, Compile, InstallFiles, Pack, MarkInstalled, FinishNode,
      FinishRun, Abort, disk
<1> QED BY <1>2, <1>3, <1>4, <1>5

LEMMA KeepsStep ==
  ASSUME TypeOK, NEW r \in Run, Start(r) \/ RunStep(r) \/ Abort(r), Keeps(r)
  PROVE  Keeps(r)'
<1> USE DEF Keeps, At, Goto, TypeOK, RunTypes
<1>1. CASE pc'[r] \notin {"compile", "install", "probe"}
  BY <1>1
<1>2. CASE PrepareSource(r)
  BY <1>2 DEF PrepareSource, Descend
<1>3. CASE EnterSlot(r)
  BY <1>3 DEF EnterSlot
<1>4. CASE Compile(r) \/ InstallFiles(r)
  BY <1>4 DEF Compile, InstallFiles, disk
<1>5. ASSUME ~PrepareSource(r), ~EnterSlot(r), ~Compile(r), ~InstallFiles(r)
      PROVE  pc'[r] \notin {"compile", "install", "probe"}
  <2>1. CASE Start(r) \/ EnterStorage(r) \/ BuildNode(r) \/ Lookup(r) \/ FinishNested(r)
    BY <2>1, HandOnMoves DEF Start, EnterStorage, BuildNode, Lookup, FinishNested, Goto
  <2>2. CASE FinishProbe(r) \/ FinishNode(r) \/ CheckInstalled(r) \/ LockPackage(r) \/ Recheck(r)
    BY <2>2, HandOnMoves
    DEF FinishProbe, Descend, FinishNode, CheckInstalled, LockPackage, Recheck, Goto
  <2>3. CASE RemovePrefix(r)
    BY <2>3 DEF RemovePrefix
  <2>4. CASE Unpack(r) \/ DiscardArchive(r) \/ Pack(r) \/ MarkInstalled(r) \/ RemoveScratch(r)
    BY <2>4 DEF Unpack, DiscardArchive, Pack, MarkInstalled, RemoveScratch
  <2>5. CASE FinishRun(r) \/ Abort(r)
    BY <2>5 DEF FinishRun, Abort, Exit
  <2> QED BY <1>5, <2>1, <2>2, <2>3, <2>4, <2>5 DEF RunStep
<1> QED BY <1>1, <1>2, <1>3, <1>4, <1>5

LEMMA ScratchStep ==
  TypeOK /\ LockInv /\ ScratchKept /\ [Next]_vars => ScratchKept'
<1> SUFFICES ASSUME TypeOK, LockInv, ScratchKept, [Next]_vars PROVE ScratchKept'
  OBVIOUS
<1>1. ScratchKept <=> \A r \in Run : Keeps(r)
  BY DEF ScratchKept, Keeps, At
<1>2. ASSUME \A r \in Run : Keeps(r)' PROVE ScratchKept'
  BY <1>2, Zenon DEF ScratchKept, Keeps, At
<1>3. ASSUME NEW r \in Run, Start(r) \/ RunStep(r) \/ Abort(r) PROVE ScratchKept'
  BY <1>1, <1>2, <1>3, RemovesOwn, KeepsStep
<1>4. CASE UNCHANGED <<pc, cur, scratch>>
  BY <1>4 DEF ScratchKept, At
<1>5. ASSUME NEW c \in Cleaner, CleanScratch(c) PROVE ScratchKept'
  <2>1. UNCHANGED <<pc, cur>>
    BY <1>5 DEF CleanScratch, runs
  <2>2. \A s \in Run : pc[s] \in {"off", "await"}
    BY <1>5 DEF CleanScratch, LockInv, Holds
  <2> QED BY <2>1, <2>2 DEF ScratchKept, At
<1>6. ASSUME NEW c \in Cleaner, StartClean(c) \/ CleanStep(c) \/ AbortClean(c), ~CleanScratch(c)
      PROVE  UNCHANGED <<pc, cur, scratch>>
  BY <1>6 DEF StartClean, CleanStep, AbortClean, LockStorage, FinishClean, disk, runs
<1>7. ASSUME NEW q \in Pkg, DeletePrefix(q) \/ CorruptArchive(q)
      PROVE  UNCHANGED <<pc, cur, scratch>>
  BY <1>7 DEF DeletePrefix, CorruptArchive, runs
<1> QED BY <1>3, <1>4, <1>5, <1>6, <1>7 DEF Next, vars, runs, disk

(***************************************************************************)
(* merge_nested: facts about what is built, whatever the state.            *)
(***************************************************************************)

\* A set of positions has a first one.
LEMMA First ==
  ASSUME NEW S \in SUBSET Nat, S # {}
  PROVE  \E m \in S : \A k \in S : m <= k
<1> DEFINE R == {ss \in Nat \X Nat : ss[1] < ss[2]}
<1>1. PICK m \in S : \A k \in S : ~ (<<k, m>> \in R)
  <2>1. IsWellFoundedOn(R, Nat)
    BY NatLessThanWellFounded DEF OpToRel
  <2> HIDE DEF R
  <2> QED BY <2>1, WFMin
<1>2. ASSUME NEW k \in S PROVE m <= k
  <2>1. ~ (k < m)
    BY <1>1
  <2> QED BY <2>1
<1> QED BY <1>2

\* What is built of a project, one package after another.
LEMMA AllOfParts ==
  ASSUME NEW b \in Seq(Built)
  PROVE  /\ \A x : x \in AllOf(b) <=> \E i \in 1..Len(b) : x = b[i].node \/ x \in b[i].nested
         /\ \A x : x \in Direct(b) <=> \E i \in 1..Len(b) : x = b[i].node
         /\ \A i \in 1..Len(b) : b[i].node \in Pkg /\ b[i].nested \subseteq Pkg
<1>1. DOMAIN b = 1..Len(b) /\ \A i \in 1..Len(b) : b[i] \in Built
  OBVIOUS
<1> QED BY <1>1 DEF AllOf, Direct, Built

LEMMA AllOfAppend ==
  ASSUME NEW b \in Seq(Built), NEW e \in Built
  PROVE  AllOf(Append(b, e)) = AllOf(b) \cup {e.node} \cup e.nested
<1> DEFINE c == Append(b, e)
<1>1. /\ c \in Seq(Built) /\ Len(c) = Len(b) + 1 /\ c[Len(b) + 1] = e
      /\ \A i \in 1..Len(b) : c[i] = b[i]
      /\ Len(b) \in Nat
  OBVIOUS
<1> HIDE DEF c
<1>2. \A i \in 1..Len(c) : i \in 1..Len(b) \/ i = Len(b) + 1
  BY <1>1
<1>3. Len(b) + 1 \in 1..Len(c) /\ \A i \in 1..Len(b) : i \in 1..Len(c)
  BY <1>1
<1>4. /\ \A x : x \in AllOf(b) <=> \E i \in 1..Len(b) : x = b[i].node \/ x \in b[i].nested
      /\ \A x : x \in AllOf(c) <=> \E i \in 1..Len(c) : x = c[i].node \/ x \in c[i].nested
  BY <1>1, AllOfParts
<1>5. ASSUME NEW x PROVE x \in AllOf(c) <=> x \in AllOf(b) \/ x = e.node \/ x \in e.nested
  <2>1. ASSUME x \in AllOf(c) PROVE x \in AllOf(b) \/ x = e.node \/ x \in e.nested
    <3>1. PICK i \in 1..Len(c) : x = c[i].node \/ x \in c[i].nested
      BY <1>4, <2>1
    <3> QED BY ONLY <1>1, <1>2, <1>4, <3>1, Zenon
  <2>2. ASSUME x \in AllOf(b) \/ x = e.node \/ x \in e.nested PROVE x \in AllOf(c)
    BY ONLY <1>1, <1>3, <1>4, <2>2, Zenon
  <2> QED BY <2>1, <2>2
<1> QED BY <1>5 DEF c

\* merge_nested drops packages, but no name: of those of one name that are not nodes of the
\* project it keeps the first.
LEMMA MergedNames ==
  ASSUME NEW b \in Seq(Built)
  PROVE  NamesOf(Merged(b)) = NamesOf(AllOf(b))
<1>1. NamesOf(Merged(b)) \subseteq NamesOf(AllOf(b))
  BY BuiltFacts DEF NamesOf
<1>2. ASSUME NEW p \in AllOf(b) PROVE NameOf[p] \in NamesOf(Merged(b))
  <2>1. CASE NameOf[p] \in NamesOf(Direct(b))
    BY <2>1, BuiltFacts DEF NamesOf
  <2>2. CASE NameOf[p] \notin NamesOf(Direct(b))
    <3> DEFINE S == {i \in 1..Len(b) : NameOf[p] \in NamesOf(b[i].nested)}
    <3>1. S # {}
      <4>1. p \notin Direct(b)
        BY <2>2 DEF NamesOf
      <4>2. PICK i \in 1..Len(b) : p \in b[i].nested
        BY <4>1, AllOfParts
      <4> QED BY <4>2 DEF NamesOf
    <3>2. S \in SUBSET Nat
      OBVIOUS
    <3>3. PICK m \in S : \A k \in S : m <= k
      <4> HIDE DEF S
      <4> QED BY <3>1, <3>2, First
    <3>4. PICK q \in b[m].nested : NameOf[q] = NameOf[p]
      BY <3>3 DEF NamesOf
    <3>5. \A j \in 1..m - 1 : NameOf[q] \notin NamesOf(b[j].nested)
      BY <3>3, <3>4
    <3>6. m \in DOMAIN b /\ q \in AllOf(b)
      BY <3>3, <3>4, AllOfParts
    <3>7. q \in Kept(b)
      BY <2>2, <3>4, <3>5, <3>6 DEF Kept
    <3> QED BY <3>4, <3>7 DEF Merged, NamesOf
  <2> QED BY <2>1, <2>2
<1> QED BY <1>1, <1>2 DEF NamesOf

\* So whatever everything built serves, is served by what is handed on.
LEMMA MergedServes ==
  ASSUME NEW b \in Seq(Built), Serves(AllOf(b))
  PROVE  Serves(Merged(b))
BY MergedNames, BuiltFacts DEF Serves

\* It has every name once, when the nodes have and every package's own nested ones.
LEMMA MergedOnce ==
  ASSUME NEW b \in Seq(Built),
         \A i, j \in 1..Len(b) : NameOf[b[i].node] = NameOf[b[j].node] => i = j,
         \A i \in 1..Len(b) : OnePerName(b[i].nested)
  PROVE  OnePerName(Merged(b))
<1> SUFFICES ASSUME NEW p \in Merged(b), NEW q \in Merged(b), NameOf[p] = NameOf[q]
             PROVE  p = q
  BY DEF OnePerName
<1>1. CASE p \in Direct(b) /\ q \in Direct(b)
  BY <1>1, AllOfParts
<1>2. CASE p \in Kept(b) /\ q \in Kept(b)
  <2>1. PICK i \in 1..Len(b) :
          p \in b[i].nested /\ \A k \in 1..i - 1 : NameOf[p] \notin NamesOf(b[k].nested)
    BY <1>2 DEF Kept
  <2>2. PICK j \in 1..Len(b) :
          q \in b[j].nested /\ \A k \in 1..j - 1 : NameOf[q] \notin NamesOf(b[k].nested)
    BY <1>2 DEF Kept
  <2>3. NameOf[p] \in NamesOf(b[i].nested) /\ NameOf[p] \in NamesOf(b[j].nested)
    BY <2>1, <2>2 DEF NamesOf
  <2>4. ~ (i < j) /\ ~ (j < i)
    BY <2>1, <2>2, <2>3
  <2>5. i = j
    BY <2>4
  <2> QED BY <2>1, <2>2, <2>5 DEF OnePerName
<1>3. CASE (p \in Direct(b) /\ q \in Kept(b)) \/ (p \in Kept(b) /\ q \in Direct(b))
  BY <1>3 DEF Kept, NamesOf
<1> QED BY <1>1, <1>2, <1>3 DEF Merged

(***************************************************************************)
(* Projects: what BuiltOk and StackOk say, and what keeps them.            *)
(***************************************************************************)

\* The graphs that there are.
Graphs == Range(Graph) \cup Range(Manifest)

LEMMA NodesAreGraph ==
  ASSUME NEW r \in Run, NEW f \in Frame
  PROVE  NodesOf(r, f) \in Graphs /\ NodesOf(r, f) \in Seq(Pkg)
<1>1. f.owner \in Pkg \cup {NoPkg}
  BY DEF Frame
<1>2. NodesOf(r, f) = Graph[r] \/ (f.owner \in Pkg /\ NodesOf(r, f) = Manifest[f.owner])
  BY <1>1 DEF NodesOf
<1> QED BY <1>2, GraphsAssumption DEF Graphs, Range

\* The nodes built of a project serve each other and all they pull in.
LEMMA BuiltServes ==
  ASSUME NEW g \in Graphs, g \in Seq(Pkg), NEW b \in Seq(Built), BuiltOk(g, b)
  PROVE  /\ \A j \in 1..Len(b) : b[j].node = g[j] /\ b[j].nested = Nested[g[j]]
         /\ \A j \in 1..Len(g) : j <= Len(b) + 1 => Deps[g[j]] \subseteq Direct(b)
         /\ Serves(AllOf(b))
         /\ Whole(Merged(b))
<1>1. Len(b) \in Nat /\ Len(g) \in Nat /\ DOMAIN g = 1..Len(g) /\ Len(b) <= Len(g)
  BY DEF BuiltOk
<1>2. \A j \in 1..Len(b) : j \in 1..Len(g)
  BY <1>1
<1>3. ASSUME NEW j \in 1..Len(b) PROVE b[j].node = g[j] /\ b[j].nested = Nested[g[j]]
  <2>1. BuiltOf(g)[j] = [node |-> g[j], nested |-> Nested[g[j]]]
    BY <1>1, <1>2 DEF BuiltOf
  <2>2. b[j] = [node |-> g[j], nested |-> Nested[g[j]]]
    BY <2>1 DEF BuiltOk
  <2> QED BY ONLY <2>2
<1>4. ASSUME NEW j \in 1..Len(g), j <= Len(b) + 1 PROVE Deps[g[j]] \subseteq Direct(b)
  <2> SUFFICES ASSUME NEW d \in Deps[g[j]] PROVE d \in Direct(b)
    OBVIOUS
  <2>1. PICK i \in 1..j - 1 : g[i] = d
    BY <1>1, OrderAssumption DEF Graphs
  <2>2. i \in 1..Len(b)
    BY <1>1, <1>4
  <2> QED BY <1>3, <2>1, <2>2, AllOfParts
<1>5. ASSUME NEW p \in AllOf(b) PROVE NamesOf(Deps[p] \cup Nested[p]) \subseteq NamesOf(AllOf(b))
  <2>1. PICK j \in 1..Len(b) : p = b[j].node \/ p \in b[j].nested
    BY AllOfParts
  <2>2. j \in 1..Len(g) /\ j <= Len(b) + 1
    BY <1>1, <1>2
  <2>3. b[j].nested \subseteq AllOf(b)
    BY AllOfParts
  <2>4. CASE p = b[j].node
    <3>1. Deps[p] \subseteq Direct(b) /\ Nested[p] = b[j].nested
      BY <1>3, <1>4, <2>2, <2>4
    <3>2. Direct(b) \subseteq AllOf(b)
      BY DEF AllOf
    <3> QED BY <2>3, <3>1, <3>2 DEF NamesOf
  <2>5. CASE p \in b[j].nested
    <3>1. NamesOf(Deps[p] \cup Nested[p]) \subseteq NamesOf(b[j].nested)
      BY <1>3, <2>5 DEF BuiltOk, Whole, Serves
    <3> QED BY <2>3, <3>1 DEF NamesOf
  <2> QED BY <2>1, <2>4, <2>5
<1>6. Serves(AllOf(b))
  BY <1>5 DEF Serves
<1>7. OnePerName(Merged(b))
  <2>1. \A i, j \in 1..Len(g) : NameOf[g[i]] = NameOf[g[j]] => i = j
    BY <1>1, OrderAssumption DEF Graphs
  <2>2. \A i, j \in 1..Len(b) : NameOf[b[i].node] = NameOf[b[j].node] => i = j
    BY <1>2, <1>3, <2>1
  <2>3. \A i \in 1..Len(b) : OnePerName(b[i].nested)
    BY <1>3 DEF BuiltOk, Whole
  <2> QED BY <2>2, <2>3, MergedOnce
<1> QED BY <1>3, <1>4, <1>6, <1>7, MergedServes DEF Whole

\* A manifest that is built hands on what the package's id names.
LEMMA ManifestMerged ==
  ASSUME NEW p \in Pkg, NEW b \in Seq(Built), BuiltOk(Manifest[p], b),
         Len(b) = Len(Manifest[p])
  PROVE  Merged(b) = Nested[p] /\ Whole(Nested[p])
<1>1. Manifest[p] \in Graphs /\ Manifest[p] \in Seq(Pkg)
  BY GraphsAssumption DEF Graphs, Range
<1>2. b = BuiltOf(Manifest[p])
  <2>1. DOMAIN b = 1..Len(b) /\ DOMAIN Manifest[p] = 1..Len(b) /\ b = [j \in 1..Len(b) |-> b[j]]
    BY <1>1
  <2>2. \A j \in 1..Len(b) : b[j] = BuiltOf(Manifest[p])[j]
    BY DEF BuiltOk
  <2>3. BuiltOf(Manifest[p]) = [j \in 1..Len(b) |-> BuiltOf(Manifest[p])[j]]
    BY <2>1 DEF BuiltOf
  <2> QED BY <2>1, <2>2, <2>3
<1>3. Nested[p] = Direct(b) \cup Kept(b)
  BY <1>2, NestedAssumption
<1> QED BY <1>1, <1>3, BuiltServes DEF Merged

\* A package without a manifest pulls in nothing.
LEMMA NothingNested ==
  ASSUME NEW p \in Pkg, Manifest[p] = <<>>
  PROVE  Nested[p] = {} /\ Whole({})
<1>1. BuiltOf(Manifest[p]) = <<>>
  BY DEF BuiltOf
<1>2. Direct(<<>>) = {} /\ Kept(<<>>) = {}
  BY DEF Direct, Kept
<1>3. Nested[p] = {}
  BY <1>1, <1>2, NestedAssumption
<1> QED BY <1>3 DEF Whole, OnePerName, Serves

\* What StackOk says of the innermost project.
LEMMA HeadOk ==
  ASSUME NEW r \in Run, NEW s \in Seq(Frame), s # <<>>, NEW c \in Pkg \cup {NoPkg},
         StackOk(r, s, c)
  PROVE  /\ 1 \in 1..Len(s) /\ Len(s) \in Nat /\ s[1] \in Frame /\ s[1].built \in Seq(Built)
         /\ NodesOf(r, s[1]) \in Graphs /\ NodesOf(r, s[1]) \in Seq(Pkg)
         /\ BuiltOk(NodesOf(r, s[1]), s[1].built)
         /\ s[1].owner = NoPkg <=> 1 = Len(s)
         /\ c # NoPkg => /\ Len(s[1].built) < Len(NodesOf(r, s[1]))
                         /\ NodesOf(r, s[1])[Len(s[1].built) + 1] = c
<1>1. 1 \in 1..Len(s) /\ Len(s) \in Nat /\ s[1] \in Frame
  BY PopFrame
<1>2. s[1].built \in Seq(Built)
  BY <1>1 DEF Frame
<1>3. NodesOf(r, s[1]) \in Graphs /\ NodesOf(r, s[1]) \in Seq(Pkg)
  BY <1>1, NodesAreGraph
<1> QED BY <1>1, <1>2, <1>3 DEF StackOk, Inside

\* StackOk of the projects around the innermost one.
OuterOk(r, s, i) ==
  /\ s[i].owner = NoPkg <=> i = Len(s)
  /\ BuiltOk(NodesOf(r, s[i]), s[i].built)
  /\ s[i - 1].owner # NoPkg =>
       /\ Len(s[i].built) < Len(NodesOf(r, s[i]))
       /\ NodesOf(r, s[i])[Len(s[i].built) + 1] = s[i - 1].owner

LEMMA StackParts ==
  ASSUME NEW r \in Run, NEW s \in Seq(Frame), s # <<>>, NEW c
  PROVE  StackOk(r, s, c) <=>
           /\ s[1].owner = NoPkg <=> 1 = Len(s)
           /\ BuiltOk(NodesOf(r, s[1]), s[1].built)
           /\ c # NoPkg => /\ Len(s[1].built) < Len(NodesOf(r, s[1]))
                           /\ NodesOf(r, s[1])[Len(s[1].built) + 1] = c
           /\ \A i \in 2..Len(s) : OuterOk(r, s, i)
<1>1. Len(s) \in Nat /\ 1 \in 1..Len(s)
  BY PopFrame
<1>2. /\ \A i \in 1..Len(s) : i = 1 \/ i \in 2..Len(s)
      /\ \A i \in 2..Len(s) : i \in 1..Len(s) /\ i # 1
  BY <1>1
<1>3. /\ Inside(s, c, 1) = c
      /\ \A i \in 2..Len(s) : Inside(s, c, i) = s[i - 1].owner
  BY <1>2 DEF Inside
<1> QED BY <1>1, <1>2, <1>3 DEF StackOk, OuterOk

\* A run begins with nothing built.
LEMMA StackStart ==
  ASSUME NEW r \in Run
  PROVE  StackOk(r, <<[owner |-> NoPkg, built |-> <<>>]>>, NoPkg)
<1> DEFINE s == <<[owner |-> NoPkg, built |-> <<>>]>>
<1>1. Len(s) = 1 /\ s[1] = [owner |-> NoPkg, built |-> <<>>]
  OBVIOUS
<1>2. NodesOf(r, s[1]) \in Seq(Pkg)
  BY <1>1, GraphsAssumption DEF NodesOf
<1>3. BuiltOk(NodesOf(r, s[1]), s[1].built)
  BY <1>1, <1>2 DEF BuiltOk
<1> HIDE DEF s
<1>4. StackOk(r, s, NoPkg)
  BY <1>1, <1>3 DEF StackOk, Inside
<1> QED BY <1>4 DEF s

\* A run goes on with the next node.
LEMMA StackNode ==
  ASSUME NEW r \in Run, NEW s \in Seq(Frame), s # <<>>, StackOk(r, s, NoPkg),
         Len(s[1].built) # Len(NodesOf(r, s[1]))
  PROVE  StackOk(r, s, NodesOf(r, s[1])[Len(s[1].built) + 1])
<1>1. /\ s[1].built \in Seq(Built) /\ NodesOf(r, s[1]) \in Seq(Pkg)
      /\ BuiltOk(NodesOf(r, s[1]), s[1].built)
  BY HeadOk
<1>2. Len(s[1].built) < Len(NodesOf(r, s[1]))
  BY <1>1 DEF BuiltOk
<1> QED BY <1>2, StackParts

\* The node is built: the run has not lost sight of the others, and this one is next to them.
LEMMA StackGrows ==
  ASSUME NEW r \in Run, NEW s \in Seq(Frame), s # <<>>, NEW c \in Pkg, StackOk(r, s, c),
         Whole(Nested[c])
  PROVE  StackOk(r, Grown(s, [node |-> c, nested |-> Nested[c]]), NoPkg)
<1> DEFINE e == [node |-> c, nested |-> Nested[c]]
           b == s[1].built
           g == NodesOf(r, s[1])
           t == Grown(s, e)
<1>1. e \in Built
  BY GraphsAssumption DEF Built
<1>2. c # NoPkg
  OBVIOUS
<1>3. /\ 1 \in 1..Len(s) /\ Len(s) \in Nat /\ b \in Seq(Built) /\ g \in Seq(Pkg)
      /\ BuiltOk(g, b) /\ Len(b) < Len(g) /\ g[Len(b) + 1] = c
      /\ s[1].owner = NoPkg <=> 1 = Len(s)
  BY <1>2, HeadOk
<1>4. /\ t \in Seq(Frame) /\ t # <<>> /\ Len(t) = Len(s)
      /\ t[1] = [owner |-> s[1].owner, built |-> Append(b, e)]
      /\ \A i \in 2..Len(s) : t[i] = s[i]
  <2> HIDE DEF e
  <2> QED BY <1>1, GrowFrame
<1>5. NodesOf(r, t[1]) = g /\ t[1].owner = s[1].owner /\ t[1].built = Append(b, e)
  BY <1>4 DEF NodesOf
<1>6. BuiltOk(g, Append(b, e))
  <2>1. /\ Len(Append(b, e)) = Len(b) + 1 /\ Append(b, e)[Len(b) + 1] = e
        /\ \A j \in 1..Len(b) : Append(b, e)[j] = b[j]
        /\ Len(b) \in Nat /\ Len(g) \in Nat /\ DOMAIN g = 1..Len(g)
    <3> HIDE DEF e
    <3> QED BY <1>1, <1>3
  <2>2. BuiltOf(g)[Len(b) + 1] = e
    BY <1>3, <2>1 DEF BuiltOf
  <2>3. \A j \in 1..Len(b) + 1 : j \in 1..Len(b) \/ j = Len(b) + 1
    BY <2>1
  <2>4. Len(b) + 1 <= Len(g)
    BY <1>3, <2>1
  <2> HIDE DEF e, b, g
  <2> QED BY <1>3, <2>1, <2>2, <2>3, <2>4 DEF BuiltOk
<1>7. ASSUME NEW i \in 2..Len(s) PROVE OuterOk(r, t, i)
  <2>1. OuterOk(r, s, i)
    BY StackParts
  <2>2. t[i] = s[i] /\ t[i - 1].owner = s[i - 1].owner
    <3>1. CASE i = 2
      BY <1>4, <1>5, <3>1
    <3>2. CASE i # 2
      <4>1. i - 1 \in 2..Len(s)
        BY <1>3, <3>2
      <4> QED BY <1>4, <4>1
    <3> QED BY <3>1, <3>2
  <2> HIDE DEF t
  <2> QED BY <1>4, <2>1, <2>2 DEF OuterOk
<1> HIDE DEF t
<1>8. StackOk(r, t, NoPkg)
  BY <1>3, <1>4, <1>5, <1>6, <1>7, StackParts
<1> QED BY <1>8 DEF t

\* The run goes into the manifest of its current package.
LEMMA StackPush ==
  ASSUME NEW r \in Run, NEW s \in Seq(Frame), s # <<>>, NEW c \in Pkg, StackOk(r, s, c)
  PROVE  StackOk(r, <<[owner |-> c, built |-> <<>>]>> \o s, NoPkg)
<1> DEFINE f == [owner |-> c, built |-> <<>>]
           t == <<f>> \o s
<1>1. f \in Frame /\ c # NoPkg
  BY DEF Frame
<1>2. Len(t) = Len(s) + 1 /\ t[1] = f /\ \A i \in 1..Len(s) : t[i + 1] = s[i]
  <2> HIDE DEF f
  <2> QED BY <1>1, PushFrame
<1>3. Len(s) \in Nat /\ 1 \in 1..Len(s) /\ s[1].owner = NoPkg <=> 1 = Len(s)
  BY HeadOk
<1>4. t \in Seq(Frame) /\ t # <<>>
  <2> HIDE DEF f
  <2> QED BY <1>1, PushFrame
<1>5. BuiltOk(NodesOf(r, t[1]), t[1].built) /\ t[1].owner = c
  <2>1. NodesOf(r, t[1]) \in Seq(Pkg)
    BY <1>1, <1>2, NodesAreGraph
  <2> QED BY <1>2, <2>1 DEF BuiltOk
<1>6. ASSUME NEW i \in 2..Len(t) PROVE OuterOk(r, t, i)
  <2>1. i - 1 \in 1..Len(s) /\ (i - 1) + 1 = i /\ i \in Nat
    BY <1>2, <1>3
  <2>2. PICK j \in 1..Len(s) : i = j + 1
    BY <2>1
  <2>3. t[i] = s[j] /\ (i = Len(t) <=> j = Len(s)) /\ i - 1 = j
    BY <1>2, <1>3, <2>2
  <2>4. t[j].owner = Inside(s, c, j)
    <3>1. CASE j = 1
      BY <1>2, <3>1 DEF Inside
    <3>2. CASE j # 1
      <4>1. j - 1 \in 1..Len(s) /\ (j - 1) + 1 = j
        BY <1>3, <3>2
      <4>2. t[j] = s[j - 1]
        BY <1>2, <4>1
      <4> QED BY <3>2, <4>2 DEF Inside
    <3> QED BY <3>1, <3>2
  <2> HIDE DEF t
  <2> QED BY <2>3, <2>4 DEF StackOk, OuterOk
<1>7. 1 # Len(t)
  BY <1>2, <1>3
<1> HIDE DEF t
<1>8. StackOk(r, t, NoPkg)
  BY <1>1, <1>4, <1>5, <1>6, <1>7, StackParts
<1> QED BY <1>8 DEF t

\* A finished manifest leaves the run at the package that it belongs to.
LEMMA StackPop ==
  ASSUME NEW r \in Run, NEW s \in Seq(Frame), s # <<>>, StackOk(r, s, NoPkg),
         s[1].owner # NoPkg
  PROVE  StackOk(r, Tail(s), s[1].owner)
<1> DEFINE t == Tail(s)
<1>1. Len(s) \in Nat /\ 1 \in 1..Len(s) /\ Len(s) # 1
  BY HeadOk
<1>2. /\ t \in Seq(Frame) /\ Len(t) = Len(s) - 1 /\ t # <<>>
      /\ \A i \in 1..Len(t) : t[i] = s[i + 1]
  BY <1>1, PopFrame
<1> HIDE DEF t
<1>3. ASSUME NEW i \in 1..Len(t)
      PROVE  /\ t[i].owner = NoPkg <=> i = Len(t)
             /\ BuiltOk(NodesOf(r, t[i]), t[i].built)
             /\ Inside(t, s[1].owner, i) # NoPkg =>
                  /\ Len(t[i].built) < Len(NodesOf(r, t[i]))
                  /\ NodesOf(r, t[i])[Len(t[i].built) + 1] = Inside(t, s[1].owner, i)
  <2>1. i + 1 \in 2..Len(s) /\ (i + 1) - 1 = i /\ i \in Nat
    BY <1>1, <1>2
  <2>2. OuterOk(r, s, i + 1)
    BY <2>1, StackParts
  <2>3. t[i] = s[i + 1] /\ (i = Len(t) <=> i + 1 = Len(s))
    BY <1>1, <1>2, <2>1
  <2>4. Inside(t, s[1].owner, i) = s[i].owner
    <3>1. CASE i = 1
      BY <3>1 DEF Inside
    <3>2. CASE i # 1
      <4>1. i - 1 \in 1..Len(t) /\ (i - 1) + 1 = i
        BY <1>1, <1>2, <2>1, <3>2
      <4> QED BY <1>2, <3>2, <4>1 DEF Inside
    <3> QED BY <3>1, <3>2
  <2> QED BY <2>1, <2>2, <2>3, <2>4 DEF OuterOk
<1>4. StackOk(r, t, s[1].owner)
  BY <1>3 DEF StackOk
<1> QED BY <1>4 DEF t

(***************************************************************************)
(* What a run has got.                                                     *)
(***************************************************************************)

\* All that is built in some projects.
OfStack(s) == UNION {AllOf(s[i].built) : i \in DOMAIN s}

LEMMA OfStackParts ==
  ASSUME NEW s \in Seq(Frame)
  PROVE  /\ \A x : x \in OfStack(s) <=> \E i \in 1..Len(s) : x \in AllOf(s[i].built)
         /\ OfStack(s) \subseteq Pkg
         /\ Len(s) \in Nat
<1>1. DOMAIN s = 1..Len(s) /\ \A i \in 1..Len(s) : s[i] \in Frame
  OBVIOUS
<1>2. \A x : x \in OfStack(s) <=> \E i \in 1..Len(s) : x \in AllOf(s[i].built)
  BY <1>1 DEF OfStack
<1>3. \A i \in 1..Len(s) : AllOf(s[i].built) \subseteq Pkg
  BY <1>1, BuiltFacts DEF Frame
<1> QED BY <1>2, <1>3

LEMMA GotParts == \A r : Got(r) = pulled[r] \cup OfStack(stack[r])
BY DEF Got, OfStack

LEMMA GotPartsNext == \A r : Got(r)' = pulled'[r] \cup OfStack(stack'[r])
BY DEF Got, OfStack

LEMMA OfGrown ==
  ASSUME NEW s \in Seq(Frame), s # <<>>, NEW e \in Built
  PROVE  OfStack(Grown(s, e)) = OfStack(s) \cup {e.node} \cup e.nested
<1> DEFINE t == Grown(s, e)
<1>1. /\ t \in Seq(Frame) /\ Len(t) = Len(s) /\ 1 \in 1..Len(s)
      /\ t[1] = [owner |-> s[1].owner, built |-> Append(s[1].built, e)] /\ s[1] \in Frame
      /\ \A i \in 2..Len(s) : t[i] = s[i]
  BY GrowFrame, Zenon
<1> HIDE DEF t
<1>2. AllOf(t[1].built) = AllOf(s[1].built) \cup {e.node} \cup e.nested
  BY <1>1, AllOfAppend DEF Frame
<1>3. /\ \A x : x \in OfStack(t) <=> \E i \in 1..Len(s) : x \in AllOf(t[i].built)
      /\ \A x : x \in OfStack(s) <=> \E i \in 1..Len(s) : x \in AllOf(s[i].built)
  BY <1>1, OfStackParts
<1>4. \A i \in 1..Len(s) : i = 1 \/ t[i] = s[i]
  <2>1. Len(s) \in Nat
    OBVIOUS
  <2> QED BY <1>1, <2>1
<1>5. ASSUME NEW x PROVE x \in OfStack(t) <=> x \in OfStack(s) \/ x = e.node \/ x \in e.nested
  BY <1>1, <1>2, <1>3, <1>4
<1> QED BY <1>5 DEF t

LEMMA OfPush ==
  ASSUME NEW s \in Seq(Frame), NEW c \in Pkg
  PROVE  OfStack(<<[owner |-> c, built |-> <<>>]>> \o s) = OfStack(s)
<1> DEFINE f == [owner |-> c, built |-> <<>>]
           t == <<f>> \o s
<1>1. f \in Frame
  BY DEF Frame
<1>2. t \in Seq(Frame) /\ Len(t) = Len(s) + 1 /\ t[1] = f /\ \A i \in 1..Len(s) : t[i + 1] = s[i]
  <2> HIDE DEF f
  <2> QED BY <1>1, PushFrame
<1>3. AllOf(t[1].built) = {}
  BY <1>2 DEF AllOf, Direct
<1> HIDE DEF t
<1>4. Len(s) \in Nat
  OBVIOUS
<1>5. \A i \in 1..Len(t) : i = 1 \/ \E j \in 1..Len(s) : i = j + 1
  <2> SUFFICES ASSUME NEW i \in 1..Len(t), i # 1 PROVE \E j \in 1..Len(s) : i = j + 1
    OBVIOUS
  <2>1. i - 1 \in 1..Len(s) /\ i = (i - 1) + 1
    BY <1>2, <1>4
  <2> QED BY <2>1
<1>6. \A j \in 1..Len(s) : j + 1 \in 1..Len(t)
  BY <1>2, <1>4
<1>7. /\ \A x : x \in OfStack(t) <=> \E i \in 1..Len(t) : x \in AllOf(t[i].built)
      /\ \A x : x \in OfStack(s) <=> \E i \in 1..Len(s) : x \in AllOf(s[i].built)
  BY <1>2, OfStackParts
<1>8. ASSUME NEW x PROVE x \in OfStack(t) <=> x \in OfStack(s)
  BY <1>2, <1>3, <1>5, <1>6, <1>7
<1> QED BY <1>8 DEF t

LEMMA OfPop ==
  ASSUME NEW s \in Seq(Frame), s # <<>>
  PROVE  OfStack(s) = AllOf(s[1].built) \cup OfStack(Tail(s))
<1> DEFINE t == Tail(s)
<1>1. /\ t \in Seq(Frame) /\ Len(t) = Len(s) - 1
      /\ \A i \in 1..Len(t) : t[i] = s[i + 1]
  BY PopFrame
<1> HIDE DEF t
<1>2. Len(s) \in Nat /\ 1 \in 1..Len(s)
  BY PopFrame
<1>3. \A i \in 1..Len(s) : i = 1 \/ \E j \in 1..Len(t) : i = j + 1
  <2> SUFFICES ASSUME NEW i \in 1..Len(s), i # 1 PROVE \E j \in 1..Len(t) : i = j + 1
    OBVIOUS
  <2>1. i - 1 \in 1..Len(t) /\ i = (i - 1) + 1
    BY <1>1, <1>2
  <2> QED BY <2>1
<1>4. \A j \in 1..Len(t) : j + 1 \in 1..Len(s)
  BY <1>1, <1>2
<1>5. /\ \A x : x \in OfStack(t) <=> \E i \in 1..Len(t) : x \in AllOf(t[i].built)
      /\ \A x : x \in OfStack(s) <=> \E i \in 1..Len(s) : x \in AllOf(s[i].built)
  BY <1>1, OfStackParts
<1>6. ASSUME NEW x PROVE x \in OfStack(s) <=> x \in AllOf(s[1].built) \/ x \in OfStack(t)
  <2>1. ASSUME x \in OfStack(s) PROVE x \in AllOf(s[1].built) \/ x \in OfStack(t)
    <3>1. PICK i \in 1..Len(s) : x \in AllOf(s[i].built)
      BY <1>5, <2>1
    <3> QED BY <1>1, <1>3, <1>5, <3>1
  <2>2. ASSUME x \in AllOf(s[1].built) \/ x \in OfStack(t) PROVE x \in OfStack(s)
    BY <1>1, <1>2, <1>4, <1>5, <2>2
  <2> QED BY <2>1, <2>2
<1> QED BY <1>6 DEF t

\* The step on which a run gets something: its package, with what that has pulled in.
Gets(r) ==
  \E N \in SUBSET Pkg :
    /\ cur[r] \in Pkg /\ N = Nested[cur[r]] /\ Whole(N)
    /\ \A p \in {cur[r]} \cup N : Installed(p)
    /\ HandOn(r, N)
    /\ Got(r)' = Got(r) \cup {cur[r]} \cup N

LEMMA LookupGets ==
  ASSUME TypeOK, RecordInv, ProjectInv, NEW r \in Run, Lookup(r), RecordHit(cur[r])
  PROVE  Gets(r)
<1> DEFINE N == record[cur[r]]
<1>1. cur[r] \in Pkg /\ stack[r] \in Seq(Frame) /\ stack[r] # <<>> /\ pc[r] = "lookup"
  BY DEF Lookup, At, TypeOK, RunTypes
<1>2. N = Nested[cur[r]] /\ Whole(N) /\ \A p \in {cur[r]} \cup N : Installed(p)
  BY <1>1 DEF RecordHit, RecordInv
<1>3. N \in SUBSET Pkg
  BY <1>1, <1>2, GraphsAssumption
<1>4. HandOn(r, N)
  BY DEF Lookup
<1>5. pulled[r] = {}
  BY <1>1 DEF ProjectInv, AfterNested, Locked
<1> HIDE DEF N
<1> DEFINE e == [node |-> cur[r], nested |-> N]
<1>6. pulled'[r] = {} /\ stack'[r] = Grown(stack[r], e)
  BY <1>4, HandOnMoves, HandOnGrows DEF TypeOK, RunTypes
<1>7. e \in Built /\ e.node = cur[r] /\ e.nested = N
  BY <1>1, <1>3 DEF Built
<1> HIDE DEF e
<1>8. OfStack(stack'[r]) = OfStack(stack[r]) \cup {cur[r]} \cup N
  BY <1>1, <1>6, <1>7, OfGrown
<1>9. Got(r)' = Got(r) \cup {cur[r]} \cup N
  BY <1>5, <1>6, <1>8, GotParts, GotPartsNext
<1> QED BY <1>1, <1>2, <1>3, <1>4, <1>9 DEF Gets

LEMMA FinishGets ==
  ASSUME TypeOK, PrefixInv, GotIsInstalled, ProjectInv, NEW r \in Run, FinishNode(r)
  PROVE  Gets(r)
<1> DEFINE N == pulled[r]
<1>1. /\ cur[r] \in Pkg /\ stack[r] \in Seq(Frame) /\ stack[r] # <<>> /\ pc[r] = "done"
      /\ N \in SUBSET Pkg
  BY DEF FinishNode, At, TypeOK, RunTypes
<1>2. N = Nested[cur[r]] /\ Whole(N)
  BY <1>1 DEF ProjectInv, AfterNested
<1>3. N \subseteq Got(r) /\ Got(r) = N \cup OfStack(stack[r])
  BY GotParts
<1>4. \A p \in {cur[r]} \cup N : Installed(p)
  BY <1>1, <1>3 DEF PrefixInv, GotIsInstalled
<1>5. HandOn(r, N)
  BY DEF FinishNode
<1> HIDE DEF N
<1> DEFINE e == [node |-> cur[r], nested |-> N]
<1>6. pulled'[r] = {} /\ stack'[r] = Grown(stack[r], e)
  BY <1>5, HandOnMoves, HandOnGrows DEF TypeOK, RunTypes
<1>7. e \in Built /\ e.node = cur[r] /\ e.nested = N
  BY <1>1 DEF Built
<1> HIDE DEF e
<1>8. OfStack(stack'[r]) = OfStack(stack[r]) \cup {cur[r]} \cup N
  BY <1>1, <1>6, <1>7, OfGrown
<1>9. Got(r)' = Got(r) \cup {cur[r]} \cup N
  BY <1>3, <1>6, <1>8, GotPartsNext
<1> QED BY <1>1, <1>2, <1>4, <1>5, <1>9 DEF Gets

\* A finished manifest gives up some of its packages, but none of the names.
LEMMA FinishNestedGot ==
  ASSUME TypeOK, ProjectInv, NEW r \in Run, FinishNested(r)
  PROVE  Got(r)' \subseteq Got(r) /\ NamesOf(Got(r)') = NamesOf(Got(r))
<1> DEFINE b == stack[r][1].built
<1>1. stack[r] \in Seq(Frame) /\ stack[r] # <<>> /\ pc[r] = "project"
  BY DEF FinishNested, At, TypeOK, RunTypes
<1>2. Project(r) = stack[r][1] /\ b \in Seq(Built)
  BY <1>1, PopFrame DEF Project, Frame
<1>3. pulled[r] = {}
  BY <1>1 DEF ProjectInv, AfterNested, Locked
<1>4. pulled'[r] = Merged(b) /\ stack'[r] = Tail(stack[r])
  BY <1>2 DEF FinishNested, TypeOK, RunTypes
<1> HIDE DEF b
<1>5. Got(r) = AllOf(b) \cup OfStack(Tail(stack[r]))
  BY <1>1, <1>3, OfPop, GotParts DEF b
<1>6. Got(r)' = Merged(b) \cup OfStack(Tail(stack[r]))
  BY <1>4, GotPartsNext
<1>7. Merged(b) \subseteq AllOf(b) /\ NamesOf(Merged(b)) = NamesOf(AllOf(b))
  BY <1>2, BuiltFacts, MergedNames
<1> QED BY <1>5, <1>6, <1>7 DEF NamesOf

LEMMA EmptyStack == OfStack(<<>>) = {}
BY DEF OfStack

\* A run enters the storage with nothing.
LEMMA EnterGot ==
  ASSUME TypeOK, NEW r \in Run, EnterStorage(r)
  PROVE  Got(r)' = Got(r)
<1>1. stack[r] = <<>> /\ pulled'[r] = pulled[r]
  BY DEF EnterStorage, At, TypeOK, RunTypes
<1>2. stack'[r] = <<[owner |-> NoPkg, built |-> <<>>]>>
  BY DEF EnterStorage, TypeOK, RunTypes
<1>3. OfStack(stack'[r]) = {}
  <2>1. AllOf(<<>>) = {}
    BY DEF AllOf, Direct
  <2> QED BY <1>2, <2>1 DEF OfStack
<1> QED BY <1>1, <1>3, EmptyStack, GotParts, GotPartsNext

\* Nothing else changes what a run has got, but that it ends.
LEMMA GotMoves ==
  ASSUME TypeOK, PrefixInv, GotIsInstalled, RecordInv, ProjectInv,
         NEW r \in Run, Start(r) \/ RunStep(r) \/ Abort(r)
  PROVE  Gets(r) \/ FinishNested(r) \/ Exit(r) \/ Got(r)' = Got(r)
<1>1. CASE UNCHANGED <<stack, pulled>>
  BY <1>1, GotParts, GotPartsNext
<1>2. CASE EnterStorage(r)
  BY <1>2, EnterGot
<1>3. CASE Lookup(r)
  <2>1. CASE RecordHit(cur[r])
    BY <1>3, <2>1, LookupGets
  <2>2. CASE ~RecordHit(cur[r])
    BY <1>1, <1>3, <2>2 DEF Lookup
  <2> QED BY <2>1, <2>2
<1>4. CASE FinishNode(r)
  BY <1>4, FinishGets
<1>5. ASSUME Descend(r), cur[r] \in Pkg, UNCHANGED pulled PROVE Got(r)' = Got(r)
  <2>1. stack'[r] = <<[owner |-> cur[r], built |-> <<>>]>> \o stack[r] /\ stack[r] \in Seq(Frame)
    BY <1>5 DEF Descend, TypeOK, RunTypes
  <2>2. OfStack(stack'[r]) = OfStack(stack[r])
    BY <1>5, <2>1, OfPush
  <2> QED BY <1>5, <2>2, GotParts, GotPartsNext
<1>6. CASE PrepareSource(r) \/ FinishProbe(r)
  <2>1. cur[r] \in Pkg /\ UNCHANGED pulled
    BY <1>6 DEF PrepareSource, FinishProbe, At, TypeOK, RunTypes
  <2>2. Descend(r) \/ UNCHANGED stack
    BY <1>6 DEF PrepareSource, FinishProbe
  <2> QED BY <1>1, <1>5, <2>1, <2>2
<1> QED
  BY <1>1, <1>2, <1>3, <1>4, <1>6
  DEF RunStep, Start, BuildNode, CheckInstalled, LockPackage, Recheck, RemovePrefix, Unpack,
      DiscardArchive, EnterSlot, Compile, InstallFiles, Pack, MarkInstalled, RemoveScratch,
      FinishRun, Abort

\* Only a run in the storage has got anything.
LEMMA GotInStorage ==
  ASSUME TypeOK, LockInv, ProjectInv, NEW r \in Run
  PROVE  Got(r) \subseteq Pkg /\ (Got(r) # {} => r \in shared)
<1>1. stack[r] \in Seq(Frame) /\ pulled[r] \subseteq Pkg
  BY DEF TypeOK, RunTypes
<1>2. Got(r) \subseteq Pkg
  BY <1>1, OfStackParts, GotParts
<1>3. ASSUME pc[r] \in {"off", "await"} PROVE Got(r) = {}
  <2>1. stack[r] = <<>> /\ pulled[r] = {}
    BY <1>3 DEF TypeOK, RunTypes, ProjectInv, AfterNested, Locked
  <2> QED BY <2>1, EmptyStack, GotParts
<1> QED BY <1>2, <1>3 DEF LockInv, Holds

LEMMA GotStep ==
  IInv /\ [Next]_vars => GotIsInstalled'
<1> SUFFICES ASSUME IInv, [Next]_vars PROVE GotIsInstalled'
  OBVIOUS
<1> USE DEF IInv
<1>1. \A p \in Pkg : Installed(p) /\ shared # {} => Installed(p)'
  BY InstalledKept DEF Installed
<1>2. \A s \in Run : \A p \in Got(s) : p \in Pkg /\ Installed(p)'
  BY <1>1, GotInStorage DEF GotIsInstalled
<1>3. ASSUME NEW r \in Run, Start(r) \/ RunStep(r) \/ Abort(r) PROVE GotIsInstalled'
  <2>1. \A s \in Run \ {r} : Got(s)' = Got(s)
    BY <1>3, OthersKept, GotParts, GotPartsNext DEF OthersKeep
  <2>2. \A p \in Got(r)' : Installed(p)'
    <3>1. CASE Gets(r)
      <4>1. PICK N \in SUBSET Pkg :
              /\ cur[r] \in Pkg /\ \A p \in {cur[r]} \cup N : Installed(p)
              /\ Got(r)' = Got(r) \cup {cur[r]} \cup N
        BY <3>1 DEF Gets
      <4>2. shared # {}
        <5>1. pc[r] \notin {"off", "await"}
          BY <4>1 DEF TypeOK, RunTypes
        <5> QED BY <5>1 DEF LockInv, Holds
      <4> QED BY <1>1, <1>2, <4>1, <4>2
    <3>2. CASE FinishNested(r)
      BY <1>2, <3>2, FinishNestedGot
    <3>3. CASE Exit(r)
      <4>1. stack'[r] = <<>> /\ pulled'[r] = {}
        BY <3>3 DEF Exit, TypeOK, RunTypes
      <4> QED BY <4>1, EmptyStack, GotPartsNext
    <3>4. CASE Got(r)' = Got(r)
      BY <1>2, <3>4
    <3> QED BY <1>3, <3>1, <3>2, <3>3, <3>4, GotMoves
  <2> QED BY <1>2, <2>1, <2>2 DEF GotIsInstalled
<1>4. ASSUME UNCHANGED <<stack, pulled>> PROVE GotIsInstalled'
  <2>1. \A s \in Run : Got(s)' = Got(s)
    BY <1>4, GotParts, GotPartsNext
  <2> QED BY <1>2, <2>1 DEF GotIsInstalled
<1>5. ASSUME NEW c \in Cleaner, StartClean(c) \/ CleanStep(c) \/ AbortClean(c)
      PROVE  UNCHANGED <<stack, pulled>>
  BY <1>5 DEF StartClean, CleanStep, AbortClean, LockStorage, CleanScratch, FinishClean, runs
<1>6. ASSUME NEW q \in Pkg, DeletePrefix(q) \/ CorruptArchive(q)
      PROVE  UNCHANGED <<stack, pulled>>
  BY <1>6 DEF DeletePrefix, CorruptArchive, runs
<1>7. CASE UNCHANGED vars
  BY <1>4, <1>7 DEF vars, runs
<1> QED BY <1>3, <1>4, <1>5, <1>6, <1>7 DEF Next

(***************************************************************************)
(* Records and unfinished projects.                                        *)
(***************************************************************************)

LEMMA RecordStep == TypeOK /\ ProjectInv /\ RecordInv /\ [Next]_vars => RecordInv'
<1> SUFFICES ASSUME TypeOK, ProjectInv, RecordInv, [Next]_vars PROVE RecordInv'
  OBVIOUS
<1>1. CASE UNCHANGED record
  BY <1>1 DEF RecordInv
<1>2. ASSUME NEW r \in Run, FinishNode(r) PROVE RecordInv'
  <2>1. cur[r] \in Pkg /\ pc[r] = "done"
    BY <1>2 DEF FinishNode, At, TypeOK, RunTypes
  <2>2. pulled[r] = Nested[cur[r]] /\ Whole(Nested[cur[r]])
    BY <2>1 DEF ProjectInv, AfterNested
  <2>3. record' \in {record, [record EXCEPT ![cur[r]] = Nested[cur[r]]]}
    BY <1>2, <2>2 DEF FinishNode
  <2>4. record \in [Pkg -> Record]
    BY DEF TypeOK, DiskTypes
  <2> QED BY <2>1, <2>2, <2>3, <2>4 DEF RecordInv
<1>3. ASSUME NEW r \in Run, Start(r) \/ RunStep(r) \/ Abort(r), ~FinishNode(r)
      PROVE  UNCHANGED record
  BY <1>3
  DEF RunStep, Start, EnterStorage, BuildNode, Lookup, PrepareSource, FinishProbe,
      FinishNested, CheckInstalled, LockPackage, Recheck, RemovePrefix, Unpack,
      DiscardArchive, EnterSlot, Compile, InstallFiles, Pack, MarkInstalled, RemoveScratch,
      FinishRun, Abort, disk
<1>4. ASSUME NEW c \in Cleaner, StartClean(c) \/ CleanStep(c) \/ AbortClean(c)
      PROVE  UNCHANGED record
  BY <1>4 DEF StartClean, CleanStep, AbortClean, LockStorage, CleanScratch, FinishClean, disk
<1>5. ASSUME NEW q \in Pkg, DeletePrefix(q) \/ CorruptArchive(q) PROVE UNCHANGED record
  BY <1>5 DEF DeletePrefix, CorruptArchive
<1> QED BY <1>1, <1>2, <1>3, <1>4, <1>5 DEF Next, vars, disk

\* ProjectInv, of one run.
ProjectOk(r) ==
  /\ pc[r] \in AfterNested => pulled[r] = Nested[cur[r]] /\ Whole(pulled[r])
  /\ pc[r] \notin AfterNested => pulled[r] = {}
  /\ StackOk(r, stack[r], cur[r])

LEMMA ProjectParts == ProjectInv <=> \A r \in Run : ProjectOk(r)
BY DEF ProjectInv, ProjectOk

LEMMA ProjectOwn ==
  ASSUME TypeOK, PrefixInv, GotIsInstalled, RecordInv, ProjectInv,
         NEW r \in Run, Start(r) \/ RunStep(r) \/ Abort(r)
  PROVE  ProjectOk(r)'
<1> USE DEF At, Goto
<1>0. /\ pc \in [Run -> RunPC] /\ cur \in [Run -> Pkg \cup {NoPkg}]
      /\ stack \in [Run -> Seq(Frame)] /\ pulled \in [Run -> SUBSET Pkg]
      /\ (cur[r] = NoPkg) <=> (pc[r] \in {"off", "await", "project"})
      /\ (stack[r] = <<>>) <=> (pc[r] \in {"off", "await"})
      /\ ProjectOk(r)
  BY ProjectParts DEF TypeOK, RunTypes
<1>1. CASE UNCHANGED <<cur, stack, pulled>> /\ (pc'[r] \in AfterNested <=> pc[r] \in AfterNested)
  BY <1>0, <1>1 DEF ProjectOk
<1>2. ASSUME pc'[r] = "project" \/ pc'[r] = "off" \/ pc'[r] = "lookup",
             pulled'[r] = {}, StackOk(r, stack'[r], cur'[r])
      PROVE  ProjectOk(r)'
  BY <1>2 DEF ProjectOk, AfterNested, Locked
<1>3. CASE Gets(r)
  <2>1. PICK N \in SUBSET Pkg :
          /\ cur[r] \in Pkg /\ N = Nested[cur[r]] /\ Whole(N) /\ HandOn(r, N)
    BY <1>3 DEF Gets
  <2>2. /\ pc'[r] = "project" /\ cur'[r] = NoPkg /\ pulled'[r] = {}
        /\ stack'[r] = Grown(stack[r], [node |-> cur[r], nested |-> Nested[cur[r]]])
    BY <1>0, <2>1, HandOnMoves, HandOnGrows
  <2>3. cur[r] # NoPkg /\ stack[r] # <<>> /\ stack[r] \in Seq(Frame)
    BY <1>0, <2>1
  <2>4. StackOk(r, stack[r], cur[r])
    BY <1>0 DEF ProjectOk
  <2>5. StackOk(r, stack'[r], cur'[r])
    BY <2>1, <2>2, <2>3, <2>4, StackGrows
  <2> QED BY <1>2, <2>2, <2>5
<1>4. CASE EnterStorage(r)
  <2>1. /\ pc'[r] = "project" /\ cur'[r] = NoPkg
        /\ stack'[r] = <<[owner |-> NoPkg, built |-> <<>>]>>
    BY <1>0, <1>4 DEF EnterStorage
  <2>2. pulled'[r] = {}
    BY <1>0, <1>4 DEF EnterStorage, ProjectOk, AfterNested, Locked
  <2> QED BY <1>2, <2>1, <2>2, StackStart
<1>5. CASE BuildNode(r)
  <2>1. /\ pc'[r] = "lookup" /\ stack'[r] = stack[r] /\ stack[r] # <<>>
        /\ cur'[r] = NextNode(r) /\ cur[r] = NoPkg
    BY <1>0, <1>5 DEF BuildNode, NextNode
  <2>2. pulled'[r] = {}
    BY <1>0, <1>5 DEF BuildNode, ProjectOk, AfterNested, Locked
  <2>3. Project(r) = stack[r][1]
    BY <1>0, <2>1, PopFrame DEF Project
  <2>4. Len(stack[r][1].built) # Len(NodesOf(r, stack[r][1]))
    BY <1>5, <2>3 DEF BuildNode, AllBuilt
  <2>5. StackOk(r, stack[r], NoPkg)
    BY <1>0, <2>1 DEF ProjectOk
  <2>6. StackOk(r, stack[r], NodesOf(r, stack[r][1])[Len(stack[r][1].built) + 1])
    BY <1>0, <2>1, <2>4, <2>5, StackNode
  <2> QED BY <1>2, <2>1, <2>2, <2>3, <2>6 DEF NextNode
<1>6. ASSUME Descend(r), cur[r] \in Pkg, pulled'[r] = pulled[r], pc[r] \notin AfterNested
      PROVE  ProjectOk(r)'
  <2>1. /\ pc'[r] = "project" /\ cur'[r] = NoPkg /\ stack[r] # <<>> /\ stack[r] \in Seq(Frame)
        /\ stack'[r] = <<[owner |-> cur[r], built |-> <<>>]>> \o stack[r]
    BY <1>0, <1>6 DEF Descend
  <2>2. pulled'[r] = {} /\ StackOk(r, stack[r], cur[r])
    BY <1>0, <1>6 DEF ProjectOk
  <2>3. StackOk(r, stack'[r], cur'[r])
    BY <1>6, <2>1, <2>2, StackPush
  <2> QED BY <1>2, <2>1, <2>2, <2>3
<1>7. CASE PrepareSource(r)
  <2>1. cur[r] \in Pkg /\ pc[r] \notin AfterNested /\ pulled' = pulled
    BY <1>0, <1>7 DEF PrepareSource, AfterNested, Locked
  <2>2. CASE Descend(r)
    BY <1>6, <2>1, <2>2
  <2>3. CASE Manifest[cur[r]] = <<>> /\ pc'[r] = "check" /\ UNCHANGED <<cur, stack>>
    <3>1. pulled[r] = {} /\ StackOk(r, stack[r], cur[r])
      BY <1>0, <2>1 DEF ProjectOk
    <3>2. Nested[cur[r]] = {} /\ Whole({})
      BY <2>1, <2>3, NothingNested
    <3> QED BY <2>1, <2>3, <3>1, <3>2 DEF ProjectOk, AfterNested
  <2>4. CASE pc'[r] = "probe" /\ UNCHANGED <<cur, stack>>
    BY <1>1, <2>1, <2>4 DEF AfterNested, Locked
  <2> QED BY <1>0, <1>7, <2>2, <2>3, <2>4 DEF PrepareSource, HasManifest
<1>8. CASE FinishProbe(r)
  <2>1. cur[r] \in Pkg /\ pc[r] \notin AfterNested /\ pulled' = pulled /\ Descend(r)
    BY <1>0, <1>8 DEF FinishProbe, AfterNested, Locked
  <2> QED BY <1>6, <2>1
<1>9. CASE FinishNested(r)
  <2>1. stack[r] # <<>> /\ stack[r] \in Seq(Frame) /\ cur[r] = NoPkg /\ pc'[r] = "check"
    BY <1>0, <1>9 DEF FinishNested
  <2>2. Project(r) = stack[r][1]
    BY <2>1, PopFrame DEF Project
  <2>3. StackOk(r, stack[r], NoPkg)
    BY <1>0, <2>1 DEF ProjectOk
  <2>4. /\ BuiltOk(NodesOf(r, stack[r][1]), stack[r][1].built)
        /\ stack[r][1] \in Frame /\ stack[r][1].built \in Seq(Built)
    BY <2>1, <2>3, HeadOk
  <2>5. /\ stack[r][1].owner # NoPkg
        /\ Len(stack[r][1].built) = Len(NodesOf(r, stack[r][1]))
    BY <1>9, <2>2 DEF FinishNested, AllBuilt, IsNested
  <2>6. /\ stack[r][1].owner \in Pkg
        /\ NodesOf(r, stack[r][1]) = Manifest[stack[r][1].owner]
    BY <2>4, <2>5 DEF Frame, NodesOf
  <2>7. /\ cur'[r] = stack[r][1].owner /\ pulled'[r] = Merged(stack[r][1].built)
        /\ stack'[r] = Tail(stack[r])
    BY <1>0, <1>9, <2>2 DEF FinishNested
  <2>8. pulled'[r] = Nested[cur'[r]] /\ Whole(pulled'[r])
    BY <2>4, <2>5, <2>6, <2>7, ManifestMerged
  <2>9. StackOk(r, stack'[r], cur'[r])
    BY <2>1, <2>3, <2>5, <2>7, StackPop
  <2> QED BY <2>1, <2>8, <2>9 DEF ProjectOk, AfterNested
<1>10. CASE Exit(r)
  <2>1. pc'[r] = "off" /\ pulled'[r] = {} /\ stack'[r] = <<>>
    BY <1>0, <1>10 DEF Exit
  <2>2. StackOk(r, <<>>, cur'[r])
    BY DEF StackOk
  <2> QED BY <1>2, <2>1, <2>2
<1>11. CASE Lookup(r)
  <2>1. CASE RecordHit(cur[r])
    BY <1>3, <1>11, <2>1, LookupGets
  <2>2. CASE ~RecordHit(cur[r])
    BY <1>0, <1>1, <1>11, <2>2 DEF Lookup, AfterNested, Locked
  <2> QED BY <2>1, <2>2
<1>12. CASE FinishNode(r)
  BY <1>3, <1>12, FinishGets
<1>13. CASE Start(r) \/ CheckInstalled(r) \/ LockPackage(r) \/ Recheck(r)
  BY <1>0, <1>1, <1>13 DEF Start, CheckInstalled, LockPackage, Recheck, AfterNested, Locked
<1>14. CASE RemovePrefix(r) \/ Unpack(r) \/ DiscardArchive(r)
  BY <1>0, <1>1, <1>14 DEF RemovePrefix, Unpack, DiscardArchive, AfterNested, Locked
<1>15. CASE EnterSlot(r) \/ Compile(r) \/ InstallFiles(r)
  BY <1>0, <1>1, <1>15 DEF EnterSlot, Compile, InstallFiles, AfterNested, Locked
<1>16. CASE Pack(r) \/ MarkInstalled(r) \/ RemoveScratch(r)
  BY <1>0, <1>1, <1>16 DEF Pack, MarkInstalled, RemoveScratch, AfterNested, Locked
<1> QED
  BY <1>4, <1>5, <1>7, <1>8, <1>9, <1>10, <1>11, <1>12, <1>13, <1>14, <1>15, <1>16
  DEF RunStep, FinishRun, Abort

LEMMA ProjectStep ==
  IInv /\ [Next]_vars => ProjectInv'
<1> SUFFICES ASSUME IInv, [Next]_vars PROVE ProjectInv'
  OBVIOUS
<1>1. \A r \in Run : ProjectOk(r)
  BY ProjectParts DEF IInv
<1>2. (\A r \in Run : ProjectOk(r)') => ProjectInv'
  BY DEF ProjectInv, ProjectOk
<1>3. CASE UNCHANGED runs
  BY <1>1, <1>2, <1>3 DEF runs, ProjectOk
<1>4. ASSUME NEW r \in Run, Start(r) \/ RunStep(r) \/ Abort(r) PROVE ProjectInv'
  <2>1. OthersKeep(r) /\ ProjectOk(r)'
    BY <1>4, OthersKept, ProjectOwn DEF IInv
  <2>2. \A s \in Run \ {r} : ProjectOk(s)'
    BY <1>1, <2>1 DEF OthersKeep, ProjectOk
  <2> QED BY <1>2, <2>1, <2>2
<1>5. ASSUME NEW c \in Cleaner, StartClean(c) \/ CleanStep(c) \/ AbortClean(c)
      PROVE  UNCHANGED runs
  BY <1>5 DEF StartClean, CleanStep, AbortClean, LockStorage, CleanScratch, FinishClean
<1>6. ASSUME NEW q \in Pkg, DeletePrefix(q) \/ CorruptArchive(q) PROVE UNCHANGED runs
  BY <1>6 DEF DeletePrefix, CorruptArchive
<1> QED BY <1>3, <1>4, <1>5, <1>6 DEF Next, vars

(***************************************************************************)
(* The invariant.                                                          *)
(***************************************************************************)

LEMMA InitInv == Init => IInv
<1> SUFFICES ASSUME Init PROVE IInv
  OBVIOUS
<1>1. TypeOK
  BY TypeInit
<1>2. LockInv
  BY DEF Init, LockInv, Holds, Locked, Slotted
<1>3. PrefixInv
  BY DEF Init, PrefixInv, MarkerMeansComplete, ArchiveMeansComplete, NeverRebuildInstalled,
         Installed, NoArchive, Filling
<1>4. ScratchKept
  BY DEF Init, ScratchKept, At
<1>5. \A r \in Run : pc[r] = "off" /\ stack[r] = <<>> /\ pulled[r] = {}
  BY DEF Init
<1>6. GotIsInstalled
  BY <1>5, EmptyStack, GotParts DEF GotIsInstalled
<1>7. RecordInv
  BY DEF Init, RecordInv
<1>8. ProjectInv
  <2>1. ASSUME NEW r \in Run PROVE StackOk(r, <<>>, cur[r])
    BY DEF StackOk
  <2> QED BY <1>5, <2>1 DEF ProjectInv, AfterNested, Locked
<1> QED BY <1>1, <1>2, <1>3, <1>4, <1>6, <1>7, <1>8 DEF IInv

LEMMA StepInv == IInv /\ [Next]_vars => IInv'
<1> SUFFICES ASSUME IInv, [Next]_vars PROVE IInv'
  OBVIOUS
<1>1. TypeOK'
  BY TypeStep DEF IInv
<1> QED
  BY <1>1, LockStep, PrefixStep, ScratchStep, GotStep, RecordStep, ProjectStep DEF IInv

\* The inductive invariant holds of every execution of Install: of any number
\* of build and clean processes, dying at any point.
THEOREM InstallInvariant == Spec => []IInv
BY InitInv, StepInv, PTL DEF Spec

(***************************************************************************)
(* The properties of Install: consequences of the invariant.               *)
(***************************************************************************)

\* Every state of a storage and its processes has the types of Install.
THEOREM InstallTypes == Spec => []TypeOK
<1>1. IInv => TypeOK
  BY DEF IInv
<1> QED BY <1>1, InstallInvariant, PTL

\* A prefix with the marker is complete (storage.rs, mark_installed).
THEOREM MarkerTheorem == Spec => []MarkerMeansComplete
<1>1. IInv => MarkerMeansComplete
  BY DEF IInv, PrefixInv
<1> QED BY <1>1, InstallInvariant, PTL

\* An archive that unpacks is a whole install without the marker (build.rs
\* packs before it marks).
THEOREM ArchiveTheorem == Spec => []ArchiveMeansComplete
<1>1. IInv => ArchiveMeansComplete
  BY DEF IInv, PrefixInv
<1> QED BY <1>1, InstallInvariant, PTL

\* Nobody writes into a prefix that somebody else is filling (the package lock).
THEOREM WriterTheorem == Spec => []OneWriterPerPrefix
<1>1. IInv => OneWriterPerPrefix
  BY LockedAlone DEF IInv, OneWriterPerPrefix, Filling, Locked
<1> QED BY <1>1, InstallInvariant, PTL

\* One package is built at a time in a storage (package-build.lock).
THEOREM BuilderTheorem == Spec => []OneBuilder
<1>1. IInv => OneBuilder
  BY DEF IInv, LockInv, Holds, OneBuilder
<1> QED BY <1>1, InstallInvariant, PTL

\* The second look under the package lock keeps an installed package from being
\* removed and built again (build_node).
THEOREM RebuildTheorem == Spec => []NeverRebuildInstalled
<1>1. IInv => NeverRebuildInstalled
  BY DEF IInv, PrefixInv
<1> QED BY <1>1, InstallInvariant, PTL

\* What is built of a run's projects serves all of itself, and the package that a run is at
\* has what it depends on among that.
LEMMA GotServed ==
  ASSUME TypeOK, ProjectInv, NEW r \in Run
  PROVE  /\ Serves(Got(r))
         /\ cur[r] \in Pkg => Deps[cur[r]] \subseteq Got(r)
<1>1. stack[r] \in Seq(Frame) /\ StackOk(r, stack[r], cur[r])
  BY DEF TypeOK, RunTypes, ProjectInv
<1>2. ASSUME NEW i \in 1..Len(stack[r])
      PROVE  /\ Serves(AllOf(stack[r][i].built)) /\ AllOf(stack[r][i].built) \subseteq Got(r)
  <2>1. stack[r][i] \in Frame
    BY <1>1
  <2>2. stack[r][i].built \in Seq(Built) /\ BuiltOk(NodesOf(r, stack[r][i]), stack[r][i].built)
    BY <1>1, <2>1 DEF Frame, StackOk
  <2>3. Serves(AllOf(stack[r][i].built))
    BY <2>1, <2>2, NodesAreGraph, BuiltServes
  <2> QED BY <1>1, <2>3, OfStackParts, GotParts
<1>3. pulled[r] \subseteq Got(r) /\ Serves(pulled[r])
  <2>1. Serves({})
    BY DEF Serves
  <2> QED BY <2>1, GotParts DEF ProjectInv, Whole
<1>4. ASSUME NEW p \in Got(r) PROVE NamesOf(Deps[p] \cup Nested[p]) \subseteq NamesOf(Got(r))
  <2>1. CASE p \in pulled[r]
    BY <1>3, <2>1 DEF Serves, NamesOf
  <2>2. CASE p \in OfStack(stack[r])
    <3>1. PICK i \in 1..Len(stack[r]) : p \in AllOf(stack[r][i].built)
      BY <1>1, <2>2, OfStackParts
    <3> QED BY <1>2, <3>1 DEF Serves, NamesOf
  <2> QED BY <2>1, <2>2, GotParts
<1>5. ASSUME cur[r] \in Pkg PROVE Deps[cur[r]] \subseteq Got(r)
  <2>1. cur[r] # NoPkg /\ stack[r] # <<>>
    BY <1>5 DEF TypeOK, RunTypes
  <2> DEFINE b == stack[r][1].built
             g == NodesOf(r, stack[r][1])
  <2>2. /\ 1 \in 1..Len(stack[r]) /\ b \in Seq(Built) /\ g \in Graphs /\ g \in Seq(Pkg)
        /\ BuiltOk(g, b) /\ Len(b) < Len(g) /\ g[Len(b) + 1] = cur[r]
    BY <1>1, <1>5, <2>1, HeadOk
  <2>3. Len(b) + 1 \in 1..Len(g) /\ Len(b) + 1 <= Len(b) + 1
    BY <2>2
  <2> HIDE DEF b, g
  <2>4. Deps[cur[r]] \subseteq Direct(b)
    BY <2>2, <2>3, BuiltServes
  <2>5. Direct(b) \subseteq Got(r)
    BY <1>2, <2>2 DEF AllOf, b
  <2> QED BY <2>4, <2>5
<1> QED BY <1>4, <1>5 DEF Serves

\* A finished project: all its nodes are built, in their order.
LEMMA FinishedProject ==
  ASSUME TypeOK, ProjectInv, NEW r \in Run, At(r, "project"), AllBuilt(r)
  PROVE  /\ Whole(Merged(Project(r).built))
         /\ Direct(Project(r).built) = Range(NodesOf(r, Project(r)))
         /\ \A p \in Direct(Project(r).built) : Deps[p] \subseteq Merged(Project(r).built)
<1> DEFINE b == stack[r][1].built
           g == NodesOf(r, stack[r][1])
<1>1. /\ stack[r] \in Seq(Frame) /\ stack[r] # <<>> /\ cur[r] = NoPkg
      /\ StackOk(r, stack[r], NoPkg)
  BY DEF At, TypeOK, RunTypes, ProjectInv
<1>2. Project(r) = stack[r][1]
  BY <1>1, PopFrame DEF Project
<1>3. /\ b \in Seq(Built) /\ g \in Graphs /\ g \in Seq(Pkg) /\ BuiltOk(g, b)
      /\ Len(b) = Len(g)
  BY <1>1, <1>2, HeadOk DEF AllBuilt
<1> HIDE DEF b, g
<1>4. /\ \A j \in 1..Len(b) : b[j].node = g[j]
      /\ \A j \in 1..Len(g) : j <= Len(b) + 1 => Deps[g[j]] \subseteq Direct(b)
      /\ Whole(Merged(b))
  BY <1>3, BuiltServes
<1>5. \A j \in 1..Len(g) : Deps[g[j]] \subseteq Direct(b)
  <2>1. \A j \in 1..Len(g) : j <= Len(b) + 1
    BY <1>3
  <2> QED BY <1>4, <2>1
<1>6. Direct(b) = Range(g)
  <2>1. DOMAIN g = 1..Len(g) /\ DOMAIN b = 1..Len(g)
    BY <1>3
  <2> QED BY <1>3, <1>4, <2>1 DEF Direct, Range
<1>7. \A p \in Direct(b) : Deps[p] \subseteq Merged(b)
  BY <1>3, <1>4, <1>5, AllOfParts DEF Merged
<1> QED BY <1>2, <1>4, <1>6, <1>7 DEF b, g

\* What a run has got is installed, and has all the names that its packages need, whatever
\* merge_nested has dropped on the way (build_project, build_nested).
THEOREM GotTheorem == Spec => []GotIsWhole
<1>1. IInv => GotIsWhole
  BY GotServed DEF IInv, GotIsInstalled, GotIsWhole
<1> QED BY <1>1, InstallInvariant, PTL

\* What merge_nested makes of any finished project, to write the targets file or to build the
\* package whose manifest it is, has every name once, serves itself, and has all nodes of the
\* project, each with exactly the packages that it depends on.
THEOREM HandedOnTheorem == Spec => []HandedOnIsWhole
<1>1. IInv => HandedOnIsWhole
  <2> SUFFICES ASSUME IInv, NEW r \in Run, At(r, "project"), AllBuilt(r)
               PROVE  LET S == Merged(Project(r).built)
                      IN /\ OnePerName(S) /\ Serves(S)
                         /\ \A p \in Range(NodesOf(r, Project(r))) : p \in S /\ Deps[p] \subseteq S
    BY DEF HandedOnIsWhole
  <2>1. /\ Whole(Merged(Project(r).built))
        /\ Direct(Project(r).built) = Range(NodesOf(r, Project(r)))
        /\ \A p \in Direct(Project(r).built) : Deps[p] \subseteq Merged(Project(r).built)
    BY FinishedProject DEF IInv
  <2>2. Direct(Project(r).built) \subseteq Merged(Project(r).built)
    BY DEF Merged
  <2> QED BY <2>1, <2>2 DEF Whole
<1> QED BY <1>1, InstallInvariant, PTL

\* The build trees and probe trees in use are never deleted (clean_storage,
\* probe_options and the removal after a build).
THEOREM ScratchTheorem == Spec => []ScratchKept
<1>1. IInv => ScratchKept
  BY DEF IInv
<1> QED BY <1>1, InstallInvariant, PTL

\* Packages are compiled and probed against complete prefixes only.
THEOREM AgainstTheorem == Spec => []BuiltAgainstComplete
<1>1. IInv => BuiltAgainstComplete
  <2> SUFFICES ASSUME IInv, NEW r \in Run
               PROVE  /\ pc[r] \in Slotted \cup {"probe"} => \A d \in Deps[cur[r]] : Installed(d)
                      /\ pc[r] \in Slotted =>
                           pulled[r] = Nested[cur[r]] /\ \A d \in Nested[cur[r]] : Installed(d)
    BY DEF BuiltAgainstComplete
  <2>1. pc[r] \in Slotted \cup {"probe"} => cur[r] \in Pkg
    BY DEF IInv, TypeOK, RunTypes, Slotted
  <2>2. pc[r] \in Slotted \cup {"probe"} => Deps[cur[r]] \subseteq Got(r)
    BY <2>1, GotServed DEF IInv
  <2>3. pc[r] \in Slotted => pulled[r] = Nested[cur[r]]
    BY DEF IInv, ProjectInv, AfterNested, Slotted, Locked
  <2>4. pulled[r] \subseteq Got(r)
    BY GotParts
  <2> QED BY <2>2, <2>3, <2>4 DEF IInv, GotIsInstalled
<1> QED BY <1>1, InstallInvariant, PTL

\* Nothing that is installed changes under a run.
THEOREM FinalTheorem == Spec => InstalledIsFinal
<1>1. IInv /\ [Next]_vars =>
        [\A p \in Pkg : Installed(p) /\ shared # {} => prefix'[p] = prefix[p]]_vars
  BY InstalledKept DEF IInv
<1> QED BY <1>1, InstallInvariant, PTL DEF Spec, InstalledIsFinal

-----------------------------------------------------------------------------
(* Refinements *)

\* build.lock, as `unideps build` and `unideps clean` take and drop it, is a
\* reader-writer lock.
THEOREM RunLockTheorem == Spec => RunLockSpec
<1>1. Init => RunLock!Init
  BY DEF Init, RunLock!Init
<1>2. IInv /\ [Next]_vars => [RunLock!Next]_(RunLock!vars)
  <2> SUFFICES ASSUME IInv, [Next]_vars PROVE RunLock!Next \/ UNCHANGED <<shared, excl>>
    BY DEF RunLock!vars
  <2>1. ASSUME NEW r \in Run, EnterStorage(r) PROVE RunLock!AcquireShared(r)
    BY <2>1 DEF EnterStorage, MayRun, At, RunLock!AcquireShared, IInv, LockInv, Holds
  <2>2. ASSUME NEW r \in Run, Exit(r)
        PROVE  RunLock!Release(r) \/ UNCHANGED <<shared, excl>>
    <3>1. shared' = shared \ {r} /\ excl' = excl
      BY <2>2 DEF Exit, WithoutRun
    <3>2. r \notin excl
      BY ProcsAssumption DEF IInv, TypeOK, LockTypes
    <3> QED BY <3>1, <3>2 DEF RunLock!Release
  <2>3. ASSUME NEW c \in Cleaner, LockStorage(c) PROVE RunLock!AcquireExclusive(c)
    BY <2>3 DEF LockStorage, MayClean, RunLock!AcquireExclusive
  <2>4. ASSUME NEW c \in Cleaner, FinishClean(c) \/ AbortClean(c)
        PROVE  RunLock!Release(c) \/ UNCHANGED <<shared, excl>>
    <3>1. excl' = excl \ {c} /\ shared' = shared
      BY <2>4 DEF FinishClean, AbortClean
    <3>2. c \notin shared
      BY ProcsAssumption DEF IInv, TypeOK, LockTypes
    <3> QED BY <3>1, <3>2 DEF RunLock!Release
  <2>5. ASSUME NEW r \in Run, Start(r) \/ RunStep(r) \/ Abort(r), ~EnterStorage(r), ~Exit(r)
        PROVE  UNCHANGED <<shared, excl>>
    BY <2>5
    DEF RunStep, Start, BuildNode, Lookup, PrepareSource, FinishProbe, FinishNested,
        CheckInstalled, LockPackage, Recheck, RemovePrefix, Unpack, DiscardArchive, EnterSlot,
        Compile, InstallFiles, Pack, MarkInstalled, RemoveScratch, FinishNode, FinishRun,
        Abort, locks
  <2>6. ASSUME NEW c \in Cleaner, StartClean(c) \/ CleanScratch(c)
        PROVE  UNCHANGED <<shared, excl>>
    BY <2>6 DEF StartClean, CleanScratch, locks
  <2>7. ASSUME NEW p \in Pkg, DeletePrefix(p) \/ CorruptArchive(p)
        PROVE  UNCHANGED <<shared, excl>>
    BY <2>7 DEF DeletePrefix, CorruptArchive, locks
  <2>8. CASE UNCHANGED vars
    BY <2>8 DEF vars, locks
  <2> QED
    BY <2>1, <2>2, <2>3, <2>4, <2>5, <2>6, <2>7, <2>8 DEF Next, CleanStep, RunLock!Next
<1> QED BY <1>1, <1>2, InstallInvariant, PTL DEF Spec, RunLockSpec, RunLock!Spec

\* The packages that are installed, as the abstract storage sees it.
Inst == {p \in Pkg : Installed(p)}

\* What the runs have got, as the abstract storage sees it.
GotBy == [r \in Run |-> Got(r)]

LEMMA GotByNext == GotBy' = [r \in Run |-> Got(r)']
BY DEF GotBy

\* When the others keep theirs, one entry changes.
LEMMA GotByOne ==
  ASSUME NEW r \in Run, OthersKeep(r)
  PROVE  GotBy' = [GotBy EXCEPT ![r] = Got(r)']
<1>1. \A s \in Run \ {r} : Got(s)' = Got(s)
  BY GotParts, GotPartsNext DEF OthersKeep
<1>2. GotBy' = [s \in Run |-> IF s = r THEN Got(r)' ELSE Got(s)]
  BY <1>1, GotByNext
<1> QED BY <1>2 DEF GotBy

\* What a run gets, it takes from the abstract storage.
LEMMA GetsIsTake ==
  ASSUME IInv, NEW r \in Run, OthersKeep(r), Gets(r), UNCHANGED <<prefix, shared>>
  PROVE  AbstractStore!Next
<1>1. PICK N \in SUBSET Pkg :
        /\ cur[r] \in Pkg /\ N = Nested[cur[r]] /\ Whole(N)
        /\ \A p \in {cur[r]} \cup N : Installed(p)
        /\ Got(r)' = Got(r) \cup {cur[r]} \cup N
  BY DEF Gets
<1> DEFINE S == {cur[r]} \cup N
<1>2. r \in shared
  <2>1. pc[r] \notin {"off", "await"}
    BY <1>1 DEF IInv, TypeOK, RunTypes
  <2> QED BY <2>1 DEF IInv, LockInv, Holds
<1>3. S \subseteq Inst /\ S \in SUBSET Pkg
  BY <1>1 DEF Inst
<1>4. Got(r)' = Got(r) \cup S
  BY <1>1
<1>5. Serves(Got(r) \cup S)
  <2>1. Serves(Got(r)) /\ Serves(N) /\ Deps[cur[r]] \cup Nested[cur[r]] \subseteq Got(r) \cup S
    BY <1>1, GotServed DEF IInv, Whole
  <2> QED BY <2>1 DEF Serves, NamesOf
<1>6. GotBy' = [GotBy EXCEPT ![r] = Got(r) \cup S] /\ GotBy[r] = Got(r) /\ UNCHANGED Inst
  BY <1>4, GotByOne DEF GotBy, Inst, Installed
<1> HIDE DEF S
<1>7. AbstractStore!Serves(GotBy[r] \cup S)
  <2>1. Got(r) \cup S \subseteq Pkg
    BY <1>3, GotInStorage DEF IInv
  <2> QED
    BY <1>5, <1>6, <2>1 DEF AbstractStore!Serves, AbstractStore!NamesOf, Serves, NamesOf
<1>8. AbstractStore!Take(r, S)
  BY <1>2, <1>3, <1>6, <1>7 DEF AbstractStore!Take, Inst, GotBy
<1> QED BY <1>3, <1>8 DEF AbstractStore!Next

\* What a finished manifest drops, the run gives up.
LEMMA NestedIsGiveUp ==
  ASSUME IInv, NEW r \in Run, OthersKeep(r), FinishNested(r)
  PROVE  AbstractStore!Next
<1> DEFINE S == Got(r) \ Got(r)'
<1>1. Got(r)' \subseteq Got(r) /\ NamesOf(Got(r)') = NamesOf(Got(r))
  BY FinishNestedGot DEF IInv
<1>2. S \in SUBSET Pkg
  BY GotInStorage DEF IInv
<1>3. S \subseteq Got(r) /\ Got(r) \ S = Got(r)'
  BY <1>1
<1> HIDE DEF S
<1>4. GotBy[r] = Got(r) /\ GotBy' = [GotBy EXCEPT ![r] = Got(r) \ S]
  BY <1>3, GotByOne DEF GotBy
<1>5. UNCHANGED <<Inst, shared>>
  BY DEF FinishNested, disk, locks, Inst, Installed
<1>6. AbstractStore!NamesOf(GotBy[r] \ S) = AbstractStore!NamesOf(GotBy[r])
  BY <1>1, <1>3, <1>4 DEF AbstractStore!NamesOf, NamesOf
<1>7. AbstractStore!GiveUp(r, S)
  BY <1>3, <1>4, <1>5, <1>6 DEF AbstractStore!GiveUp, Inst, GotBy
<1> QED BY <1>2, <1>7 DEF AbstractStore!Next

\* A run that ends leaves the abstract storage, if it was in it.
LEMMA ExitIsLeave ==
  ASSUME IInv, NEW r \in Run, OthersKeep(r), Exit(r), UNCHANGED prefix
  PROVE  AbstractStore!Next \/ UNCHANGED <<Inst, shared, GotBy>>
<1>1. shared' = shared \ {r} /\ UNCHANGED Inst
  BY DEF Exit, WithoutRun, Inst, Installed
<1>2. Got(r)' = {}
  <2>1. stack'[r] = <<>> /\ pulled'[r] = {}
    BY DEF Exit, IInv, TypeOK, RunTypes
  <2> QED BY <2>1, EmptyStack, GotPartsNext
<1>3. GotBy' = [GotBy EXCEPT ![r] = {}] /\ GotBy[r] = Got(r)
  BY <1>2, GotByOne DEF GotBy
<1>4. CASE r \in shared
  <2>1. AbstractStore!Leave(r)
    BY <1>1, <1>3, <1>4 DEF AbstractStore!Leave, Inst, GotBy
  <2> QED BY <2>1 DEF AbstractStore!Next
<1>5. CASE r \notin shared
  <2>1. Got(r) = {}
    BY <1>5, GotInStorage DEF IInv
  <2> QED BY <1>1, <1>3, <1>5, <2>1 DEF GotBy
<1> QED BY <1>4, <1>5

\* The marker publishes a package: what it needs is installed by then.
LEMMA MarkIsPublish ==
  ASSUME IInv, NEW r \in Run, MarkInstalled(r)
  PROVE  AbstractStore!Next
<1>1. /\ cur[r] \in Pkg /\ pc[r] = "mark" /\ UNCHANGED <<shared, stack, pulled>>
      /\ prefix' = [prefix EXCEPT ![cur[r]] = @ \cup {Marker}]
  BY DEF MarkInstalled, At, IInv, TypeOK, RunTypes, locks
<1>2. ~Installed(cur[r]) /\ shared # {}
  BY <1>1 DEF IInv, PrefixInv, NeverRebuildInstalled, Filling, LockInv, Holds
<1>3. Deps[cur[r]] \cup Nested[cur[r]] \subseteq Got(r)
  <2>1. pulled[r] = Nested[cur[r]]
    BY <1>1 DEF IInv, ProjectInv, AfterNested, Locked
  <2> QED BY <1>1, <2>1, GotServed, GotParts DEF IInv
<1>4. Deps[cur[r]] \cup Nested[cur[r]] \subseteq Inst
  BY <1>3, GotInStorage DEF IInv, GotIsInstalled, Inst
<1>5. Inst' = Inst \cup {cur[r]}
  BY <1>1 DEF Inst, Installed, IInv, TypeOK, DiskTypes
<1>6. UNCHANGED GotBy
  BY <1>1, GotParts, GotPartsNext, GotByNext DEF GotBy
<1>7. AbstractStore!Publish(cur[r])
  BY <1>1, <1>2, <1>4, <1>5, <1>6 DEF AbstractStore!Publish, Inst, GotBy
<1> QED BY <1>1, <1>7 DEF AbstractStore!Next

\* Nothing appears or disappears while a prefix is emptied or filled.
LEMMA FillingIsHidden ==
  ASSUME IInv, NEW r \in Run, RemovePrefix(r) \/ Unpack(r) \/ InstallFiles(r)
  PROVE  UNCHANGED <<Inst, shared, stack, pulled>>
<1> USE DEF IInv
<1>1. /\ cur[r] \in Pkg /\ pc[r] \in Filling /\ UNCHANGED <<shared, stack, pulled>>
      /\ \A p \in Pkg \ {cur[r]} : prefix'[p] = prefix[p]
  BY DEF RemovePrefix, Unpack, InstallFiles, At, TypeOK, RunTypes, DiskTypes, locks, Filling
<1>2. Marker \notin prefix[cur[r]]
  BY <1>1 DEF PrefixInv, NeverRebuildInstalled, Installed
<1>3. Marker \notin prefix'[cur[r]]
  <2> USE <1>1, <1>2 DEF TypeOK, DiskTypes
  <2>1. CASE RemovePrefix(r)
    BY <2>1 DEF RemovePrefix
  <2>2. CASE Unpack(r)
    <3>1. Marker \notin archive[cur[r]].files
      BY FilesAssumption DEF PrefixInv
    <3> QED BY <2>2, <3>1 DEF Unpack
  <2>3. CASE InstallFiles(r)
    BY <2>3, FilesAssumption DEF InstallFiles
  <2> QED BY <2>1, <2>2, <2>3
<1> QED BY <1>1, <1>2, <1>3 DEF Inst, Installed

\* Build runs, with their locks, crashes, archives and half-filled prefixes, are
\* a storage where packages appear whole, after what they need, and stay, and where no run
\* is without a package of a name that one of its packages needs (build_project and
\* merge_nested).
THEOREM StoreTheorem == Spec => StoreSpec
<1>1. Init => AbstractStore!Init
  <2> SUFFICES ASSUME Init PROVE AbstractStore!Init
    OBVIOUS
  <2>1. \A r \in Run : stack[r] = <<>> /\ pulled[r] = {}
    BY DEF Init
  <2>2. \A r \in Run : Got(r) = {}
    BY <2>1, EmptyStack, GotParts
  <2> QED BY <2>2 DEF Init, AbstractStore!Init, Installed
<1>2. IInv /\ [Next]_vars => [AbstractStore!Next]_(AbstractStore!vars)
  <2> SUFFICES ASSUME IInv, [Next]_vars
               PROVE  AbstractStore!Next \/ UNCHANGED <<Inst, shared, GotBy>>
    BY DEF AbstractStore!vars, Inst, GotBy
  <2>1. ASSUME UNCHANGED <<Inst, shared, stack, pulled>>
        PROVE  UNCHANGED <<Inst, shared, GotBy>>
    BY <2>1, GotParts, GotPartsNext, GotByNext DEF GotBy
  <2>2. ASSUME UNCHANGED <<prefix, shared, stack, pulled>>
        PROVE  UNCHANGED <<Inst, shared, GotBy>>
    BY <2>1, <2>2 DEF Inst, Installed
  <2>3. ASSUME NEW r \in Run, Start(r) \/ RunStep(r) \/ Abort(r)
        PROVE  AbstractStore!Next \/ UNCHANGED <<Inst, shared, GotBy>>
    <3>1. OthersKeep(r) /\ (Gets(r) \/ FinishNested(r) \/ Exit(r) \/ Got(r)' = Got(r))
      BY <2>3, OthersKept, GotMoves DEF IInv
    <3>2. CASE MarkInstalled(r)
      BY <3>2, MarkIsPublish
    <3>3. CASE RemovePrefix(r) \/ Unpack(r) \/ InstallFiles(r)
      BY <2>1, <3>3, FillingIsHidden
    <3>4. CASE EnterStorage(r)
      <4>1. shared' = shared \cup {r} /\ UNCHANGED Inst
        BY <3>4 DEF EnterStorage, disk, Inst, Installed
      <4>2. UNCHANGED GotBy
        BY <3>1, <3>4, EnterGot, GotByOne DEF GotBy, IInv
      <4>3. AbstractStore!Enter(r)
        BY <4>1, <4>2 DEF AbstractStore!Enter, Inst, GotBy
      <4> QED BY <4>3 DEF AbstractStore!Next
    <3>5. CASE FinishRun(r) \/ Abort(r)
      <4>1. Exit(r) /\ UNCHANGED prefix
        BY <3>5 DEF FinishRun, Abort, disk
      <4> QED BY <3>1, <4>1, ExitIsLeave
    <3>6. CASE FinishNested(r)
      BY <3>1, <3>6, NestedIsGiveUp
    <3>7. CASE Lookup(r) \/ FinishNode(r)
      <4>1. Gets(r) \/ UNCHANGED <<stack, pulled>>
        <5>1. CASE Lookup(r) /\ ~RecordHit(cur[r])
          BY <5>1 DEF Lookup
        <5> QED BY <3>7, <5>1, LookupGets, FinishGets DEF IInv
      <4>2. UNCHANGED <<prefix, shared>>
        BY <3>7 DEF Lookup, FinishNode, disk, locks
      <4> QED BY <2>2, <3>1, <4>1, <4>2, GetsIsTake
    <3>8. CASE PrepareSource(r) \/ FinishProbe(r)
      <4>1. UNCHANGED <<Inst, shared>> /\ ~FinishNested(r)
        BY <3>8
        DEF PrepareSource, FinishProbe, FinishNested, At, locks, Inst, Installed
      <4>2. UNCHANGED <<prefix, shared>>
        BY <3>8 DEF PrepareSource, FinishProbe, locks
      <4>3. Got(r)' = Got(r) => UNCHANGED GotBy
        BY <3>1, GotByOne DEF GotBy
      <4>4. ~Exit(r)
        <5>1. pc'[r] \in {"check", "probe", "project"}
          BY <3>8 DEF PrepareSource, FinishProbe, Descend, Goto, IInv, TypeOK, RunTypes
        <5> QED BY <5>1 DEF Exit, Goto, IInv, TypeOK, RunTypes
      <4> QED BY <3>1, <4>1, <4>2, <4>3, <4>4, GetsIsTake
    <3>9. CASE UNCHANGED <<prefix, shared, stack, pulled>>
      BY <2>2, <3>9
    <3> QED
      BY <2>3, <3>2, <3>3, <3>4, <3>5, <3>6, <3>7, <3>8, <3>9
      DEF RunStep, Start, BuildNode, CheckInstalled, LockPackage, Recheck, DiscardArchive,
          EnterSlot, Compile, Pack, RemoveScratch, locks, disk
  <2>4. ASSUME NEW p \in Pkg, DeletePrefix(p) PROVE AbstractStore!Next
    <3>1. /\ shared = {} /\ UNCHANGED <<shared, stack, pulled>>
          /\ prefix' = [prefix EXCEPT ![p] = {}]
      BY <2>4 DEF DeletePrefix, locks, runs
    <3>2. Inst' = Inst \ {p}
      BY <3>1 DEF Inst, Installed, IInv, TypeOK, DiskTypes
    <3>3. UNCHANGED GotBy
      BY <3>1, GotParts, GotPartsNext, GotByNext DEF GotBy
    <3>4. AbstractStore!Lose(p)
      BY <3>1, <3>2, <3>3 DEF AbstractStore!Lose, Inst, GotBy
    <3> QED BY <3>4 DEF AbstractStore!Next
  <2>5. ASSUME NEW c \in Cleaner, StartClean(c) \/ CleanStep(c) \/ AbortClean(c)
        PROVE  UNCHANGED <<prefix, shared, stack, pulled>>
    BY <2>5
    DEF StartClean, CleanStep, LockStorage, CleanScratch, FinishClean, AbortClean, locks,
        disk, runs
  <2>6. ASSUME NEW p \in Pkg, CorruptArchive(p)
        PROVE  UNCHANGED <<prefix, shared, stack, pulled>>
    BY <2>6 DEF CorruptArchive, locks, runs
  <2>7. CASE UNCHANGED vars
    BY <2>2, <2>7 DEF vars, disk, locks, runs
  <2> QED BY <2>2, <2>3, <2>4, <2>5, <2>6, <2>7 DEF Next
<1> QED BY <1>1, <1>2, InstallInvariant, PTL DEF Spec, StoreSpec, AbstractStore!Spec
=============================================================================
