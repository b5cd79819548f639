------------------------------ MODULE Sources ------------------------------
(***************************************************************************)
(* The sources of one package (crates/unideps-cli/src/source.rs), as runs  *)
(* that share a storage fetch, patch and compile them while the checkout   *)
(* follows its ref.  A call of fetch_and_checkout is two steps here, what  *)
(* it does inside is the module Checkout.                                  *)
(*                                                                         *)
(* A commit stands for the files it has; a source_id is the commit that    *)
(* was hashed into it.                                                     *)
(***************************************************************************)
EXTENDS Naturals

CONSTANTS
  Run, Fetches,    \* runs of `build` and `fetch`, and those of `fetch`
  Commit,
  None, Mixed,     \* no files, and files that are no commit's
  MaxStarts, MaxMoves   \* runs in all, and moves of the ref (bounds of the model)

ASSUME SourcesAssumption ==
  /\ Fetches \subseteq Run
  /\ None \notin Commit /\ Mixed \notin Commit /\ None # Mixed
  /\ MaxStarts \in Nat /\ MaxMoves \in Nat

VARIABLES
  floating, patches,   \* the node: follows a branch, has patches
  renames,             \* a directory can be renamed to its place
  up,                  \* the commit its ref names
  head, marker, tree,  \* the checkout: HEAD, CHECKOUT_MARKER and the files
  patched, marked,     \* patched trees by source_id, and which have .unideps-patched
  installed,           \* by source_id, what the installed package was compiled from
  pc,
  want,    \* resolved_commit, or what a call of fetch_and_checkout works towards
  tmp,     \* what has been copied or compiled from so far
  starts, moves

node == <<floating, patches, renames>>
checkout == <<head, marker, tree>>
copies == <<patched, marked>>
vars == <<node, up, checkout, copies, installed, pc, want, tmp, starts, moves>>

Files == Commit \cup {None, Mixed}

\* source_id: a floating ref counts with the commit it was resolved to.
SourceId(r) == IF floating THEN want[r] ELSE up

TypeOK ==
  /\ floating \in BOOLEAN /\ patches \in BOOLEAN /\ renames \in BOOLEAN
  /\ up \in Commit
  /\ head \in Commit \cup {None} /\ marker \in Commit \cup {None} /\ tree \in Files
  /\ patched \in [Commit -> Files] /\ marked \subseteq Commit
  /\ installed \in [Commit -> Files]
  /\ pc \in [Run -> {"idle", "resolve", "sync", "reset", "lookup", "base", "prepare",
                     "wait", "copy", "copying", "publish", "rename", "spill", "ready", "build"}]
  /\ want \in [Run -> Commit \cup {None}]
  /\ \A r \in Run : pc[r] \notin {"idle", "resolve", "sync"} => SourceId(r) \in Commit
  /\ \A r \in Run : pc[r] = "reset" => want[r] \in Commit
  /\ tmp \in [Run -> Files]
  /\ starts \in Nat /\ moves \in Nat

Init ==
  /\ floating \in BOOLEAN /\ patches \in BOOLEAN /\ renames \in BOOLEAN
  /\ up \in Commit
  /\ head = None /\ marker = None /\ tree = None
  /\ patched = [c \in Commit |-> None] /\ marked = {}
  /\ installed = [c \in Commit |-> None]
  /\ pc = [r \in Run |-> "idle"]
  /\ want = [r \in Run |-> None] /\ tmp = [r \in Run |-> None]
  /\ starts = 0 /\ moves = 0

-----------------------------------------------------------------------------
\* Definitions that have a fault variant for comparison.

\* sync and existing_checkout_state leave a tree alone that is what is wanted.
IsPristineAt_Never(c) == FALSE
IsPristineAt(c) == head = c /\ marker = c /\ tree = c

\* "Another run may be building the same patched tree; re-check once it is done."
PatchedMeanwhile_NotLooked(c) == FALSE
PatchedMeanwhile(c) == c \in marked

\* "Floating refs must be fetched before hashing"; a fetch hashes nothing.
FirstStep(r) == IF floating THEN "resolve" ELSE IF r \in Fetches THEN "base" ELSE "lookup"

-----------------------------------------------------------------------------
Go(r, l) == pc' = [pc EXCEPT ![r] = l]
SourceLockFree == \A r \in Run : pc[r] \notin {"sync", "reset"}
PatchedLockFree(c) == \A r \in Run :
  pc[r] \in {"copy", "copying", "publish", "rename", "spill"} => SourceId(r) # c
BuildSlotFree == \A r \in Run : pc[r] # "build"
AfterBase(r) == IF r \in Fetches THEN "idle" ELSE "prepare"
AfterSync(r) ==
  IF ~floating THEN AfterBase(r) ELSE IF r \in Fetches THEN "base" ELSE "lookup"

\* What a compiler or a copy reads now.
Source(c) == IF patches THEN patched[c] ELSE tree
\* What was read, if the files were x when it began and are y at its end.
ReadFrom(x, y) == IF x = y THEN x ELSE Mixed

Start(r) ==
  /\ pc[r] = "idle"
  /\ starts < MaxStarts
  /\ starts' = starts + 1
  /\ Go(r, FirstStep(r))
  /\ want' = [want EXCEPT ![r] = None]
  /\ tmp' = [tmp EXCEPT ![r] = None]
  /\ UNCHANGED <<node, up, checkout, copies, installed, moves>>

\* Sources::checkout, for a floating ref before hashing, else when it is built.
LockCheckout(r) ==
  /\ pc[r] = "resolve" \/ (pc[r] = "base" /\ ~floating)
  /\ SourceLockFree
  /\ Go(r, "sync")
  /\ UNCHANGED <<node, up, checkout, copies, installed, want, tmp, starts, moves>>

Sync(r) ==
  /\ pc[r] = "sync"
  /\ want' = [want EXCEPT ![r] = up]
  /\ IF IsPristineAt(up)
       THEN Go(r, AfterSync(r)) /\ UNCHANGED tree
       ELSE Go(r, "reset") /\ tree' = Mixed
  /\ UNCHANGED <<node, up, head, marker, copies, installed, tmp, starts, moves>>

Reset(r) ==
  /\ pc[r] = "reset"
  /\ head' = want[r] /\ marker' = want[r] /\ tree' = want[r]
  /\ Go(r, AfterSync(r))
  /\ UNCHANGED <<node, up, copies, installed, want, tmp, starts, moves>>

\* The build id is known: the package may be installed already.
Lookup(r) ==
  /\ pc[r] = "lookup"
  /\ Go(r, IF installed[SourceId(r)] # None THEN "idle" ELSE "base")
  /\ UNCHANGED <<node, up, checkout, copies, installed, want, tmp, starts, moves>>

\* base_source of a ref this run has resolved: HEAD is read, without the lock.
Confirm(r) ==
  /\ pc[r] = "base" /\ floating
  /\ Go(r, IF head = want[r] THEN AfterBase(r) ELSE "idle")
  /\ UNCHANGED <<node, up, checkout, copies, installed, want, tmp, starts, moves>>

Prepare(r) ==
  /\ pc[r] = "prepare"
  /\ Go(r, IF patches /\ SourceId(r) \notin marked THEN "wait" ELSE "ready")
  /\ UNCHANGED <<node, up, checkout, copies, installed, want, tmp, starts, moves>>

LockPatched(r) ==
  /\ pc[r] = "wait"
  /\ PatchedLockFree(SourceId(r))
  /\ Go(r, IF PatchedMeanwhile(SourceId(r)) THEN "ready" ELSE "copy")
  /\ UNCHANGED <<node, up, checkout, copies, installed, want, tmp, starts, moves>>

\* copy_dir_recursive from the checkout, which is not locked, into tmp.
Copy(r) ==
  /\ \/ pc[r] = "copy" /\ Go(r, "copying") /\ tmp' = [tmp EXCEPT ![r] = tree]
     \/ pc[r] = "copying" /\ Go(r, "publish") /\ tmp' = [tmp EXCEPT ![r] = ReadFrom(@, tree)]
  /\ UNCHANGED <<node, up, checkout, copies, installed, want, starts, moves>>

\* The patches are applied; what is in the way is removed.
Publish(r) ==
  /\ pc[r] = "publish"
  /\ patched' = [patched EXCEPT ![SourceId(r)] = None]
  /\ marked' = marked \ {SourceId(r)}
  /\ Go(r, "rename")
  /\ UNCHANGED <<node, up, checkout, installed, want, tmp, starts, moves>>

\* If tmp cannot be renamed it is copied, with the marker at any time.
Rename(r) ==
  /\ \/ /\ pc[r] = "spill" \/ (pc[r] = "rename" /\ renames)
        /\ patched' = [patched EXCEPT ![SourceId(r)] = tmp[r]]
        /\ marked' = marked \cup {SourceId(r)}
        /\ Go(r, "ready")
     \/ /\ pc[r] = "rename" /\ ~renames
        /\ patched' = [patched EXCEPT ![SourceId(r)] = Mixed]
        /\ marked' \in {marked, marked \cup {SourceId(r)}}
        /\ Go(r, "spill")
  /\ UNCHANGED <<node, up, checkout, installed, want, tmp, starts, moves>>

\* The package lock and the build slot, and the second look for an install.
EnterSlot(r) ==
  /\ pc[r] = "ready"
  /\ BuildSlotFree
  /\ IF installed[SourceId(r)] # None
       THEN Go(r, "idle") /\ UNCHANGED tmp
       ELSE Go(r, "build") /\ tmp' = [tmp EXCEPT ![r] = Source(SourceId(r))]
  /\ UNCHANGED <<node, up, checkout, copies, installed, want, starts, moves>>

\* It is compiled from the files that are there meanwhile, and installed.
Install(r) ==
  /\ pc[r] = "build"
  /\ installed' = [installed EXCEPT ![SourceId(r)] = ReadFrom(tmp[r], Source(SourceId(r)))]
  /\ Go(r, "idle")
  /\ UNCHANGED <<node, up, checkout, copies, want, tmp, starts, moves>>

\* A run fails or dies; its locks go with it.
Abort(r) ==
  /\ pc[r] # "idle"
  /\ Go(r, "idle")
  /\ UNCHANGED <<node, up, checkout, copies, installed, want, tmp, starts, moves>>

\* The branch moves; tags and commits are immutable.
Move ==
  /\ floating
  /\ moves < MaxMoves
  /\ moves' = moves + 1
  /\ up' \in Commit \ {up}
  /\ UNCHANGED <<node, checkout, copies, installed, pc, want, tmp, starts>>

Next ==
  \/ \E r \in Run :
       \/ Start(r) \/ LockCheckout(r) \/ Sync(r) \/ Reset(r) \/ Lookup(r) \/ Confirm(r)
       \/ Prepare(r) \/ LockPatched(r) \/ Copy(r) \/ Publish(r) \/ Rename(r)
       \/ EnterSlot(r) \/ Install(r) \/ Abort(r)
  \/ Move

Spec == Init /\ [][Next]_vars

-----------------------------------------------------------------------------
\* What is installed under a key was compiled from the commit in the key.
BuiltFromItsCommit == \A c \in Commit : installed[c] \in {None, c}

\* For a commit or a tag this holds, although the checkout and the patched tree are
\* read without a lock while other runs check them out and patch them.  A tree that
\* has to be copied to its place for want of a rename is left out: its marker may
\* be copied before a crash, and the rest not.
PinnedFromItsCommit == ~floating /\ renames => BuiltFromItsCommit

\* A patched tree with its marker is whole, whoever died making it.
PatchedIsWhole == ~floating /\ renames => \A c \in marked : patched[c] = c

\* DOCUMENTATION.md:30, on what the key of a package is made of: "for branches and
\* the default branch, the commit it currently resolves to".  The commit in the key
\* is then the one that was compiled, torn trees left aside.
KeyNamesItsCommit == \A c \in Commit : installed[c] \in Commit => installed[c] = c
=============================================================================
