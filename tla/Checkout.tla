------------------------------ MODULE Checkout ------------------------------
(***************************************************************************)
(* One git checkout (crates/unideps-builder/src/git.rs): fetch_and_checkout*)
(* called again and again on the same directory, for one ref of one remote *)
(* that moves, by runs that fail or die at any step, while people and      *)
(* builds leave things behind in the tree.  The source lock of the         *)
(* directory lets one call through at a time.                              *)
(*                                                                         *)
(* A commit stands for the tracked files it has; what is not a commit of   *)
(* the tree is Mixed.  A commit pins its submodule at SubOf[c].            *)
(***************************************************************************)
EXTENDS Naturals

CONSTANTS
  Commit, Sub,     \* commits of the repository, and of its submodule
  SubOf,           \* SubOf[c]: the submodule commit c pins, NoSub without one
  NoCommit, NoSub, Mixed,
  MaxMoves,        \* how often the ref moves upstream (a bound of the model)
  MaxFaults        \* crashes, failed commands and edits in all (a bound)

ASSUME CommitsAssumption ==
  /\ NoCommit \notin Commit /\ Mixed \notin Commit
  /\ NoSub \notin Sub /\ Mixed \notin Sub /\ Mixed # NoSub
  /\ SubOf \in [Commit -> Sub \cup {NoSub}]
ASSUME CheckoutBounds == MaxMoves \in Nat /\ MaxFaults \in Nat

VARIABLES
  kind,      \* the GitRef: "commit", "tag", or "branch" (also the default HEAD)
  up,        \* what the ref names upstream
  named,     \* what it has named since the current call began
  repo,      \* dest: "none", "dir" (no .git), "init" (no origin), "clone"
  head,      \* HEAD
  marker,    \* CHECKOUT_MARKER
  fetched,   \* what the ref names in the clone
  tree,      \* the commit whose files are there
  junk,      \* untracked files: "seen" by git status, or "ignored"
  subs,      \* the submodule commit that is there
  locked,    \* a git that was killed left .git/index.lock
  pc, target,    \* the call: where it is, and what it checks out
  mode,          \* ... on a clone that was there ("update"), one that git could
                 \* not read ("unread"), or one of its own ("new")
  moves, faults

call == <<pc, target, mode>>
clone == <<repo, head, marker, fetched, locked>>
files == <<tree, junk, subs>>
vars == <<kind, up, named, clone, files, call, moves, faults>>

SyncPC == {"fetch", "resolve", "reset", "resetting", "clean", "submodules", "reclone",
           "retry", "head"}
TreePC == SyncPC \ {"fetch", "resolve"}
CallPC == {"idle", "look", "remove", "create", "init", "origin", "discard", "ok"} \cup SyncPC

TypeOK ==
  /\ kind \in {"commit", "tag", "branch"}
  /\ up \in Commit /\ named \subseteq Commit
  /\ repo \in {"none", "dir", "init", "clone"}
  /\ {head, marker, fetched} \subseteq Commit \cup {NoCommit}
  /\ tree \in Commit \cup {NoCommit, Mixed}
  /\ junk \subseteq {"seen", "ignored"}
  /\ subs \in Sub \cup {NoSub, Mixed}
  /\ pc \in CallPC
  /\ target \in Commit \cup {NoCommit}
  /\ pc \in TreePC \cup {"ok"} => target \in Commit
  /\ mode \in {"update", "unread", "new"}
  /\ locked \in BOOLEAN
  /\ moves \in Nat /\ faults \in Nat

Init ==
  /\ kind \in {"commit", "tag", "branch"}
  /\ up \in Commit /\ named = {}
  /\ repo = "none" /\ head = NoCommit /\ marker = NoCommit /\ fetched = NoCommit
  /\ tree = NoCommit /\ junk = {} /\ subs = NoSub
  /\ pc = "idle" /\ target = NoCommit /\ mode = "update" /\ locked = FALSE
  /\ moves = 0 /\ faults = 0

-----------------------------------------------------------------------------
\* `git status --porcelain` prints nothing.  It does not show ignored files, nor
\* a submodule whose directory is empty; a submodule that the commit does not
\* have is untracked.
StatusIsEmpty ==
  /\ tree = head
  /\ "seen" \notin junk
  /\ subs = NoSub \/ subs = SubOf[head]

\* existing_checkout_state, with faults and as it is.
IsInvalid_NoOriginLook == repo = "dir" \/ (repo = "clone" /\ head = NoCommit)
IsInvalid_Unmarked == repo # "clone" \/ marker # head
IsInvalid == repo # "clone" \/ head = NoCommit
IsComplete == head # NoCommit /\ marker = head
IsWanted_AnyRevision == TRUE
IsWanted ==
  \/ kind = "commit" /\ head = up
  \/ kind = "tag" /\ head = fetched
IsPristineAt_HeadOnly(c) == head = c
IsPristineAt(c) == head = c /\ marker = c /\ StatusIsEmpty

\* What git clean leaves: nothing untracked, submodules of the commit excepted.
SubsAfterClean == IF SubOf[target] = NoSub THEN NoSub ELSE subs

Go(l) == pc' = l
Fault == faults < MaxFaults /\ faults' = faults + 1

-----------------------------------------------------------------------------
Call ==
  /\ pc = "idle"
  /\ Go("look")
  /\ named' = {up}
  /\ target' = NoCommit /\ mode' = "update"
  /\ UNCHANGED <<kind, up, clone, files, moves, faults>>

Look ==
  /\ pc = "look"
  /\ IF repo = "none" THEN Go("create") /\ UNCHANGED target
     ELSE IF IsInvalid THEN Go("remove") /\ UNCHANGED target
     ELSE IF ~(IsComplete /\ IsWanted) THEN Go("fetch") /\ UNCHANGED target
     ELSE /\ target' = head
          /\ Go(IF StatusIsEmpty THEN "ok" ELSE "reset")
  /\ UNCHANGED <<kind, up, named, clone, files, mode, moves, faults>>

\* A git command fails while looking: no error is returned, the clone counts as
\* invalid or as out of date.
Misread ==
  /\ pc = "look" /\ repo # "none"
  /\ Fault
  /\ \/ Go("remove") /\ mode' = "unread"
     \/ ~IsInvalid /\ IsComplete /\ Go("fetch") /\ UNCHANGED mode
  /\ UNCHANGED <<kind, up, named, clone, files, target, moves>>

\* remove_dir_all, of an invalid clone and of a new one that failed; the files
\* may go before .git does.
Remove ==
  /\ pc \in {"remove", "discard"}
  /\ \/ tree' = Mixed /\ UNCHANGED <<clone, junk, subs, pc>>
     \/ /\ repo' = "none" /\ head' = NoCommit /\ marker' = NoCommit /\ fetched' = NoCommit
        /\ locked' = FALSE
        /\ tree' = NoCommit /\ junk' = {} /\ subs' = NoSub
        /\ Go(IF pc = "remove" THEN "create" ELSE "idle")
  /\ UNCHANGED <<kind, up, named, target, mode, moves, faults>>

Create ==
  /\ \/ pc = "create" /\ repo' = "dir" /\ Go("init")
     \/ pc = "init" /\ repo' = "init" /\ Go("origin")
     \/ pc = "origin" /\ repo' = "clone" /\ Go("fetch")
  /\ mode' = "new"
  /\ UNCHANGED <<kind, up, named, head, marker, fetched, locked, files, target, moves, faults>>

\* The ref is fetched, then resolved to a commit in the clone.
FetchedRef == up

Fetch ==
  /\ pc = "fetch"
  /\ repo = "clone"
  /\ fetched' = FetchedRef
  /\ Go("resolve")
  /\ UNCHANGED <<kind, up, named, repo, head, marker, locked, files, target, mode, moves, faults>>

Resolve ==
  /\ pc = "resolve"
  /\ target' = fetched
  /\ Go(IF IsPristineAt(fetched) THEN "ok" ELSE "reset")
  /\ UNCHANGED <<kind, up, named, clone, files, mode, moves, faults>>

\* git reset --hard writes the files and then moves HEAD.
Reset ==
  /\ ~locked
  /\ \/ /\ pc = "reset"
        /\ tree' = Mixed
        /\ Go("resetting")
        /\ UNCHANGED head
     \/ /\ pc = "resetting"
        /\ tree' = target /\ head' = target
        /\ Go("clean")
  /\ UNCHANGED <<kind, up, named, repo, marker, fetched, locked, junk, subs, target, mode, moves, faults>>

Clean ==
  /\ pc = "clean"
  /\ junk' = {}
  /\ subs' = SubsAfterClean
  /\ Go(IF SubOf[target] = NoSub THEN "head" ELSE "submodules")
  /\ UNCHANGED <<kind, up, named, clone, tree, target, mode, moves, faults>>

UpdateSubmodules ==
  /\ pc \in {"submodules", "retry"}
  /\ subs' = SubOf[target]
  /\ Go("head")
  /\ UNCHANGED <<kind, up, named, clone, tree, junk, target, mode, moves, faults>>

\* What a command that fails, or is cut off, may leave behind.
Interrupted ==
  /\ IF pc \in {"submodules", "retry"} THEN subs' \in {subs, Mixed} ELSE UNCHANGED subs
  /\ IF pc = "head" THEN marker' \in {marker, NoCommit} ELSE UNCHANGED marker
  /\ UNCHANGED <<repo, head, fetched, tree, junk>>

AfterError == IF mode = "new" /\ pc \in SyncPC THEN "discard" ELSE "idle"

\* A failed update is tried again from nothing: .git/modules is deleted and the
\* submodules deinitialised.
FailUpdate ==
  /\ pc = "submodules"
  /\ Fault
  /\ subs' \in {subs, Mixed}
  /\ Go("reclone")
  /\ UNCHANGED <<kind, up, named, clone, tree, junk, target, mode, moves>>

Reclone ==
  /\ pc = "reclone"
  /\ subs' \in {NoSub, Mixed}
  /\ Go("retry")
  /\ UNCHANGED <<kind, up, named, clone, tree, junk, target, mode, moves, faults>>

\* HEAD is what was asked for, so the marker is written.
Mark ==
  /\ pc = "head"
  /\ head = target
  /\ marker' = target
  /\ Go("ok")
  /\ UNCHANGED <<kind, up, named, repo, head, fetched, locked, files, target, mode, moves, faults>>

Return ==
  /\ pc = "ok"
  /\ Go("idle")
  /\ UNCHANGED <<kind, up, named, clone, files, target, mode, moves, faults>>

\* git reset --hard finds the lock of a git that was killed.
FailOnLock ==
  /\ pc = "reset" /\ locked
  /\ Go(AfterError)
  /\ UNCHANGED <<kind, up, named, clone, files, target, mode, moves, faults>>

\* A command fails.  Only a clone made by this call is thrown away.
Fail ==
  /\ pc \notin {"idle", "look", "ok"}
  /\ Fault
  /\ Go(AfterError)
  /\ Interrupted
  /\ UNCHANGED <<kind, up, named, locked, target, mode, moves>>

\* The process dies, and git may die with it, with no time to remove its lock.
Crash ==
  /\ pc # "idle"
  /\ Fault
  /\ Go("idle")
  /\ Interrupted
  /\ \/ UNCHANGED locked
     \/ pc = "resetting" /\ locked' = TRUE
  /\ UNCHANGED <<kind, up, named, target, mode, moves>>

-----------------------------------------------------------------------------
\* The remote moves the ref; a commit id always names the same commit.
Move ==
  /\ kind # "commit"
  /\ moves < MaxMoves
  /\ moves' = moves + 1
  /\ up' \in Commit \ {up}
  /\ named' = named \cup {up'}
  /\ UNCHANGED <<kind, clone, files, call, faults>>

\* "A build or a manual edit can leave files behind": tracked files or
\* the submodule changed, or new files.
Edit ==
  /\ pc = "idle" /\ repo = "clone" /\ head # NoCommit
  /\ Fault
  /\ \/ tree' = Mixed /\ UNCHANGED <<junk, subs>>
     \/ \E j \in {"seen", "ignored"} : junk' = junk \cup {j} /\ UNCHANGED <<tree, subs>>
     \/ SubOf[head] # NoSub /\ subs' = Mixed /\ UNCHANGED <<tree, junk>>
  /\ UNCHANGED <<kind, up, named, clone, call, moves>>

-----------------------------------------------------------------------------
Step ==
  \/ Look \/ Remove \/ Create \/ Fetch \/ Resolve \/ Reset \/ FailOnLock \/ Clean
  \/ UpdateSubmodules \/ Reclone \/ Mark \/ Return

Next == Call \/ Step \/ Misread \/ FailUpdate \/ Fail \/ Crash \/ Move \/ Edit

Spec == Init /\ [][Next]_vars

\* A call in progress goes on, and a removal comes to its end.
Removed == Remove /\ pc' # pc
FairSpec == Spec /\ WF_vars(Step) /\ SF_vars(Removed)

-----------------------------------------------------------------------------
\* What a call returns is the tree of the commit it says: no file of another
\* commit, no edit, no new file git shows, no submodule at another commit.
ReturnsItsCommit ==
  pc = "ok" =>
    /\ head = target /\ tree = target
    /\ "seen" \notin junk
    /\ subs = NoSub \/ subs = SubOf[target]

\* A ref that is gone or has moved is never replaced by what is at hand: a branch
\* gives a commit it named during the call, a pinned commit that commit ("never a
\* silent fallback to another revision", git.rs:48-49).
ReturnsWhatWasAsked ==
  pc = "ok" =>
    /\ kind = "branch" => target \in named
    /\ kind = "commit" => target = up

\* A clone that has been checked out once is brought up to date in place: only a
\* call that made the clone itself, or to which git would not say whose clone it
\* is, deletes what is there.
KeepsClones == [][head # NoCommit /\ head' = NoCommit => mode # "update"]_vars

\* Whatever happened before, once nothing fails any more a call returns a tree: no
\* leftover of a call makes every later one fail ("an interrupted checkout or submodule
\* update is detected and resumed", git.rs:42), but for the lock of a git that was killed
\* in the middle of its reset, which nobody removes.
Recovers == (pc = "look" /\ faults = MaxFaults /\ ~locked) ~> (pc = "ok")

\* What comments of git.rs say, and the code does not do.

\* "an interrupted checkout or submodule update is detected and resumed"
SubmodulesResumed == pc = "ok" => subs = SubOf[target]

\* "a build or a manual edit can leave files behind as well.  Such a tree must
\* not be handed out as pristine sources."
NothingLeftBehind == pc = "ok" => junk = {}
=============================================================================
