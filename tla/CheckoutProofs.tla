--------------------------- MODULE CheckoutProofs ---------------------------
(***************************************************************************)
(* What fetch_and_checkout returns, for any repository, any ref and any    *)
(* number of failures, crashes, edits and moves of the ref.                *)
(***************************************************************************)
EXTENDS Checkout, TLAPS

\* HEAD and the files are the commit's from the end of the reset on, and the marker
\* is written only when the rest of the tree is the commit's as well.
TreeInv ==
  /\ pc \in {"clean", "submodules", "reclone", "retry", "head"} => head = target /\ tree = target
  /\ pc \in {"submodules", "reclone", "retry", "head"} => junk = {}
  /\ pc = "head" => subs = NoSub \/ subs = SubOf[target]
  /\ ReturnsItsCommit

\* A call works towards a commit that the ref has named since it began.
WantInv ==
  /\ pc # "idle" => up \in named
  /\ pc = "resolve" => fetched \in named \cap Commit /\ (kind = "commit" => fetched = up)
  /\ pc \in TreePC =>
       (kind = "branch" => target \in named) /\ (kind = "commit" => target = up)
  /\ ReturnsWhatWasAsked

\* Only a clone has a HEAD, and only clones are worked in.
CloneInv ==
  /\ repo # "clone" => head = NoCommit
  /\ pc \in SyncPC => repo = "clone"
  /\ pc \in {"create", "init", "origin"} => repo # "clone"
  /\ pc = "remove" /\ mode = "update" => head = NoCommit
  /\ pc = "discard" => mode = "new"

IInv == TypeOK /\ TreeInv /\ WantInv /\ CloneInv

-----------------------------------------------------------------------------
\* Types are kept.
LEMMA TypeStep == IInv /\ [Next]_vars => TypeOK'
<1> SUFFICES ASSUME IInv, [Next]_vars PROVE TypeOK'
  OBVIOUS
<1> USE CommitsAssumption, CheckoutBounds
    DEF IInv, TypeOK, WantInv, CloneInv, TreePC, SyncPC, CallPC, Go, Fault, call, clone, files
<1>1. CASE UNCHANGED vars
  BY <1>1 DEF vars
<1>2. CASE Call
  BY <1>2 DEF Call
<1>3. CASE Look
  BY <1>3 DEF Look, IsInvalid
<1>4. CASE Remove
  BY <1>4 DEF Remove
<1>5. CASE Create
  BY <1>5 DEF Create
<1>6. CASE Fetch
  BY <1>6 DEF Fetch, FetchedRef
<1>7. CASE Resolve
  BY <1>7 DEF Resolve
<1>8. CASE Reset
  BY <1>8 DEF Reset
<1>9. CASE FailOnLock
  BY <1>9 DEF FailOnLock, AfterError
<1>10. CASE Clean
  BY <1>10 DEF Clean, SubsAfterClean
<1>11. CASE UpdateSubmodules
  BY <1>11 DEF UpdateSubmodules
<1>12. CASE Reclone
  BY <1>12 DEF Reclone
<1>13. CASE Mark
  BY <1>13 DEF Mark
<1>14. CASE Return
  BY <1>14 DEF Return
<1>15. CASE Misread
  BY <1>15 DEF Misread
<1>16. CASE FailUpdate
  BY <1>16 DEF FailUpdate
<1>17. CASE Fail
  BY <1>17 DEF Fail, AfterError, Interrupted
<1>18. CASE Crash
  <2>1. UNCHANGED <<kind, up, named, repo, head, fetched, tree, junk, target, mode, moves>>
        /\ pc' = "idle" /\ faults' \in Nat
    BY <1>18 DEF Crash, Interrupted
  <2>2. subs' \in Sub \cup {NoSub, Mixed} /\ marker' \in Commit \cup {NoCommit}
    BY <1>18 DEF Crash, Interrupted
  <2>3. locked' \in BOOLEAN
    BY <1>18 DEF Crash
  <2> QED BY <2>1, <2>2, <2>3
<1>19. CASE Move
  BY <1>19 DEF Move
<1>20. CASE Edit
  <2>1. UNCHANGED <<kind, up, named, clone, call, moves>> /\ faults' \in Nat
    BY <1>20 DEF Edit
  <2>2. tree' \in Commit \cup {NoCommit, Mixed} /\ subs' \in Sub \cup {NoSub, Mixed}
    BY <1>20 DEF Edit
  <2>3. junk' \subseteq {"seen", "ignored"}
    BY <1>20 DEF Edit
  <2> QED BY <2>1, <2>2, <2>3
<1> QED BY <1>1, <1>2, <1>3, <1>4, <1>5, <1>6, <1>7, <1>8, <1>9, <1>10, <1>11, <1>12,
           <1>13, <1>14, <1>15, <1>16, <1>17, <1>18, <1>19, <1>20 DEF Next, Step

\* The tree is the commit's where it has to be.
LEMMA TreeStep == IInv /\ [Next]_vars => TreeInv'
<1> SUFFICES ASSUME IInv, [Next]_vars PROVE TreeInv'
  OBVIOUS
<1> USE DEF IInv, TreeInv, ReturnsItsCommit, Go, call, clone, files
<1>1. CASE UNCHANGED vars
  BY <1>1 DEF vars
<1>2. CASE Look
  BY <1>2 DEF Look, StatusIsEmpty
<1>3. CASE Resolve
  BY <1>3 DEF Resolve, IsPristineAt, StatusIsEmpty
<1>4. CASE Clean
  BY <1>4 DEF Clean, SubsAfterClean
<1>5. CASE UpdateSubmodules
  BY <1>5 DEF UpdateSubmodules
<1>6. CASE Mark
  BY <1>6 DEF Mark
<1>7. CASE Reset \/ FailOnLock
  BY <1>7 DEF Reset, FailOnLock, AfterError
<1>8. CASE FailUpdate \/ Reclone
  BY <1>8 DEF FailUpdate, Reclone
<1>9. CASE Call \/ Remove \/ Create \/ Fetch \/ Return \/ Misread
  BY <1>9 DEF Call, Remove, Create, Fetch, FetchedRef, Return, Misread
<1>10. CASE Fail \/ Crash
  BY <1>10 DEF Fail, Crash, AfterError
<1>11. CASE Move \/ Edit
  BY <1>11 DEF Move, Edit
<1> QED BY <1>1, <1>2, <1>3, <1>4, <1>5, <1>6, <1>7, <1>8, <1>9, <1>10, <1>11 DEF Next, Step

\* What is worked towards stays a commit that was asked for.
LEMMA WantStep == IInv /\ [Next]_vars => WantInv'
<1> SUFFICES ASSUME IInv, [Next]_vars PROVE WantInv'
  OBVIOUS
<1> USE DEF IInv, WantInv, ReturnsWhatWasAsked, TypeOK, TreePC, SyncPC, Go, call, clone, files
<1>1. CASE UNCHANGED vars
  BY <1>1 DEF vars
<1>2. CASE Call
  BY <1>2 DEF Call
<1>3. CASE Look
  BY <1>3 DEF Look, IsWanted
<1>4. CASE Fetch
  BY <1>4 DEF Fetch, FetchedRef
<1>5. CASE Resolve
  BY <1>5 DEF Resolve
<1>6. CASE Reset \/ Clean \/ UpdateSubmodules \/ Reclone \/ Mark \/ FailUpdate
  BY <1>6 DEF Reset, Clean, UpdateSubmodules, Reclone, Mark, FailUpdate
<1>7. CASE Remove \/ Create \/ Misread \/ Return
  BY <1>7 DEF Remove, Create, Misread, Return
<1>8. CASE FailOnLock \/ Fail \/ Crash
  BY <1>8 DEF FailOnLock, Fail, Crash, AfterError, Interrupted
<1>9. CASE Move
  BY <1>9 DEF Move
<1>10. CASE Edit
  BY <1>10 DEF Edit
<1> QED BY <1>1, <1>2, <1>3, <1>4, <1>5, <1>6, <1>7, <1>8, <1>9, <1>10 DEF Next, Step

\* Clones stay clones.
LEMMA CloneStep == IInv /\ [Next]_vars => CloneInv'
<1> SUFFICES ASSUME IInv, [Next]_vars PROVE CloneInv'
  OBVIOUS
<1> USE DEF IInv, CloneInv, TypeOK, SyncPC, Go, call, clone, files
<1>1. CASE UNCHANGED vars
  BY <1>1 DEF vars
<1>2. CASE Look
  BY <1>2 DEF Look, IsInvalid
<1>3. CASE Misread
  BY <1>3 DEF Misread, IsInvalid
<1>4. CASE Remove \/ Create
  BY <1>4 DEF Remove, Create
<1>5. CASE Fetch \/ Resolve \/ Reset \/ Clean \/ UpdateSubmodules
  BY <1>5 DEF Fetch, FetchedRef, Resolve, Reset, Clean, UpdateSubmodules
<1>6. CASE FailUpdate \/ Reclone \/ Mark \/ Return \/ Call
  BY <1>6 DEF FailUpdate, Reclone, Mark, Return, Call
<1>7. CASE FailOnLock \/ Fail \/ Crash
  BY <1>7 DEF FailOnLock, Fail, Crash, AfterError, Interrupted
<1>8. CASE Move \/ Edit
  BY <1>8 DEF Move, Edit
<1> QED BY <1>1, <1>2, <1>3, <1>4, <1>5, <1>6, <1>7, <1>8 DEF Next, Step

-----------------------------------------------------------------------------
\* The inductive invariant of a checkout.
THEOREM CheckoutInvariant == Spec => []IInv
<1>1. Init => IInv
  <2> SUFFICES ASSUME Init PROVE IInv
    OBVIOUS
  <2> USE DEF Init
  <2>1. TypeOK
    BY DEF TypeOK, TreePC, SyncPC, CallPC
  <2>2. TreeInv
    BY DEF TreeInv, ReturnsItsCommit
  <2>3. WantInv
    BY DEF WantInv, ReturnsWhatWasAsked, TreePC, SyncPC
  <2>4. CloneInv
    BY DEF CloneInv, SyncPC
  <2> QED BY <2>1, <2>2, <2>3, <2>4 DEF IInv
<1>2. IInv /\ [Next]_vars => IInv'
  BY TypeStep, TreeStep, WantStep, CloneStep DEF IInv
<1> QED BY <1>1, <1>2, PTL DEF Spec

\* Type correctness of a checkout.
THEOREM CheckoutTypes == Spec => []TypeOK
BY CheckoutInvariant, PTL DEF IInv

\* Whatever failed, died or was edited before, the tree that is returned is the
\* returned commit's (fetch_and_checkout, its restore and its sync).
THEOREM CommitTheorem == Spec => []ReturnsItsCommit
<1>1. IInv => ReturnsItsCommit
  BY DEF IInv, TreeInv
<1> QED BY CheckoutInvariant, <1>1, PTL

\* The commit is one the ref named during the call: "never a silent fallback to
\* another revision" (git.rs:48-49).
THEOREM AskedTheorem == Spec => []ReturnsWhatWasAsked
<1>1. IInv => ReturnsWhatWasAsked
  BY DEF IInv, WantInv
<1> QED BY CheckoutInvariant, <1>1, PTL

\* No clone with a commit is deleted by a call that could read it
\* ("resume in place instead of re-cloning", git.rs:98).
THEOREM ClonesTheorem == Spec => KeepsClones
<1>1. IInv /\ [Next]_vars => [head # NoCommit /\ head' = NoCommit => mode # "update"]_vars
  <2> SUFFICES ASSUME IInv, Next, head # NoCommit, head' = NoCommit
               PROVE  mode # "update"
    BY DEF IInv
  <2>1. Remove \/ Reset
    BY DEF Next, Step, Call, Look, Create, Fetch, FetchedRef, Resolve, FailOnLock, Clean,
           UpdateSubmodules, Reclone, Mark, Return, Misread, FailUpdate, Fail, Crash, Move, Edit, Interrupted, clone
  <2>2. CASE Remove
    BY <2>2 DEF Remove, IInv, CloneInv, clone
  <2>3. CASE Reset
    BY <2>3, CommitsAssumption DEF Reset, IInv, TypeOK, TreePC, SyncPC
  <2> QED BY <2>1, <2>2, <2>3
<1> QED BY CheckoutInvariant, <1>1, PTL DEF Spec, KeepsClones
=============================================================================
