--------------------------- MODULE SourcesProofs ---------------------------
(***************************************************************************)
(* Pinned sources are read without a lock, for any runs.  The argument:    *)
(* once a run has gone past the checkout its tree is pristine, a pristine  *)
(* tree is never reset again, and whoever has the lock of a patched tree   *)
(* works on one that nobody uses yet.                                      *)
(***************************************************************************)
EXTENDS Sources, TLAPS

\* Past the checkout, and at work on the patched tree.
Past(r) == pc[r] \in {"prepare", "wait", "copy", "copying", "publish", "rename", "spill",
                      "ready", "build"}
Patching(r) == pc[r] \in {"copy", "copying", "publish", "rename", "spill"}

\* One run at a time has the checkout, and the patched tree.
LockInv ==
  /\ \A r, q \in Run : pc[r] \in {"sync", "reset"} /\ pc[q] \in {"sync", "reset"} => r = q
  /\ ~floating => \A r, q \in Run : Patching(r) /\ Patching(q) => r = q

\* What is past the checkout relies on it, and nobody resets it.
CheckoutInv == ~floating =>
  /\ \A r \in Run : pc[r] = "reset" => want[r] = up /\ ~IsPristineAt(up)
  /\ \A r \in Run : Past(r) => IsPristineAt(up)

\* The patched tree: only its maker writes it, and it is whole when it is used.
PatchedInv == ~floating =>
  /\ marked \subseteq {up}
  /\ up \in marked => patched[up] = up
  /\ \A r \in Run : Patching(r) => up \notin marked
  /\ \A r \in Run : pc[r] \in {"copying", "publish", "rename"} => tmp[r] = up
  /\ \A r \in Run : pc[r] # "spill"
  /\ patches => \A r \in Run : pc[r] \in {"ready", "build"} => up \in marked

\* What is compiled is the commit.
BuildInv == ~floating =>
  /\ \A r \in Run : pc[r] = "build" => tmp[r] = up
  /\ BuiltFromItsCommit

IInv == TypeOK /\ LockInv /\ (renames => CheckoutInv /\ PatchedInv /\ BuildInv)

-----------------------------------------------------------------------------
\* What the node is does not change.
LEMMA NodeKept == [Next]_vars => UNCHANGED <<floating, patches, renames>>
<1> SUFFICES ASSUME Next PROVE UNCHANGED <<floating, patches, renames>>
  BY DEF vars, node
<1> USE DEF node
<1>1. ASSUME NEW r \in Run, Start(r) \/ LockCheckout(r) \/ Sync(r) \/ Reset(r) \/ Lookup(r)
      PROVE  UNCHANGED <<floating, patches, renames>>
  BY <1>1 DEF Start, LockCheckout, Sync, Reset, Lookup
<1>2. ASSUME NEW r \in Run, Confirm(r) \/ Prepare(r) \/ LockPatched(r) \/ Copy(r) \/ Publish(r)
      PROVE  UNCHANGED <<floating, patches, renames>>
  BY <1>2 DEF Confirm, Prepare, LockPatched, Copy, Publish
<1>3. ASSUME NEW r \in Run, Rename(r) \/ EnterSlot(r) \/ Install(r) \/ Abort(r)
      PROVE  UNCHANGED <<floating, patches, renames>>
  BY <1>3 DEF Rename, EnterSlot, Install, Abort
<1>4. CASE Move
  BY <1>4 DEF Move
<1> QED BY <1>1, <1>2, <1>3, <1>4 DEF Next

\* Types are kept by every step.
LEMMA TypeStep == TypeOK /\ [Next]_vars => TypeOK'
<1> SUFFICES ASSUME TypeOK, [Next]_vars PROVE TypeOK'
  OBVIOUS
<1> USE SourcesAssumption DEF TypeOK, Files, SourceId, Go, node, checkout, copies
<1>1. CASE UNCHANGED vars
  BY <1>1 DEF vars
<1>2. ASSUME NEW r \in Run, Start(r) PROVE TypeOK'
  BY <1>2 DEF Start, FirstStep
<1>3. ASSUME NEW r \in Run, LockCheckout(r) PROVE TypeOK'
  BY <1>3 DEF LockCheckout
<1>4. ASSUME NEW r \in Run, Sync(r) PROVE TypeOK'
  BY <1>4 DEF Sync, AfterSync, AfterBase
<1>5. ASSUME NEW r \in Run, Reset(r) PROVE TypeOK'
  <2>1. want[r] \in Commit
    BY <1>5 DEF Reset
  <2> QED BY <1>5, <2>1 DEF Reset, AfterSync, AfterBase
<1>6. ASSUME NEW r \in Run, Lookup(r) PROVE TypeOK'
  BY <1>6 DEF Lookup
<1>7. ASSUME NEW r \in Run, Confirm(r) PROVE TypeOK'
  BY <1>7 DEF Confirm, AfterBase
<1>8. ASSUME NEW r \in Run, Prepare(r) PROVE TypeOK'
  BY <1>8 DEF Prepare
<1>9. ASSUME NEW r \in Run, LockPatched(r) PROVE TypeOK'
  BY <1>9 DEF LockPatched
<1>10. ASSUME NEW r \in Run, Copy(r) PROVE TypeOK'
  BY <1>10 DEF Copy, ReadFrom
<1>11. ASSUME NEW r \in Run, Publish(r) PROVE TypeOK'
  BY <1>11 DEF Publish
<1>12. ASSUME NEW r \in Run, Rename(r) PROVE TypeOK'
  BY <1>12 DEF Rename
<1>13. ASSUME NEW r \in Run, EnterSlot(r) PROVE TypeOK'
  BY <1>13 DEF EnterSlot, Source
<1>14. ASSUME NEW r \in Run, Install(r) PROVE TypeOK'
  BY <1>14 DEF Install, Source, ReadFrom
<1>15. ASSUME NEW r \in Run, Abort(r) PROVE TypeOK'
  BY <1>15 DEF Abort
<1>16. CASE Move
  BY <1>16 DEF Move
<1> QED BY <1>1, <1>2, <1>3, <1>4, <1>5, <1>6, <1>7, <1>8, <1>9, <1>10, <1>11, <1>12, <1>13,
           <1>14, <1>15, <1>16 DEF Next

\* The locks exclude.
LEMMA LockStep == TypeOK /\ LockInv /\ [Next]_vars => LockInv'
<1> SUFFICES ASSUME TypeOK, LockInv, [Next]_vars PROVE LockInv'
  OBVIOUS
<1> USE DEF TypeOK, LockInv, Patching, SourceId, Go, node
<1>1. CASE UNCHANGED vars
  BY <1>1 DEF vars
<1>2. ASSUME NEW r \in Run, LockCheckout(r) PROVE LockInv'
  BY <1>2 DEF LockCheckout, SourceLockFree
<1>3. ASSUME NEW r \in Run, LockPatched(r) PROVE LockInv'
  BY <1>3 DEF LockPatched, PatchedLockFree
<1>4. ASSUME NEW r \in Run, Start(r) \/ Lookup(r) \/ Confirm(r) \/ Prepare(r) PROVE LockInv'
  BY <1>4 DEF Start, Lookup, Confirm, Prepare, FirstStep, AfterBase
<1>5. ASSUME NEW r \in Run, Sync(r) PROVE LockInv'
  BY <1>5 DEF Sync, AfterSync, AfterBase
<1>6. ASSUME NEW r \in Run, Reset(r) PROVE LockInv'
  BY <1>6 DEF Reset, AfterSync, AfterBase
<1>7. ASSUME NEW r \in Run, Copy(r) \/ Publish(r) \/ Rename(r) PROVE LockInv'
  BY <1>7 DEF Copy, Publish, Rename
<1>8. ASSUME NEW r \in Run, EnterSlot(r) \/ Install(r) \/ Abort(r) PROVE LockInv'
  BY <1>8 DEF EnterSlot, Install, Abort
<1>9. CASE Move
  BY <1>9 DEF Move
<1> QED BY <1>1, <1>2, <1>3, <1>4, <1>5, <1>6, <1>7, <1>8, <1>9 DEF Next

\* A checkout that is relied on stays as it is.
LEMMA CheckoutStep == TypeOK /\ LockInv /\ CheckoutInv /\ [Next]_vars => CheckoutInv'
<1> SUFFICES ASSUME TypeOK, LockInv, CheckoutInv, [Next]_vars, ~floating PROVE CheckoutInv'
  BY NodeKept DEF CheckoutInv
<1> USE DEF TypeOK, CheckoutInv, IsPristineAt, Past, Go, node, checkout
<1>1. CASE UNCHANGED vars
  BY <1>1 DEF vars
<1>2. ASSUME NEW r \in Run, Sync(r) PROVE CheckoutInv'
  BY <1>2, SourcesAssumption DEF Sync, AfterSync, AfterBase, LockInv
<1>3. ASSUME NEW r \in Run, Reset(r) PROVE CheckoutInv'
  BY <1>3 DEF Reset, AfterSync, AfterBase, LockInv
<1>4. ASSUME NEW r \in Run, Start(r) \/ LockCheckout(r) \/ Lookup(r) \/ Confirm(r) \/ Prepare(r)
      PROVE  CheckoutInv'
  BY <1>4 DEF Start, LockCheckout, Lookup, Confirm, Prepare, FirstStep, AfterBase
<1>5. ASSUME NEW r \in Run, LockPatched(r) \/ Copy(r) \/ Publish(r) \/ Rename(r)
      PROVE  CheckoutInv'
  BY <1>5 DEF LockPatched, Copy, Publish, Rename
<1>6. ASSUME NEW r \in Run, EnterSlot(r) \/ Install(r) \/ Abort(r) PROVE CheckoutInv'
  BY <1>6 DEF EnterSlot, Install, Abort
<1> QED BY <1>1, <1>2, <1>3, <1>4, <1>5, <1>6 DEF Next, Move

\* A patched tree is whole when it is used.
LEMMA PatchedStep ==
  TypeOK /\ LockInv /\ CheckoutInv /\ PatchedInv /\ renames /\ [Next]_vars => PatchedInv'
<1> SUFFICES ASSUME TypeOK, LockInv, CheckoutInv, PatchedInv, renames, [Next]_vars, ~floating
             PROVE  PatchedInv'
  BY NodeKept DEF PatchedInv
<1> USE DEF TypeOK, PatchedInv, Patching, SourceId, Go, node, checkout, copies
<1>1. CASE UNCHANGED vars
  BY <1>1 DEF vars
<1>2. ASSUME NEW r \in Run, Prepare(r) PROVE PatchedInv'
  BY <1>2 DEF Prepare
<1>3. ASSUME NEW r \in Run, LockPatched(r) PROVE PatchedInv'
  BY <1>3 DEF LockPatched, PatchedMeanwhile, PatchedLockFree
<1>4. ASSUME NEW r \in Run, Copy(r) PROVE PatchedInv'
  BY <1>4 DEF Copy, ReadFrom, CheckoutInv, Past, IsPristineAt
<1>5. ASSUME NEW r \in Run, Publish(r) PROVE PatchedInv'
  BY <1>5 DEF Publish
<1>6. ASSUME NEW r \in Run, Rename(r) PROVE PatchedInv'
  BY <1>6 DEF Rename, LockInv
<1>7. ASSUME NEW r \in Run, Start(r) \/ LockCheckout(r) \/ Lookup(r) PROVE PatchedInv'
  BY <1>7 DEF Start, LockCheckout, Lookup, FirstStep
<1>9. ASSUME NEW r \in Run, Sync(r) \/ Reset(r) PROVE PatchedInv'
  BY <1>9 DEF Sync, Reset, AfterSync, AfterBase
<1>8. ASSUME NEW r \in Run, Confirm(r) \/ EnterSlot(r) \/ Install(r) \/ Abort(r)
      PROVE  PatchedInv'
  BY <1>8 DEF Confirm, AfterBase, EnterSlot, Install, Abort
<1> QED BY <1>1, <1>2, <1>3, <1>4, <1>5, <1>6, <1>7, <1>8, <1>9 DEF Next, Move

\* What a compiler reads from is the commit, from its start to its end.
LEMMA SourceIsTheCommit ==
  ASSUME CheckoutInv, PatchedInv, ~floating, NEW r \in Run, pc[r] \in {"ready", "build"}
  PROVE  Source(SourceId(r)) = up
BY DEF CheckoutInv, PatchedInv, Past, IsPristineAt, Source, SourceId

LEMMA BuildStep ==
  TypeOK /\ CheckoutInv /\ PatchedInv /\ BuildInv /\ [Next]_vars => BuildInv'
<1> SUFFICES ASSUME TypeOK, CheckoutInv, PatchedInv, BuildInv, [Next]_vars, ~floating
             PROVE  BuildInv'
  BY NodeKept DEF BuildInv
<1> USE DEF TypeOK, BuildInv, BuiltFromItsCommit, Go, node, checkout, copies
<1>1. CASE UNCHANGED vars
  BY <1>1 DEF vars
<1>2. ASSUME NEW r \in Run, EnterSlot(r) PROVE BuildInv'
  BY <1>2, SourceIsTheCommit DEF EnterSlot
<1>3. ASSUME NEW r \in Run, Install(r) PROVE BuildInv'
  BY <1>3, SourceIsTheCommit DEF Install, ReadFrom, SourceId
<1>4. ASSUME NEW r \in Run, Start(r) \/ LockCheckout(r) \/ Lookup(r) PROVE BuildInv'
  BY <1>4 DEF Start, LockCheckout, Lookup, FirstStep
<1>7. ASSUME NEW r \in Run, Sync(r) \/ Reset(r) PROVE BuildInv'
  BY <1>7 DEF Sync, Reset, AfterSync, AfterBase
<1>5. ASSUME NEW r \in Run, Confirm(r) \/ Prepare(r) \/ LockPatched(r) \/ Copy(r)
      PROVE  BuildInv'
  BY <1>5 DEF Confirm, AfterBase, Prepare, LockPatched, Copy
<1>6. ASSUME NEW r \in Run, Publish(r) \/ Rename(r) \/ Abort(r) PROVE BuildInv'
  BY <1>6 DEF Publish, Rename, Abort
<1> QED BY <1>1, <1>2, <1>3, <1>4, <1>5, <1>6, <1>7 DEF Next, Move

-----------------------------------------------------------------------------
\* The inductive invariant of the sources.
THEOREM SourcesInvariant == Spec => []IInv
<1>1. Init => IInv
  BY SourcesAssumption
     DEF Init, IInv, TypeOK, Files, LockInv, CheckoutInv, PatchedInv, BuildInv, Past, Patching,
         BuiltFromItsCommit
<1>2. IInv /\ [Next]_vars => IInv'
  BY TypeStep, LockStep, CheckoutStep, PatchedStep, BuildStep, NodeKept DEF IInv
<1> QED BY <1>1, <1>2, PTL DEF Spec

\* Packages of a commit or a tag are compiled from it, although their sources are
\* read without a lock (base_source and prepared_source).
THEOREM PinnedTheorem == Spec => []PinnedFromItsCommit
<1>1. IInv => PinnedFromItsCommit
  BY DEF IInv, BuildInv, PinnedFromItsCommit
<1> QED BY SourcesInvariant, <1>1, PTL

\* .unideps-patched is only ever found in a whole patched tree (prepared_source).
THEOREM PatchedTheorem == Spec => []PatchedIsWhole
<1>1. IInv => PatchedIsWhole
  BY DEF IInv, PatchedInv, PatchedIsWhole
<1> QED BY SourcesInvariant, <1>1, PTL
=============================================================================
